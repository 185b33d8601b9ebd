------------------------------ MODULE AtaDisk ------------------------------
(***************************************************************************)
(* hw/ata.c: disks and CD drives of an IDE channel, driven through its     *)
(* registers (PIO) or a bus master (DMA), and hw/ahci.c: the same behind   *)
(* an AHCI port. The waits of ata.c end after 32 seconds, and what the     *)
(* drive does later meets the next request.                                *)
(***************************************************************************)
EXTENDS BlockOp

None == MaxXfer + 2

\* The registers of a channel: the drive is bsy, has data (drq), failed (err)
\* or is rdy; `held` is a sector in the drive on its way to the medium; irq and
\* active are those of the bus master's status.
AtaHw == [st |-> "rdy", held |-> None, irq |-> FALSE, active |-> FALSE]

IsAta == drv \in {"ata", "atapi"}

AtaUnchanged == UNCHANGED <<drv, op, pos, moved, ans, dev, stray>>

\* await_ide: the wait for a drive that is not busy ends, or is given up.
NotBsy == hw.st # "bsy"
GivenUp == hw.st = "bsy" /\ drv \in LateDrivers

AtaFail(count) ==
    /\ Return("ebadtrack", count)
    /\ UNCHANGED <<drv, op, pos, moved, dev, stray>>

\* ata_setup, init_pciata and init_controller: channels that have ports and
\* memory for their structure.
AtaController == IsAta /\ pc = "off" /\ pc' \in {"found", "absent"} /\ UNCHANGED hw /\ AtaUnchanged

\* ata_detect of one drive: a channel that floats, does not come out of its
\* spin up, or whose registers hold no values has none; it is reset once.
AtaDetect == IsAta /\ pc = "found" /\ pc' \in {"identify", "absent"} /\ UNCHANGED hw /\ AtaUnchanged

\* send_ata_identity and init_atadrive: it is identified, and gets a structure.
AtaIdentity == IsAta /\ pc = "identify" /\ pc' \in {"queue", "absent"} /\ UNCHANGED hw /\ AtaUnchanged

\* init_drive_atapi and init_drive_ata: the size, and the boot entry of a disk
\* or a CD. An ATAPI device that is no CD has none, and takes no requests.
AtaInitDrive == IsAta /\ pc = "queue" /\ pc' \in {"idle", "unused"} /\ UNCHANGED hw /\ AtaUnchanged

\* send_cmd: a drive that is not busy takes the command, and forgets one that
\* was not finished.
SendCmd(next, how) ==
    /\ NotBsy
    /\ dev' = {Command(0, op.count, how)}
    /\ hw' = [hw EXCEPT !.st = "bsy", !.held = None, !.active = how = "dma"]
    /\ pc' = next
    /\ UNCHANGED <<drv, op, pos, moved, ans, stray>>

\* ata_pio_cmd_data of ata_readwrite, and a drive that stays busy.
AtaPioCmdData ==
    /\ drv = "ata" /\ pc = "start" /\ op.data
    /\ \/ SendCmd("data", "pio")
       \/ GivenUp /\ AtaFail(op.count) /\ UNCHANGED hw

\* ata_wait_data.
AtaWaitData ==
    /\ IsAta /\ pc = "data" /\ NotBsy
    /\ \/ hw.st # "drq" /\ AtaFail(op.count) /\ UNCHANGED hw
       \/ /\ hw.st = "drq" /\ pc' = "move"
          /\ AtaUnchanged /\ UNCHANGED hw

\* A turn of ata_pio_transfer: the sector goes through the data register...
AtaMove ==
    /\ IsAta /\ pc = "move"
    /\ hw' = [hw EXCEPT !.st = "bsy", !.held = IF op.command = "write" THEN pos ELSE None]
    /\ moved' = IF op.command = "write" THEN moved ELSE moved \cup {pos}
    /\ pc' = "pause"
    /\ UNCHANGED <<drv, op, pos, ans, dev, stray>>

\* ... and the status afterwards tells whether there is a next one. The count
\* of an error is that of the sectors before it (status < 0) or up to it.
AtaPause ==
    /\ IsAta /\ pc = "pause" /\ NotBsy
    /\ pos' = pos + 1
    /\ \/ pos + 1 = op.count /\ Return(IF hw.st = "rdy" THEN "success" ELSE "ebadtrack", op.count)
       \/ pos + 1 < op.count /\ hw.st = "drq" /\ pc' = "move" /\ UNCHANGED ans
       \/ pos + 1 < op.count /\ hw.st # "drq" /\ Return("ebadtrack", pos + 1)
    /\ UNCHANGED <<drv, op, moved, hw, dev, stray>>

\* The waits of a transfer are given up.
AtaExpire ==
    /\ IsAta /\ GivenUp
    /\ \/ pc \in {"data", "packet", "command"} /\ AtaFail(op.count)
       \/ pc = "pause" /\ AtaFail(pos)
    /\ UNCHANGED hw

\* ata_try_dma: table and direction are set, the old status is cleared.
AtaTryDma ==
    /\ drv = "ata" /\ pc = "start" /\ op.data
    /\ hw' = [hw EXCEPT !.irq = FALSE]
    /\ pc' = "dmasend"
    /\ AtaUnchanged

\* ata_dma_cmd_data: the command, and the start of the bus master.
AtaDmaCmdData ==
    /\ drv = "ata" /\ pc = "dmasend"
    /\ \/ SendCmd("dma", "dma")
       \/ GivenUp /\ AtaFail(op.count) /\ UNCHANGED hw

\* What ata_dma_transfer takes for the end of a transfer.
DmaEnded == hw.irq /\ ~hw.active

\* Broken variant: the bus master goes on.
AtaDmaStopNot ==
    /\ drv = "ata" /\ pc = "dma"
    /\ hw.irq \/ drv \in LateDrivers
    /\ pc' = IF DmaEnded THEN "dmadone" ELSE "dmafail"
    /\ UNCHANGED hw
    /\ AtaUnchanged

\* The loop of ata_dma_transfer ends, with an interrupt or without, and the
\* bus master is stopped.
AtaDmaStop ==
    /\ drv = "ata" /\ pc = "dma"
    /\ hw.irq \/ drv \in LateDrivers
    /\ pc' = IF DmaEnded THEN "dmadone" ELSE "dmafail"
    /\ hw' = [hw EXCEPT !.active = FALSE]
    /\ AtaUnchanged

\* The rest of ata_dma_transfer.
AtaDmaEnd ==
    /\ drv = "ata" /\ pc \in {"dmadone", "dmafail"}
    /\ NotBsy \/ GivenUp
    /\ Return(IF pc = "dmadone" /\ hw.st = "rdy" THEN "success" ELSE "ebadtrack", op.count)
    /\ UNCHANGED <<drv, op, pos, moved, hw, dev, stray>>

\* CMD_RESET: the channel is reset, and the end of that waited for, in vain or
\* not. CMD_ISREADY: the status decides.
AtaReset ==
    /\ drv = "ata" /\ pc = "start" /\ ~op.data
    /\ IF op.command = "reset"
       THEN /\ hw' = AtaHw /\ dev' = {}
            /\ Return("success", op.count)
       ELSE /\ Return(IF hw.st = "bsy" THEN "enotready" ELSE "success", op.count)
            /\ UNCHANGED <<hw, dev>>
    /\ UNCHANGED <<drv, op, pos, moved, stray>>

\* ata_atapi_process_op: PACKET, the CDB when the drive asks for it, and the
\* blocks, if there are any.
AtapiProcessOp ==
    /\ drv = "atapi"
    /\ \/ pc = "start" /\ SendCmd("packet", "packet")
       \/ pc = "start" /\ GivenUp /\ AtaFail(op.count) /\ UNCHANGED hw
       \/ pc = "packet" /\ NotBsy /\ hw.st # "drq" /\ AtaFail(op.count) /\ UNCHANGED hw
       \/ /\ pc = "packet" /\ hw.st = "drq"
          /\ pc' = "command" /\ hw' = [hw EXCEPT !.st = "bsy"]
          /\ AtaUnchanged
       \/ /\ pc = "command" /\ NotBsy
          /\ \/ op.data /\ hw.st = "drq" /\ pc' = "move" /\ AtaUnchanged
             \/ op.data /\ hw.st # "drq" /\ AtaFail(op.count)
             \/ /\ ~op.data
                /\ Return(IF hw.st = "err" THEN "ebadtrack" ELSE "success", op.count)
                /\ UNCHANGED <<drv, op, pos, moved, dev, stray>>
          /\ UNCHANGED hw

\* The drive. A PIO command shows its sectors one by one, and a sector that was
\* written is on the medium when the drive is no longer busy with it; DMA moves
\* them all while the bus master runs. Any command may fail.
AtaServe ==
    /\ IsAta /\ hw.st = "bsy"
    /\ \E c \in dev :
        \/ /\ hw' = [hw EXCEPT !.st = "err", !.held = None, !.irq = @ \/ c.tag = "dma", !.active = FALSE]
           /\ dev' = {}
           /\ UNCHANGED <<moved, stray>>
        \/ /\ c.tag = "packet"
           /\ hw' = [hw EXCEPT !.st = "drq"]
           /\ dev' = {[c EXCEPT !.tag = "pio"]}
           /\ UNCHANGED <<moved, stray>>
        \/ /\ c.tag = "pio"
           /\ LET more == c.n > 0 /\ (c.write => c.n > 1 \/ hw.held = None)
                  wrote == c.write /\ hw.held # None
              IN  /\ hw' = [hw EXCEPT !.st = IF more THEN "drq" ELSE "rdy", !.held = None]
                  /\ dev' = IF more THEN {[c EXCEPT !.n = IF c.write /\ ~wrote THEN @ ELSE @ - 1]} ELSE {}
                  /\ moved' = IF wrote /\ Current(c) THEN moved \cup {hw.held} ELSE moved
           /\ UNCHANGED stray
        \/ /\ c.tag = "dma" /\ hw.active
           /\ hw' = [hw EXCEPT !.st = "rdy", !.irq = TRUE, !.active = FALSE]
           /\ dev' = {}
           /\ Move(c)
    /\ UNCHANGED <<drv, op, pc, pos, ans>>

AtaNext ==
    \/ AtaController \/ AtaDetect \/ AtaIdentity \/ AtaInitDrive \/ AtaPioCmdData \/ AtaWaitData \/ AtaMove \/ AtaPause
    \/ AtaExpire \/ AtaTryDma \/ AtaDmaCmdData \/ AtaDmaStop \/ AtaDmaEnd \/ AtaReset
    \/ AtapiProcessOp \/ AtaServe

-----------------------------------------------------------------------------
\* ahci: `irq` is what the port shows (with the status of the drive), `mem` the
\* memory of the port, `bounce` whether the buffer of the request is not word
\* aligned: it is then moved through bounce_buf_fl, sector by sector. `setup`
\* is set until the drive has interrupted to say that it is at work; `gone` is
\* a drive that has stopped answering.
AhciHw == [irq |-> "none", setup |-> FALSE, mem |-> {}, bounce |-> FALSE, gone |-> FALSE]

IsAhci == drv \in {"ahci", "ahci-atapi"}

Buffers == {"list", "fis", "cmd"}

\* ahci_setup and ahci_controller_setup: bounce buffer, registers, structure.
AhciController == IsAhci /\ pc = "off" /\ pc' \in {"enable", "absent"} /\ UNCHANGED hw /\ AtaUnchanged

\* ahci_port_alloc: without memory for one of the buffers the port is given up,
\* and what it has is not freed.
AhciPortAlloc ==
    /\ IsAhci /\ pc = "enable"
    /\ \/ pc' = "absent" /\ UNCHANGED hw
       \/ /\ \E b \in SUBSET Buffers : hw' = [hw EXCEPT !.mem = b \cup {"port"}]
          /\ pc' = IF Buffers \subseteq hw'.mem THEN "found" ELSE "absent"
    /\ AtaUnchanged

\* ahci_port_setup up to the start: link up, and a drive that is not busy.
AhciLink ==
    /\ IsAhci /\ pc = "found"
    /\ \/ pc' = "identify" /\ UNCHANGED hw
       \/ pc' = "absent" /\ hw' = [hw EXCEPT !.mem = {}]
    /\ AtaUnchanged

\* Its rest and ahci_port_detect: identified, and a CD if it is ATAPI;
\* ahci_port_release if not.
AhciPortSetup ==
    /\ IsAhci /\ pc = "identify"
    /\ \/ pc' = "queue" /\ UNCHANGED hw
       \/ pc' = "absent" /\ hw' = [hw EXCEPT !.mem = {}]
    /\ AtaUnchanged


\* ahci_port_realloc: permanent memory instead of the temporary, or none.
AhciPortRealloc ==
    /\ IsAhci /\ pc = "queue"
    /\ \/ pc' = "idle" /\ hw' = [hw EXCEPT !.mem = {"port"} \cup Buffers]
       \/ pc' = "absent" /\ hw' = [hw EXCEPT !.mem = {}]
    /\ AtaUnchanged

AhciChunk == IF hw.bounce THEN 1 ELSE op.count

\* ahci_command up to the loop, for ahci_disk_readwrite and
\* ahci_atapi_process_op. A slot that is still in use takes no new command.
AhciIssue ==
    /\ IsAhci /\ pc = "start"
    /\ \E b \in IF pos > 0 THEN {hw.bounce} ELSE IF drv = "ahci" THEN BOOLEAN ELSE {FALSE} :
        /\ hw' = [hw EXCEPT !.irq = "none", !.bounce = b, !.setup = TRUE]
        /\ dev' = IF dev # {} THEN dev
                  ELSE {Command(pos, IF b THEN 1 ELSE op.count, IF b THEN "bounce" ELSE "buffer")}
    /\ pc' = "wait"
    /\ UNCHANGED <<drv, op, pos, moved, ans, stray>>

\* The drive, behind its port: setup, success and failure are all interrupts.
\* A read through the bounce buffer reaches the caller's buffer later. The drive
\* may also stop for good, with the command in its slot.
AhciServe ==
    /\ IsAhci /\ ~hw.gone /\ pc # "recover"
    /\ \E c \in dev :
        \/ /\ hw.setup
           /\ hw' = [hw EXCEPT !.irq = "bsy", !.setup = FALSE]
           /\ UNCHANGED <<moved, stray, dev>>
        \/ /\ hw' = [hw EXCEPT !.irq = "rdy"]
           /\ IF c.tag = "bounce" /\ ~c.write THEN UNCHANGED <<moved, stray>> ELSE Move(c)
           /\ dev' = {}
        \/ /\ hw' \in {[hw EXCEPT !.irq = "err"], [hw EXCEPT !.gone = TRUE]}
           /\ UNCHANGED <<moved, stray, dev>>
    /\ hw.irq = "none"
    /\ UNCHANGED <<drv, op, pc, pos, ans>>

\* The loop of ahci_command: an interrupt while the drive is busy is passed
\* over. After an error PxCMD.ST is cleared, which stops the port.
AhciWait ==
    /\ IsAhci /\ pc = "wait"
    /\ LET n == AhciChunk
           took == hw.bounce /\ op.command = "read" /\ hw.irq = "rdy"
       IN  \/ /\ hw.irq = "bsy"
              /\ UNCHANGED <<pc, ans, pos, moved, dev>>
           \/ /\ hw.irq = "rdy"
              /\ moved' = IF took THEN moved \cup {pos} ELSE moved
              /\ pos' = pos + n
              /\ IF pos + n < op.count THEN pc' = "start" /\ UNCHANGED ans
                 ELSE Return("success", op.count)
              /\ UNCHANGED dev
           \/ /\ hw.irq = "err"
              /\ pc' = "recover"
              /\ UNCHANGED <<ans, pos, moved, dev>>
    /\ hw' = [hw EXCEPT !.irq = "none"]
    /\ UNCHANGED <<drv, op, stray>>

\* The port stops: PxCMD.CR becomes 0, and the slot is empty. It may also hang.
AhciStopped ==
    /\ IsAhci /\ pc = "recover" /\ dev # {} /\ ~hw.gone
    /\ \/ dev' = {} /\ UNCHANGED hw
       \/ hw' = [hw EXCEPT !.gone = TRUE] /\ UNCHANGED dev
    /\ UNCHANGED <<drv, op, pc, pos, moved, ans, stray>>

\* The wait for PxCMD.CR, which has no limit, and the rest of the recovery: error
\* bits, a COMRESET for a drive that is busy, and ST again.
AhciRecover ==
    /\ IsAhci /\ pc = "recover" /\ dev = {}
    /\ Return("ebadtrack", op.count)
    /\ UNCHANGED <<drv, op, pos, moved, hw, dev, stray>>

\* The loop is given up after 32 seconds; the command stays in its slot.
AhciExpire ==
    /\ IsAhci /\ pc = "wait" /\ hw.irq = "none"
    /\ hw.gone \/ drv \in LateDrivers
    /\ AtaFail(op.count)
    /\ UNCHANGED hw

AhciNext ==
    \/ AhciController \/ AhciPortAlloc \/ AhciLink \/ AhciPortSetup \/ AhciPortRealloc
    \/ AhciIssue \/ AhciServe \/ AhciWait \/ AhciStopped \/ AhciRecover \/ AhciExpire
=============================================================================
