------------------------------ MODULE ScsiDisk ------------------------------
(***************************************************************************)
(* The SCSI host adapters: hw/pvscsi.c, hw/megasas.c, hw/mpt-scsi.c,       *)
(* hw/esp-scsi.c and hw/lsi-scsi.c. Each carries one CDB (scsi_fill_cmd)   *)
(* at a time, and they differ in how they know that it is done. And        *)
(* hw/usb-msc.c and hw/usb-uas.c: a SCSI command as a sequence of bulk     *)
(* transfers.                                                              *)
(***************************************************************************)
EXTENDS BlockOp

CONSTANTS
    PvEntries,  \* entries of the rings of pvscsi
    PvWrap      \* where its 32 bit indices wrap

ASSUME ScsiAssumption ==
    /\ PvEntries \in Nat \ {0}
    /\ PvWrap \in Nat \ {0} /\ PvWrap % PvEntries = 0

PvscsiHw ==
    [reqProd |-> 0, cmpProd |-> 0, cmpCons |-> 0, intr |-> FALSE,
     cmps |-> [e \in 0 .. PvEntries - 1 |-> "ok"], mem |-> {}]

\* struct pvscsi_ring_dsc_s and the three pages it names.
PvscsiRings == {"ring_dsc", "ring_state", "ring_reqs", "ring_cmps"}

MegasasHw == [cmd_status |-> "ff", mem |-> {}]

MptHw == [replies |-> <<>>, frames |-> 1, mem |-> {}]

EspHw == [bus |-> "free", state |-> 0, status |-> TRUE, mem |-> {}]

LsiHw == [dstat |-> FALSE, sist |-> FALSE, status |-> FALSE, mem |-> {}]

\* What is allocated for the drive is `mem`; the registers of an adapter at rest.
Rest(h) == [h EXCEPT !.mem = hw.mem]

ScsiHw(d) == CASE d = "pvscsi" -> PvscsiHw [] d = "megasas" -> MegasasHw
               [] d = "mpt" -> MptHw [] d = "esp" -> EspHw [] d = "lsi" -> LsiHw

HbaUnchanged == UNCHANGED <<drv, op, pos, moved, ans, dev, stray>>

\* A command is handed to the adapter, with what that does to its registers.
HbaIssue(regs) ==
    /\ pc = "start"
    /\ hw' = regs
    /\ dev' = dev \cup {Command(0, op.count, 0)}
    /\ pc' = "wait"
    /\ UNCHANGED <<drv, op, pos, moved, ans, stray>>

\* The adapter finishes a command.
HbaServe(c, ok, regs) ==
    /\ dev' = dev \ {c}
    /\ hw' = regs
    /\ IF ok THEN Move(c) ELSE UNCHANGED <<moved, stray>>
    /\ UNCHANGED <<drv, op, pc, pos, ans>>

\* The driver has its answer.
HbaDone(status, regs) ==
    /\ hw' = regs
    /\ Return(status, op.count)
    /\ UNCHANGED <<drv, op, pos, moved, dev, stray>>

Status(ok) == IF ok THEN "success" ELSE "ebadtrack"

-----------------------------------------------------------------------------
\* pvscsi

\* init_pvscsi and pvscsi_init_rings: the adapter is reset and given its rings.
\* When one of them cannot be had, those that were are not freed, ring_dsc stays
\* NULL, and the targets are scanned all the same.
InitPvscsi ==
    /\ drv = "pvscsi" /\ pc = "off"
    /\ \/ pc' = "absent" /\ UNCHANGED hw
       \/ pc' = "scan" /\ hw' = [hw EXCEPT !.mem = PvscsiRings]
       \/ /\ pc' = "norings"
          /\ \E got \in SUBSET PvscsiRings :
                /\ got # PvscsiRings /\ (got # {} => "ring_dsc" \in got)
                /\ hw' = [hw EXCEPT !.mem = got]
    /\ HbaUnchanged

\* pvscsi_process_op for the luns of such an adapter takes what is at address 0
\* for its rings: their indices refuse the request (so that no lun becomes a
\* drive), or it waits for ever for the interrupt of an adapter without rings.
PvscsiNoRings == drv = "pvscsi" /\ pc = "norings" /\ pc' = "absent" /\ UNCHANGED hw /\ HbaUnchanged

\* pvscsi_scan_target: one lun of each target.
PvscsiAddLun == drv = "pvscsi" /\ AddLun({"lun"}, "absent")

\* pvscsi_process_op up to the wait, with the test for a full ring.
PvscsiProcessOp ==
    /\ drv = "pvscsi"
    /\ \/ /\ pc = "start"
          /\ (hw.reqProd - hw.cmpCons) % PvWrap >= PvEntries
          /\ HbaDone("ebadtrack", hw)
       \/ /\ (hw.reqProd - hw.cmpCons) % PvWrap < PvEntries
          /\ HbaIssue([hw EXCEPT !.reqProd = (@ + 1) % PvWrap])

PvscsiServe ==
    /\ drv = "pvscsi"
    /\ \E c \in dev, end \in {"ok", "hostStatus", "scsiStatus"} :
        HbaServe(c, end = "ok", [hw EXCEPT !.cmps[hw.cmpProd % PvEntries] = end,
                                           !.cmpProd = (@ + 1) % PvWrap, !.intr = TRUE])

\* pvscsi_wait_intr_cmpl clears the interrupt, pvscsi_get_rsp takes the hostStatus
\* of the next completion. Its scsiStatus, where the adapter puts what the target
\* says, is not looked at.
PvscsiGetRsp ==
    /\ drv = "pvscsi" /\ pc = "wait" /\ hw.intr
    /\ HbaDone(Status(hw.cmps[hw.cmpCons % PvEntries] # "hostStatus"),
               [hw EXCEPT !.intr = FALSE, !.cmpCons = (@ + 1) % PvWrap])

-----------------------------------------------------------------------------
\* megasas

\* init_megasas and megasas_transition_to_ready: the firmware is brought to
\* READY, or is given up in a fault or after a minute without a change.
InitMegasas == drv = "megasas" /\ pc = "off" /\ pc' \in {"scan", "absent"} /\ UNCHANGED hw /\ HbaUnchanged

\* megasas_scan_target asks the firmware for the logical drives; each has a frame
\* of its own for its commands.
MegasasAddLun == drv = "megasas" /\ AddLun({"lun", "frame"}, "absent")

\* megasas_process_op: the frame of the drive is written anew, its status ff.
MegasasProcessOp == drv = "megasas" /\ HbaIssue(Rest(MegasasHw))

\* The adapter writes the status into the frame, which has one address: 2d for a
\* SCSI command that failed, others for what the adapter itself could not do.
MegasasServe ==
    /\ drv = "megasas"
    /\ \E c \in dev, status \in {"00", "0c", "2d"} :
        HbaServe(c, status = "00", [hw EXCEPT !.cmd_status = status])

\* megasas_fire_cmd: any status but ff is the answer, and 2d a success; a minute
\* is the limit.
MegasasFireCmd ==
    /\ drv = "megasas" /\ pc = "wait"
    /\ \/ hw.cmd_status # "ff" /\ HbaDone(Status(hw.cmd_status \in {"00", "2d"}), hw)
       \/ /\ hw.cmd_status = "ff"
          /\ drv \in LateDrivers \/ dev = {}
          /\ HbaDone("ebadtrack", hw)

-----------------------------------------------------------------------------
\* mpt: a reply is the context of the request, or the address of the reply
\* frame when it failed. The adapter has one such frame at most.

\* init_mpt_scsi: reset, IOC init through the doorbell, and the reply frame.
InitMpt == drv = "mpt" /\ pc = "off" /\ pc' \in {"scan", "absent"} /\ UNCHANGED hw /\ HbaUnchanged

\* mpt_scsi_scan_target: REPORT LUNS, or luns 0 to 7 one after the other.
MptAddLun == drv = "mpt" /\ AddLun({"lun"}, "absent")

\* mpt_scsi_cmd up to the loop. The context is the time: no two requests that
\* can meet have the same.
MptSend == drv = "mpt" /\ HbaIssue(hw)

\* A failure without a reply frame to put it in is never reported.
MptServe ==
    /\ drv = "mpt"
    /\ \E c \in dev, ok \in BOOLEAN :
        /\ ok \/ hw.frames > 0
        /\ HbaServe(c, ok, [hw EXCEPT !.replies = Append(@, [ctx |-> c.id, ok |-> ok]),
                                      !.frames = IF ok THEN @ ELSE @ - 1])

\* Two reads of the reply queue: the second turns the interrupt off, and drops
\* a reply if there is one.
MptRead == SubSeq(hw.replies, 3, Len(hw.replies))

\* Broken variant: any reply without an error will do.
MptMineAny(r) == r.ok

\* Does this reply say that the request succeeded?
MptMine(r) == r.ok /\ r.ctx = op.id

\* The loop of mpt_scsi_cmd: a reply of another request is passed over, an
\* error is taken for an answer whoever it is for, and its frame given back.
MptPoll ==
    /\ drv = "mpt" /\ pc = "wait"
    /\ \/ /\ hw.replies # <<>>
          /\ LET r == Head(hw.replies)
             IN  \/ MptMine(r) /\ HbaDone("success", [hw EXCEPT !.replies = MptRead])
                 \/ /\ ~r.ok
                    /\ HbaDone("ebadtrack", [hw EXCEPT !.replies = MptRead, !.frames = @ + 1])
                 \/ /\ r.ok /\ ~MptMine(r)
                    /\ hw' = [hw EXCEPT !.replies = MptRead]
                    /\ UNCHANGED <<drv, op, pc, pos, moved, ans, dev, stray>>
       \/ drv \in LateDrivers /\ HbaDone("etimeout", hw)

-----------------------------------------------------------------------------
\* esp: the driver follows the phases of the bus.

\* init_esp_scsi: the registers, and a reset.
InitEsp == drv = "esp" /\ pc = "off" /\ pc' \in {"scan", "absent"} /\ UNCHANGED hw /\ HbaUnchanged

\* esp_scsi_scan_target.
EspAddLun == drv = "esp" /\ AddLun({"lun"}, "absent")

\* esp_scsi_process_op: select with the command in the FIFO.
EspSelect == drv = "esp" /\ HbaIssue([Rest(EspHw) EXCEPT !.bus = "select"])

\* The target takes the command or is not there; later it ends the transfer,
\* and the command, with its status.
EspServe ==
    /\ drv = "esp"
    /\ \E c \in dev, ok \in BOOLEAN :
        \/ /\ hw.bus = "select"
           /\ hw' = [hw EXCEPT !.bus = IF ok THEN "tc" ELSE "dc"]
           /\ dev' = IF ok THEN dev ELSE dev \ {c}
           /\ UNCHANGED <<drv, op, pc, pos, moved, ans, stray>>
        \/ /\ hw.bus = "dma"
           /\ hw' = [hw EXCEPT !.bus = "tc", !.status = ok]
           /\ IF ok THEN Move(c) ELSE UNCHANGED <<moved, stray>>
           /\ UNCHANGED <<drv, op, pc, pos, ans, dev>>
        \/ hw.bus = "iccs" /\ HbaServe(c, FALSE, [hw EXCEPT !.bus = "msg"])

\* One turn of the loop of esp_scsi_process_op.
EspPoll ==
    /\ drv = "esp" /\ pc = "wait"
    /\ \/ hw.state = 0 /\ hw.bus = "dc" /\ HbaDone("enotready", hw)
       \/ /\ hw.bus = "tc"
          /\ \/ /\ hw.state = 0 /\ op.data
                /\ hw' = [hw EXCEPT !.state = 1, !.bus = "dma"]
             \/ /\ hw.state = 1 \/ (hw.state = 0 /\ ~op.data)
                /\ hw' = [hw EXCEPT !.state = 2, !.bus = "iccs"]
          /\ UNCHANGED <<drv, op, pc, pos, moved, ans, dev, stray>>
       \/ hw.state = 2 /\ hw.bus = "msg" /\ HbaDone(Status(hw.status), Rest(EspHw))

-----------------------------------------------------------------------------
\* lsi: the adapter runs a script that ends with an interrupt.

\* init_lsi_scsi likewise.
InitLsi == drv = "lsi" /\ pc = "off" /\ pc' \in {"scan", "absent"} /\ UNCHANGED hw /\ HbaUnchanged

\* lsi_scsi_scan_target.
LsiAddLun == drv = "lsi" /\ AddLun({"lun"}, "absent")

\* lsi_scsi_process_op: the address of the script starts it; status and
\* message are ff until the target sends them.
LsiStart == drv = "lsi" /\ HbaIssue(Rest(LsiHw))

\* The script ends, or a SCSI error stops it.
LsiServe ==
    /\ drv = "lsi"
    /\ \E c \in dev, ok \in BOOLEAN, end \in BOOLEAN :
        /\ ok => end
        /\ HbaServe(c, ok, [hw EXCEPT !.dstat = end, !.sist = ~end, !.status = ok])

LsiPoll ==
    /\ drv = "lsi" /\ pc = "wait"
    /\ \/ hw.sist /\ HbaDone("ebadtrack", Rest(LsiHw))
       \/ ~hw.sist /\ hw.dstat /\ HbaDone(Status(hw.status), Rest(LsiHw))

ScsiNext ==
    \/ InitPvscsi \/ PvscsiNoRings \/ PvscsiAddLun \/ PvscsiProcessOp \/ PvscsiServe \/ PvscsiGetRsp
    \/ InitMegasas \/ MegasasAddLun \/ MegasasProcessOp \/ MegasasServe \/ MegasasFireCmd
    \/ InitMpt \/ MptAddLun \/ MptSend \/ MptServe \/ MptPoll
    \/ InitEsp \/ EspAddLun \/ EspSelect \/ EspServe \/ EspPoll
    \/ InitLsi \/ LsiAddLun \/ LsiStart \/ LsiServe \/ LsiPoll

-----------------------------------------------------------------------------
(* hw/usb-msc.c, hw/usb-uas.c: any transfer may fail (usb_send_bulk); the drivers then *)
(* give up the request and nothing brings the device back to its start.                *)

\* `at` is what the device expects next, `sent` the sectors it has moved,
\* `pipes` and `drive` what the setup allocated.
UsbHw == [at |-> "command", sent |-> 0, pipes |-> FALSE, drive |-> FALSE]

IsUsb == drv \in {"usb", "uas"}

UsbUnchanged == UNCHANGED <<drv, op, pos, moved, ans, dev, stray>>

UsbFail == Return("ebadtrack", op.count)

\* usb_msc_setup up to the pipes: interface and endpoints. Pipes that cannot
\* both be had are freed.
UsbPipes ==
    /\ drv = "usb" /\ pc = "off"
    /\ \/ pc' = "absent" /\ UNCHANGED hw
       \/ pc' = "found" /\ hw' = [hw EXCEPT !.pipes = TRUE]
    /\ UsbUnchanged

\* usb_uas_setup likewise: four pipes, which a descriptor that is not
\* understood makes it give up after some of them.
UasPipes ==
    /\ drv = "uas" /\ pc = "off"
    /\ \/ pc' = "absent" /\ UNCHANGED hw
       \/ pc' \in {"found", "fail"} /\ hw' = [hw EXCEPT !.pipes = TRUE]
    /\ UsbUnchanged

\* usb_msc_lun_setup, uas_add_lun: scsi_drive_setup registers the drive, or it
\* is freed; the pipes are freed when no lun is a drive.
UsbLunSetup ==
    /\ IsUsb
    /\ \/ pc = "found" /\ pc' = "queue" /\ hw' = [hw EXCEPT !.drive = TRUE]
       \/ pc = "found" /\ pc' = "fail" /\ UNCHANGED hw
       \/ pc = "queue" /\ pc' = "idle" /\ UNCHANGED hw
       \/ pc = "queue" /\ pc' = "fail" /\ hw' = [hw EXCEPT !.drive = FALSE]
       \/ pc = "fail" /\ pc' = "absent" /\ hw' = [hw EXCEPT !.pipes = FALSE]
    /\ UsbUnchanged

\* Bulk transfer of a stage: a device that expects another stage stalls it.
Stage(at) == pc = at /\ hw.at = at

StageFails(at) ==
    /\ IsUsb /\ pc = at
    /\ UsbFail
    /\ UNCHANGED <<drv, op, pos, moved, hw, dev, stray>>

\* usb_process_op and uas_process_op: the command wrapper, or unit.
UsbCommand ==
    /\ IsUsb /\ pc = "start" /\ hw.at = "command"
    /\ LET next == IF drv = "uas" THEN "ready" ELSE IF op.data THEN "data" ELSE "status"
       IN  hw' = [hw EXCEPT !.at = next, !.sent = 0] /\ pc' = next
    /\ UNCHANGED <<drv, op, pos, moved, ans, dev, stray>>

\* uas: READ_READY or WRITE_READY, or the sense of a command without data or
\* that failed already.
UasReady ==
    /\ drv = "uas" /\ Stage("ready")
    /\ \/ /\ op.data
          /\ hw' = [hw EXCEPT !.at = "data"] /\ pc' = "data"
          /\ UNCHANGED ans
       \/ /\ hw' = [hw EXCEPT !.at = "command"]
          /\ IF op.data THEN UsbFail
             ELSE \E ok \in BOOLEAN : IF ok THEN Return("success", op.count) ELSE UsbFail
    /\ UNCHANGED <<drv, op, pos, moved, dev, stray>>

\* The data stage: the device moves all sectors, or the first few and says so
\* in its status.
UsbData ==
    /\ IsUsb /\ Stage("data")
    /\ \E n \in 0 .. op.count :
        /\ hw' = [hw EXCEPT !.at = "status", !.sent = n]
        /\ moved' = moved \cup 0 .. n - 1
    /\ pc' = "status"
    /\ UNCHANGED <<drv, op, pos, ans, dev, stray>>

\* dCSWDataResidue, in sectors: a status of 1 of a msc device takes it off op.count.
Residue == op.count - hw.sent

\* csw or sense. A status of 0 of a msc device is success whatever the residue; uas
\* has no residue, and GOOD is said of a command whose data was moved.
UsbStatus ==
    /\ IsUsb /\ Stage("status")
    /\ hw' = [hw EXCEPT !.at = "command"]
    /\ \/ (drv = "uas" /\ op.data => hw.sent = op.count) /\ Return("success", op.count)
       \/ drv = "usb" /\ op.data /\ Return("ebadtrack", op.count - Residue)
       \/ UsbFail
    /\ UNCHANGED <<drv, op, pos, moved, dev, stray>>

\* A stage that the device does not expect, or does not carry out.
UsbStall ==
    \/ \E at \in {"ready", "data", "status"} : StageFails(at)
    \/ /\ IsUsb /\ pc = "start"
       /\ UsbFail
       /\ UNCHANGED <<drv, op, pos, moved, hw, dev, stray>>

UsbNext ==
    \/ UsbPipes \/ UasPipes \/ UsbLunSetup
    \/ UsbCommand \/ UasReady \/ UsbData \/ UsbStatus \/ UsbStall
=============================================================================
