------------------------------ MODULE SlowDisk ------------------------------
(***************************************************************************)
(* hw/floppy.c, hw/sdcard.c and hw/ramdisk.c.                              *)
(***************************************************************************)
EXTENDS BlockOp

CONSTANT FloppyRates    \* rates at which a drive's medium may be read

ASSUME SlowAssumption == FloppyRates \in Nat \ {0}

\* The floppy controller and its part of the BIOS data area: `on` is RESET in
\* FloppyDOR, `motor` the motor bit, `counting` whether floppy_motor_counter is
\* within two seconds of the end (it is 255 during a command), `recal` and
\* `media` the status of the drive, `frs` FRS_IRQ, `step` the command the
\* driver is at, `rate` how many rates it has tried.
FloppyHw ==
    [on |-> FALSE, motor |-> FALSE, counting |-> FALSE, recal |-> FALSE, media |-> FALSE,
     frs |-> FALSE, step |-> "xfer", rate |-> 0, ok |-> TRUE]

SlowUnchanged == UNCHANGED <<drv, op, pos, moved, ans, dev, stray>>

\* floppy_setup and addFloppy: CMOS says whether there is a drive.
FloppySetup == drv = "floppy" /\ pc = "off" /\ pc' \in {"idle", "absent"} /\ UNCHANGED hw /\ SlowUnchanged

\* What the handlers of floppy_process_op do after floppy_prep.
FloppyHandler == IF op.command = "verify" THEN "none" ELSE "xfer"

\* floppy_prep: a drive whose status is not known is recalibrated and its
\* medium sensed; it seeks if it has to.
FloppyPrep ==
    /\ drv = "floppy" /\ pc = "start" /\ op.command # "reset"
    /\ \E step \in IF ~(hw.recal /\ hw.media) THEN {"recal"}
                   ELSE {"seek", FloppyHandler} :
        /\ hw' = [hw EXCEPT !.step = step]
        /\ pc' = IF step = "none" THEN "verified" ELSE "drive"
    /\ SlowUnchanged

\* floppy_verify has nothing left to do.
FloppyVerify ==
    /\ drv = "floppy" /\ pc = "verified"
    /\ Return("success", op.count)
    /\ UNCHANGED <<drv, op, pos, moved, hw, dev, stray>>

\* floppy_enable_controller up to the wait. FRS_IRQ is cleared after the
\* controller was started, before anything can have interrupted.
FloppyEnable ==
    /\ drv = "floppy"
    /\ \/ pc = "drive" /\ ~hw.on
          /\ hw' = [hw EXCEPT !.on = TRUE, !.frs = FALSE]
       \/ /\ pc = "start" /\ op.command = "reset"
          /\ hw' = [hw EXCEPT !.on = TRUE, !.frs = FALSE, !.recal = FALSE, !.media = FALSE,
                              !.step = "none"]
    /\ pc' = "enabling"
    /\ dev' = dev \cup {Command(0, 0, "reset")}
    /\ UNCHANGED <<drv, op, pos, moved, ans, stray>>

\* Its end: four sense interrupt commands.
FloppyEnabled ==
    /\ drv = "floppy" /\ pc = "enabling" /\ hw.frs
    /\ hw' = [hw EXCEPT !.frs = FALSE]
    /\ IF hw.step = "none"
       THEN Return("success", op.count) /\ UNCHANGED <<drv, op, pos, moved, dev, stray>>
       ELSE pc' = "drive" /\ SlowUnchanged


\* floppy_drive_pio: the motor is on, and its time does not run out during the
\* command; floppy_wait_irq forgets older interrupts.
FloppyDrivePio == [hw EXCEPT !.motor = TRUE, !.counting = FALSE, !.frs = FALSE]

\* floppy_pio up to the wait for the interrupt; SPECIFY has none and goes to the
\* controller alone.
FloppyPio ==
    /\ drv = "floppy" /\ pc = "drive" /\ hw.on
    /\ hw' = FloppyDrivePio
    /\ dev' = dev \cup {Command(0, IF hw.step = "xfer" THEN op.count ELSE 0, hw.step)}
    /\ pc' = "irq"
    /\ UNCHANGED <<drv, op, pos, moved, ans, stray>>

\* The controller finishes and interrupts; handle_0e notes it, in a yield of
\* the wait. A transfer needs the motor.
FloppyServe ==
    /\ drv = "floppy" /\ pc \in {"enabling", "irq"}
    /\ \E c \in dev, ok \in BOOLEAN :
        /\ c.tag = "xfer" /\ ok => hw.motor
        /\ dev' = dev \ {c}
        /\ hw' = [hw EXCEPT !.frs = TRUE, !.ok = ok]
        /\ IF ok /\ op.data THEN Move(c) ELSE UNCHANGED <<moved, stray>>
    /\ UNCHANGED <<drv, op, pc, pos, ans>>

\* floppy_dma_cmd: the status registers of the transfer.
FloppyTransfer == IF hw.ok THEN "success" ELSE "econtroller"

\* What floppy_prep does with the result of a step: recalibration,
\* floppy_media_sense with its READ ID at each rate that fits the drive, SPECIFY,
\* seek.
FloppyResult ==
    /\ drv = "floppy" /\ pc = "irq" /\ hw.frs
    /\ \/ /\ hw.step = "recal"
          /\ hw' = [hw EXCEPT !.frs = FALSE, !.counting = TRUE, !.recal = TRUE, !.step = "sense"]
          /\ pc' = "drive" /\ UNCHANGED ans
       \/ /\ hw.step = "sense" /\ ~hw.ok
          /\ hw' = [hw EXCEPT !.frs = FALSE, !.counting = TRUE, !.rate = (@ + 1) % FloppyRates]
          /\ IF hw.rate + 1 < FloppyRates THEN pc' = "drive" /\ UNCHANGED ans
             ELSE Return("emedia", op.count)
       \/ /\ hw.step = "sense" /\ hw.ok
          /\ hw' = [hw EXCEPT !.frs = FALSE, !.counting = TRUE, !.media = TRUE, !.rate = 0]
          /\ pc' = "start" /\ UNCHANGED ans
       \/ /\ hw.step = "sense" /\ hw.ok /\ drv \in LateDrivers
          /\ hw' = [hw EXCEPT !.frs = FALSE, !.counting = TRUE, !.media = TRUE, !.rate = 0, !.on = FALSE]
          /\ Return("etimeout", op.count)
       \/ /\ hw.step = "seek" /\ op.command # "verify"
          /\ hw' = [hw EXCEPT !.frs = FALSE, !.counting = TRUE, !.step = "xfer"]
          /\ pc' = "drive" /\ UNCHANGED ans
       \/ /\ hw.step = "xfer" \/ (hw.step = "seek" /\ op.command = "verify")
          /\ hw' = [hw EXCEPT !.frs = FALSE, !.counting = TRUE]
          /\ Return(IF hw.step = "seek" THEN "success" ELSE FloppyTransfer, op.count)
    /\ UNCHANGED <<drv, op, pos, moved, dev, stray>>

\* floppy_wait_irq or floppy_pio give up: the controller is put into reset,
\* which ends what it was doing. The status of the drive stays.
FloppyDisable ==
    /\ drv = "floppy" /\ pc \in {"enabling", "irq"} /\ ~hw.frs
    /\ drv \in LateDrivers
    /\ hw' = [hw EXCEPT !.on = FALSE, !.counting = TRUE, !.rate = 0]
    /\ dev' = {}
    /\ Return("etimeout", op.count)
    /\ UNCHANGED <<drv, op, pos, moved, stray>>

\* floppy_tick, from the timer interrupt: between requests, and in a yield.
FloppyTick ==
    /\ drv = "floppy" /\ pc \in {"idle", "enabling", "irq"} /\ hw.motor /\ hw.counting
    /\ hw' = [hw EXCEPT !.motor = FALSE, !.counting = FALSE]
    /\ UNCHANGED <<drv, op, pc, pos, moved, ans, dev, stray>>

\* While a transfer is under way the motor runs: the tick that turns it off
\* after two seconds without use (floppy_tick) does not meet one.
MotorRuns ==
    drv = "floppy" /\ pc = "irq" /\ hw.step = "xfer" /\ hw.on => hw.motor

FloppyNext ==
    \/ FloppySetup \/ FloppyPrep \/ FloppyVerify \/ FloppyEnable \/ FloppyEnabled \/ FloppyPio
    \/ FloppyServe \/ FloppyResult \/ FloppyDisable \/ FloppyTick

-----------------------------------------------------------------------------
\* sdcard: `irq` are the bits of irq_status, `power` whether the card has it,
\* `drive` whether the structure of the drive is allocated, `gone` whether the
\* card was taken out.
SdHw == [irq |-> {}, power |-> FALSE, drive |-> FALSE, gone |-> FALSE]

\* sdcard_controller_setup: without a card or a voltage there is nothing to do.
SdcardControllerSetup ==
    /\ drv = "sdcard" /\ pc = "off"
    /\ \/ pc' = "absent" /\ UNCHANGED hw
       \/ pc' = "found" /\ hw' = [hw EXCEPT !.power = TRUE]
    /\ SlowUnchanged

\* The structure of the drive, and sdcard_card_setup with its commands, each of
\* which may fail; everything is undone then.
SdcardCardSetup ==
    /\ drv = "sdcard" /\ pc \in {"found", "queue", "fail"}
    /\ \/ pc = "found" /\ pc' = "queue" /\ hw' = [hw EXCEPT !.drive = TRUE]
       \/ pc = "found" /\ pc' = "fail" /\ UNCHANGED hw
       \/ pc = "queue" /\ pc' = "idle" /\ UNCHANGED hw
       \/ pc = "queue" /\ pc' = "fail" /\ hw' = [hw EXCEPT !.drive = FALSE]
       \/ pc = "fail" /\ pc' = "absent" /\ hw' = [hw EXCEPT !.power = FALSE]
    /\ SlowUnchanged

\* sdcard_pio_transfer and sdcard_pio up to the wait. CMD_INHIBIT is set until
\* the card has taken a command.
SdcardPio ==
    /\ drv = "sdcard" /\ pc = "start"
    /\ IF \E c \in dev : c.tag = "cmd"
       THEN /\ Return("ebadtrack", op.count)
            /\ UNCHANGED dev
       ELSE /\ dev' = {Command(0, op.count, "cmd")}
            /\ pc' = "cmd" /\ UNCHANGED ans
    /\ UNCHANGED <<drv, op, pos, moved, hw, stray>>

\* The end of sdcard_pio: an error resets the command and data circuits.
SdcardResponse ==
    /\ drv = "sdcard" /\ pc = "cmd"
    /\ \/ /\ "error" \in hw.irq
          /\ hw' = [hw EXCEPT !.irq = {}] /\ dev' = {}
          /\ Return("ebadtrack", op.count)
       \/ /\ "error" \notin hw.irq /\ "complete" \in hw.irq
          /\ hw' = [hw EXCEPT !.irq = @ \ {"complete"}]
          /\ pc' = "data" /\ UNCHANGED <<ans, dev>>
    /\ UNCHANGED <<drv, op, pos, moved, stray>>

\* Broken variant: the waits for a sector and for the end have no time limit.
SdcardDataForever ==
    /\ drv = "sdcard"
    /\ \/ /\ pc = "data" /\ "ready" \in hw.irq
          /\ hw' = [hw EXCEPT !.irq = @ \ {"ready"}]
          /\ moved' = IF \E c \in dev : Current(c) THEN moved \cup {pos} ELSE moved
          /\ pos' = pos + 1
          /\ pc' = IF pos + 1 = op.count THEN "done" ELSE "data"
          /\ UNCHANGED ans
       \/ /\ pc = "done" /\ "done" \in hw.irq
          /\ hw' = [hw EXCEPT !.irq = @ \ {"done"}]
          /\ Return("success", op.count)
          /\ UNCHANGED <<pos, moved>>
    /\ UNCHANGED <<drv, op, dev, stray>>

\* A sector of sdcard_pio_transfer, and its end. The wait looks for one bit
\* only: an error of the card is not seen, and ends it after a second.
SdcardData ==
    /\ drv = "sdcard"
    /\ \/ /\ pc = "data" /\ "ready" \in hw.irq
          /\ hw' = [hw EXCEPT !.irq = @ \ {"ready"}]
          /\ moved' = IF \E c \in dev : Current(c) THEN moved \cup {pos} ELSE moved
          /\ pos' = pos + 1
          /\ pc' = IF pos + 1 = op.count THEN "done" ELSE "data"
          /\ UNCHANGED ans
       \/ /\ pc = "done" /\ "done" \in hw.irq
          /\ hw' = [hw EXCEPT !.irq = @ \ {"done"}]
          /\ Return("success", op.count)
          /\ UNCHANGED <<pos, moved>>
       \/ /\ pc \in {"data", "done"} /\ "error" \in hw.irq
          /\ {"ready", "done"} \cap hw.irq = {}
          /\ Return("ebadtrack", op.count)
          /\ UNCHANGED <<hw, pos, moved>>
    /\ UNCHANGED <<drv, op, dev, stray>>

\* The waits end after a second: of a card that is gone, or slow.
SdcardExpire ==
    /\ drv = "sdcard"
    /\ hw.gone \/ drv \in LateDrivers
    /\ \/ pc = "cmd" /\ {"error", "complete"} \cap hw.irq = {}
       \/ pc = "data" /\ "ready" \notin hw.irq
       \/ pc = "done" /\ "done" \notin hw.irq
    /\ Return("ebadtrack", op.count)
    /\ UNCHANGED <<drv, op, pos, moved, hw, dev, stray>>

\* The card: takes the command, offers a sector when the last one is gone,
\* says that it is done, or fails and forgets the command. It may also be taken
\* out of its slot.
SdcardServe ==
    /\ drv = "sdcard" /\ ~hw.gone
    /\ \E c \in dev :
        \/ /\ hw' = [hw EXCEPT !.irq = @ \cup {"error"}]
           /\ dev' = {}
        \/ /\ hw' = [hw EXCEPT !.gone = TRUE]
           /\ UNCHANGED dev
        \/ /\ c.tag = "cmd"
           /\ hw' = [hw EXCEPT !.irq = @ \cup {"complete"}]
           /\ dev' = {[c EXCEPT !.tag = "data"]}
        \/ /\ c.tag = "data" /\ "ready" \notin hw.irq /\ c.n > 0
           /\ pc = "cmd" \/ pos = c.lo
           /\ hw' = [hw EXCEPT !.irq = @ \cup {"ready"}]
           /\ dev' = {[c EXCEPT !.n = @ - 1, !.lo = @ + 1]}
        \/ /\ c.tag = "data" /\ "ready" \notin hw.irq /\ c.n = 0 /\ "done" \notin hw.irq
           /\ hw' = [hw EXCEPT !.irq = @ \cup {"done"}]
           /\ dev' = {}
    /\ UNCHANGED <<drv, op, pc, pos, moved, ans, stray>>

SdcardNext ==
    \/ SdcardControllerSetup \/ SdcardCardSetup
    \/ SdcardPio \/ SdcardResponse \/ SdcardData \/ SdcardExpire \/ SdcardServe

-----------------------------------------------------------------------------
\* ramdisk: an image in memory, copied by int 15h, function 87h.

RamHw == [image |-> FALSE]

\* ramdisk_setup: there is an image, of the size of a floppy, and memory for it.
RamdiskSetup ==
    /\ drv = "ramdisk" /\ pc = "off"
    /\ \/ pc' = "idle" /\ hw' = [hw EXCEPT !.image = TRUE]
       \/ pc' = "absent" /\ UNCHANGED hw
    /\ SlowUnchanged

\* ramdisk_copy: the carry flag tells whether the sectors were copied.
RamdiskCopy ==
    /\ drv = "ramdisk" /\ pc = "start"
    /\ \E cf \in BOOLEAN :
        /\ moved' = IF cf THEN moved ELSE 0 .. op.count - 1
        /\ Return(IF cf THEN "ebadtrack" ELSE "success", op.count)
    /\ UNCHANGED <<drv, op, pos, hw, dev, stray>>

RamdiskNext == RamdiskSetup \/ RamdiskCopy
=============================================================================
