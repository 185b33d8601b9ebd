------------------------------ MODULE BlockOp ------------------------------
(***************************************************************************)
(* process_op of SeaBIOS and what its disk drivers have in common: the     *)
(* request, how far the driver is with it, and the commands the device has *)
(* been given. The drivers (QueueDisk, ScsiDisk, AtaDisk, SlowDisk) extend *)
(* this module with their steps; `drv` selects the driver of a behaviour,  *)
(* as drive_s.type selects it for a drive.                                 *)
(***************************************************************************)
EXTENDS Integers, Sequences, FiniteSets

CONSTANTS
    Drivers,        \* drive types of the instance
    LateDrivers,    \* those whose device may outlast the driver's time limit
    MaxXfer,        \* 64K in sectors of the drive: the largest request
    Ids             \* identities of requests, reused in turn

ASSUME BlockAssumption ==
    /\ LateDrivers \subseteq Drivers
    /\ MaxXfer \in Nat \ {0}
    /\ Ids \in Nat \ {0, 1}

VARIABLES
    drv,        \* drive_s.type
    op,         \* the disk_op_s of the request, or of the last one
    pc,         \* how far the driver is with it; "idle" between requests,
                \* "off" before the setup of the device, "absent" after it failed
    pos,        \* sectors the driver takes for transferred
    moved,      \* history: sectors that did reach the place op names
    ans,        \* what process_op returned last
    hw,         \* what driver and device share: queues, registers
    dev,        \* commands the device has accepted and not yet answered
    stray       \* history: did a device touch the buffer of an old request?

blockVars == <<drv, op, pc, pos, moved, ans, hw, dev, stray>>

\* CMD_*: "scsi" stands for a CMD_SCSI with data, "test" for TEST UNIT READY,
\* without; "isready" for SEEK too.
Commands == {"read", "write", "format", "verify", "reset", "isready", "scsi", "test"}

Ops ==
    {[command |-> c, count |-> n, mode |-> m, id |-> i, data |-> c \in {"read", "write", "scsi"}] :
        c \in Commands, n \in 0 .. MaxXfer + 1, m \in {16, 32}, i \in 0 .. Ids - 1}

\* int 13h is 16bit code; the setup and the boot from a CD are 32bit code, which
\* reads and has CMD_SCSI to itself, of one block or none. At least one sector
\* is read or written; the count of the other commands does not matter.
Sensible(o) ==
    /\ o.command \in {"read", "write"} => o.count > 0
    /\ o.mode = 32 => o.command \in {"read", "scsi", "test"}
    /\ o.command \in {"scsi", "test"} => o.mode = 32
    /\ o.command \notin {"read", "write"} => o.count = IF o.command = "test" THEN 0 ELSE 1

\* Drivers that run in 16bit mode only: process_op_32 has no case for them.
Only16 == {"floppy", "ata", "ramdisk"}

\* Drivers that translate a request to a SCSI command (scsi_fill_cmd).
ScsiDrivers == {"virtio-scsi", "pvscsi", "megasas", "mpt", "esp", "lsi", "usb", "uas"}

Packet == {"atapi", "ahci-atapi"}

\* Drivers that take CMD_SCSI: those, and the ATAPI ones.
TakesScsi(d) == d \in ScsiDrivers \cup Packet

\* The end of process_op: an error that left the count alone moved nothing.
Returned(status, count) ==
    [status |-> status,
     count |-> IF status # "success" /\ count = op.count THEN 0 ELSE count]

\* The commands that the driver carries out itself.
Implemented(o) ==
    \/ o.command = "read"
    \/ o.command = "write" /\ drv \notin Packet
    \/ o.command \in {"scsi", "test"} /\ TakesScsi(drv)
    \/ o.command \in {"reset", "isready"} /\ drv = "ata"
    \/ o.command \in {"format", "verify", "reset"} /\ drv = "floppy"

\* default_process_op, which the floppy driver does without, and the commands
\* that are refused for a CD.
DefaultStatus(o) ==
    IF drv \in Packet /\ o.command \in {"write", "format"} THEN "ewriteprotect"
    ELSE IF o.command \in {"scsi", "test"} \/ drv = "floppy" THEN "eparam"
    ELSE "success"

BlockInit ==
    /\ drv \in Drivers
    /\ op = [command |-> "verify", count |-> 1, mode |-> 16, id |-> 0, data |-> FALSE]
    /\ pc = "off"
    /\ pos = 0
    /\ moved = {}
    /\ ans = [status |-> "success", count |-> 0]
    /\ dev = {}
    /\ stray = FALSE

\* Identities that nothing names any more (mpt keeps replies). A request waits
\* for one: no more than Ids - 1 old commands are followed.
FreeIds ==
    0 .. Ids - 1 \ ({op.id} \cup {c.id : c \in dev}
        \cup IF drv = "mpt" THEN {hw.replies[i].ctx : i \in DOMAIN hw.replies} ELSE {})

\* process_op is entered: a request of more than 64K is refused, a driver of
\* 16bit mode is not reached from 32bit mode.
Request ==
    /\ pc = "idle"
    /\ \E o \in Ops :
        /\ Sensible(o)
        /\ o.id \in FreeIds /\ \A i \in FreeIds : o.id <= i
        /\ op' = o
    /\ pc' = IF op'.count > MaxXfer THEN "refuse"
             ELSE IF op'.mode = 32 /\ drv \in Only16 THEN "eparam"
             ELSE IF Implemented(op') THEN "start" ELSE "default"
    /\ pos' = 0
    /\ moved' = {}
    /\ UNCHANGED <<drv, ans, hw, dev, stray>>


\* The answers that need no driver.
Undriven ==
    /\ pc \in {"refuse", "eparam", "default"}
    /\ ans' = CASE pc = "refuse" -> [status |-> "eboundary", count |-> 0]
                [] pc = "eparam" -> Returned("eparam", op.count)
                [] OTHER         -> Returned(DefaultStatus(op), op.count)
    /\ pc' = "idle"
    /\ UNCHANGED <<drv, op, pos, moved, hw, dev, stray>>

\* A driver returns from its ..._process_op.
Return(status, count) ==
    /\ ans' = Returned(status, count)
    /\ pc' = "idle"

\* The commands a device executes: sectors lo .. lo+n-1 of request `id`; `tag`
\* is where the device will put its answer.
Command(lo, n, tag) ==
    [id |-> op.id, lo |-> lo, n |-> n, tag |-> tag, write |-> op.command = "write"]

\* Steps of a setup of several steps, and how it may end but for "idle":
\* "unused" is a controller that is set up and has no drive.
SetupSteps ==
    {"off", "disable", "enable", "identify", "iocq", "iosq", "ns", "norings",
     "found", "negotiate", "queue", "scan", "lun", "fail", "absent", "unused"}

\* The ..._add_lun of the SCSI adapters, for a target that the scan has found: the
\* parts of the lun are allocated, all or none, and scsi_drive_setup asks what it is;
\* what does not become a drive is freed. An adapter without a lun ends in `none`.
AddLun(parts, none) ==
    /\ \/ pc = "scan" /\ pc' = "lun" /\ hw' = [hw EXCEPT !.mem = @ \cup parts]
       \/ pc = "scan" /\ pc' = none /\ UNCHANGED hw
       \/ pc = "lun" /\ pc' = "idle" /\ UNCHANGED hw
       \/ pc = "lun" /\ pc' = none /\ hw' = [hw EXCEPT !.mem = @ \ parts]
    /\ UNCHANGED <<drv, op, pos, moved, ans, dev, stray>>

Busy == pc \notin SetupSteps \cup {"idle"}

\* Is c part of the request being carried out?
Current(c) == Busy /\ c.id = op.id

\* The device moves the sectors of c to or from the buffer the command names.
Move(c) ==
    /\ moved' = IF Current(c) /\ op.data THEN moved \cup c.lo .. c.lo + c.n - 1 ELSE moved
    /\ stray' = (stray \/ (c.n > 0 /\ ~Current(c)))

\* The refinement: what all drivers together promise.
Abstract == INSTANCE BlockDevice WITH
    Requests <- {o \in Ops : Sensible(o)},
    request  <- op,
    busy     <- Busy,
    served   <- moved,
    answer   <- ans
=============================================================================
