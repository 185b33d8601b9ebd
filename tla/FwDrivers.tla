----------------------------- MODULE FwDrivers -----------------------------
(***************************************************************************)
(* All disk drivers of SeaBIOS behind process_op: a drive of each type is  *)
(* set up (or is not there) and serves requests one after the other.       *)
(***************************************************************************)
EXTENDS QueueDisk, ScsiDisk, AtaDisk, SlowDisk

\* block_setup: every driver looks for its devices.
FwInit ==
    /\ BlockInit
    /\ hw = CASE drv = "nvme"             -> NvmeHw
              [] drv \in VirtioDrivers    -> VirtioHw
              [] drv \in {"ata", "atapi"} -> AtaHw
              [] drv \in {"ahci", "ahci-atapi"} -> AhciHw
              [] drv = "floppy"           -> FloppyHw
              [] drv = "sdcard"           -> SdHw
              [] drv = "ramdisk"          -> RamHw
              [] drv \in {"usb", "uas"}   -> UsbHw
              [] OTHER                    -> ScsiHw(drv)

\* What follows of itself once a request, or the setup, has begun.
FwStep ==
    \/ Undriven
    \/ NvmeNext \/ VirtioNext \/ ScsiNext \/ AtaNext \/ AhciNext
    \/ FloppyNext \/ SdcardNext \/ RamdiskNext \/ UsbNext

\* The drivers that wait for their device without a limit, whatever it does.
NoLimit == VirtioDrivers \cup {"pvscsi", "esp", "lsi"}

\* A device loses the command it has been given: it resets itself, or its firmware
\* is stuck. (How an NVMe controller, an AHCI port and an SD card stop is in their own
\* modules; an IDE drive and a floppy are late for ever; a USB transfer fails.)
DeviceLoses ==
    /\ drv \in NoLimit \cup {"megasas", "mpt"}
    /\ pc = "wait" /\ dev # {}
    /\ dev' = {}
    /\ UNCHANGED <<drv, op, pc, pos, moved, ans, hw, stray>>

FwNext == Request \/ FwStep \/ DeviceLoses

\* Driver and device go on as long as either can: the drivers poll without end
\* or up to a time limit, and devices answer what they have accepted and not lost.
FwSpec == FwInit /\ [][FwNext]_blockVars /\ WF_blockVars(FwStep)

-----------------------------------------------------------------------------
\* The failures that a driver reports as success, as it does not look where the device
\* tells of them: the status 2d of megasas, the scsiStatus of pvscsi, the residue of a
\* usb-msc command with status 0, and the type of the status of an NVMe command.
Overlooked ==
    CASE drv = "megasas" -> hw.cmd_status = "2d"
      [] drv = "pvscsi"  -> hw.cmps[hw.cmpCons % PvEntries] = "scsiStatus"
      [] drv = "usb"     -> pc = "status" /\ hw.sent < op.count
      [] drv = "nvme"    -> hw'.missed
      [] OTHER           -> FALSE

FailureOverlooked ==
    /\ Busy /\ pc' = "idle"
    /\ Overlooked
    /\ ans' = Returned("success", op.count)
    /\ UNCHANGED op

\* Every driver keeps the promise of process_op: success is only reported for a
\* request whose sectors were all moved by this request, and the count of a
\* read that failed is covered by sectors that were moved. A driver may give up
\* on a device that is late (those of LateDrivers); the device's answer must not be
\* taken for that of the next request. The promise is broken by the failures that
\* four drivers overlook, which are named above, and by nothing else.
PromiseKept == Abstract!BDInit /\ [][Abstract!BDNext \/ FailureOverlooked]_(Abstract!bdVars)

\* No device reads or writes the buffer of a request that was answered, which
\* its caller may use for something else by then: a driver that gives up has
\* the device stopped, or the CPU moves the data. Not so mpt_scsi_cmd, which
\* leaves its adapter at work (and nvme, megasas and ahci, see LateDrivers).
BuffersLeftAlone == drv # "mpt" => ~stray

\* What a setup that failed does keep: the rings of pvscsi, and what ahci_port_alloc has
\* got of a port when it does not get all of it.
LeftBehind ==
    CASE drv = "pvscsi" -> PvscsiRings
      [] drv \in {"ahci", "ahci-atapi"} /\ ~(Buffers \subseteq hw.mem) -> {"port"} \cup Buffers
      [] OTHER -> {}

\* A drive that is not there after its setup has no queue, no pipe, no power and,
\* but for LeftBehind, no memory, wherever the setup failed. (The NVMe controller of a
\* setup that failed keeps the addresses of the queues that were freed.)
SetupUndone ==
    pc = "absent" =>
        /\ drv = "nvme" => hw.live = {}
        /\ drv \in VirtioDrivers => ~hw.vq /\ "DRIVER_OK" \notin hw.status
        /\ drv \in {"ahci", "ahci-atapi"} \cup (ScsiDrivers \ {"usb", "uas"}) => hw.mem \subseteq LeftBehind
        /\ drv = "sdcard" => ~hw.power /\ ~hw.drive
        /\ drv \in {"usb", "uas"} => ~hw.pipes /\ ~hw.drive

\* The queues a controller works with are allocated as long as there may be a drive, and
\* nothing is written through a NULL pointer unless the dma buffer of the namespace
\* could not be had, or a controller that has stopped lets its queue fill up.
NvmeMemory ==
    drv = "nvme" =>
        /\ pc \notin {"fail", "absent"} => hw.given \subseteq hw.live
        /\ hw.wild => ~hw.buffer \/ hw.gone

\* Nothing a driver holds is lost or left to the device, but for what the parts name:
\* memory of answered requests (BuffersLeftAlone), what the setup of a drive that failed
\* took (SetupUndone), the queues of NVMe (NvmeMemory), the descriptors of a ring
\* (DescriptorsFree) and the motor of a transfer under way (MotorRuns).
ResourcesKept == BuffersLeftAlone /\ SetupUndone /\ NvmeMemory /\ DescriptorsFree /\ MotorRuns

\* Is the driver in a wait that has no limit, for what the device will not bring? Those
\* of NoLimit wait for the answer of a lost command; ahci_command, after a command that
\* failed, waits for a port that hangs to stop.
WaitsForEver ==
    \/ /\ pc = "wait" /\ dev = {}
       /\ \/ drv \in VirtioDrivers /\ hw.used_idx = hw.last_used_idx
          \/ drv = "pvscsi" /\ ~hw.intr
          \/ drv = "esp" /\ hw.bus \in {"select", "dma", "iccs"}
          \/ drv = "lsi" /\ ~hw.sist /\ ~hw.dstat
    \/ drv \in {"ahci", "ahci-atapi"} /\ pc = "recover" /\ hw.gone

\* Every request of process_op is answered, whatever the device refuses, loses or does
\* late, but for the waits without a limit of virtio, pvscsi, esp and lsi, if the device
\* has lost the command, and of ahci, if the port does not stop after a failed one. The
\* other drivers answer whatever happens, and these as long as the device goes on.
RequestAnswered == Busy ~> (pc = "idle" \/ WaitsForEver)
=============================================================================
