---------------------------- MODULE Passthrough ----------------------------
(***************************************************************************)
(* The host's PCI devices that machines pass through.  pre_run of a launch *)
(* gives each device of the machine to vfio-pci (vfio-bind) before QEMU    *)
(* opens it; an operator moves devices with drv-bind, vfio-reset and       *)
(* vfio-unbind.  All of them go through two files of sysfs per device, the *)
(* driver in use and driver_override, which no lock protects.              *)
(*                                                                         *)
(* A machine has at most one launch at a time (OneQemu of LifecycleProofs),*)
(* so a launch is named by its machine.                                    *)
(***************************************************************************)
EXTENDS Naturals, Sequences

CONSTANTS
    Machines,
    Devices,     \* PCI addresses of the host
    PreBoot,     \* machine -> devices of teradici.sh, usb-pt*.sh, pci-pt.sh, in that order
    GfxPt,       \* machine -> devices in PRE_CMD: network functions (_add_pcie_iface), the card of
                 \* gfx-pt.sh with its audio function
    Tools,       \* the operator's commands that are in use
    Interrupts,  \* TRUE: a launch may be killed during pre_run
    Careful      \* TRUE: the operator does not work on one device in two places at once

ASSUME WordIsNoDevice == "vfio-bind" \notin Devices
ASSUME PreBootType == PreBoot \in [Machines -> Seq(Devices)]
ASSUME GfxPtType == GfxPt \in [Machines -> Seq(Devices)]
ASSUME ToolsType == Tools \subseteq {"drv-bind", "vfio-reset", "vfio-unbind"}
ASSUME FlagsType == Interrupts \in BOOLEAN /\ Careful \in BOOLEAN

VARIABLES
    driver,    \* device -> the driver it is bound to: "none", "host" or "vfio-pci"
    override,  \* device -> driver_override
    launch,    \* machine -> where its launch is
    arg,       \* machine -> the argument of vfio-bind it is at
    tool       \* device -> the operator's command on it: <<command, driver, step>>

ptVars == <<driver, override, launch, arg, tool>>

Idle == <<"idle", "none", "done">>

-----------------------------------------------------------------------------
(* What genconfig.sh writes into pre_run *)

\* The words that add_pciept_dev, usb-pt.sh and teradici.sh append to RUN_PRE_BOOT:
\* the command and one device, for each device
RunPreBoot(m) ==
    [k \in 1..(2 * Len(PreBoot[m])) |->
        IF k % 2 = 1 THEN "vfio-bind" ELSE PreBoot[m][k \div 2]]

\* genconfig.sh:150 puts all words of RUN_PRE_BOOT on one line, so that all but the
\* first are arguments of one vfio-bind.
PreBootArgs(m) ==
    IF PreBoot[m] = <<>> THEN <<>>
    ELSE [k \in 1..(2 * Len(PreBoot[m]) - 1) |-> RunPreBoot(m)[k + 1]]

\* Each entry of PRE_CMD has a line of its own.  An argument that fails ends pre_run
\* (set -e), on whichever line it stands.
PreRunArgs(m) == PreBootArgs(m) \o GfxPt[m]

Arg(m) == PreRunArgs(m)[arg[m]]

\* The devices that QEMU's options name (add_pciept_dev, usb-pt.sh, teradici.sh,
\* lib-gfx.sh); the audio function belongs to the IOMMU group of the card.
DevicesOf(m) == {PreRunArgs(m)[k] : k \in DOMAIN PreRunArgs(m)} \cap Devices

-----------------------------------------------------------------------------
(* sysfs: what a write does (external) *)

\* driver/unbind; the device is taken from a guest that has it open
Unbound(d) == driver' = [driver EXCEPT ![d] = "none"]

\* The driver that a probe finds for a device: the overriding one, else its own
Matching(d) == IF override[d] = "none" THEN "host" ELSE override[d]

\* drivers_probe: binds a device that has no driver
Probed(d) ==
    driver' = [driver EXCEPT ![d] = IF @ = "none" THEN Matching(d) ELSE @]

\* drivers/X/bind: fails for a bound device, and for one that X does not match
BoundTo(d, x) ==
    driver' = [driver EXCEPT ![d] = IF @ = "none" /\ Matching(d) = x THEN x ELSE @]

\* echo -n "" > driver_override: nothing to write, so no write
EchoEmpty(o) == o

-----------------------------------------------------------------------------
InPreRun(m) == launch[m] \in {"read", "override", "unbind", "probe"}

\* Machines that use a device of m
Sharing(m) == {n \in Machines \ {m} : DevicesOf(n) \cap DevicesOf(m) # {}}

\* Nobody else works on a device of m
Undisturbed(m) ==
    Careful => /\ \A n \in Sharing(m) : ~InPreRun(n)
               /\ \A d \in DevicesOf(m) : tool[d] = Idle

\* Device d is not in use and no launch is working on it
AtRest(d) ==
    Careful => \A m \in Machines : d \in DevicesOf(m) => launch[m] = "down"

\* Devices, launches and tools have their types; a launch in pre_run is at an argument of
\* its line (vfio-bind's loop does not run past it).
PtTypeOK ==
    /\ driver \in [Devices -> {"none", "host", "vfio-pci"}]
    /\ override \in [Devices -> {"none", "host", "vfio-pci"}]
    /\ launch \in [Machines -> {"down", "read", "override", "unbind", "probe",
                                "qemu", "running"}]
    /\ arg \in [Machines -> Nat]
    /\ \A m \in Machines : InPreRun(m) => arg[m] \in DOMAIN PreRunArgs(m)
    /\ tool \in [Devices -> {"idle", "drv-bind", "vfio-reset", "vfio-unbind"}
                            \X {"none", "host", "vfio-pci"}
                            \X {"done", "read", "override", "newid", "unbind", "bind"}]

PtInit ==
    /\ driver = [d \in Devices |-> "host"]
    /\ override = [d \in Devices |-> "none"]
    /\ launch = [m \in Machines |-> "down"]
    /\ arg = [m \in Machines |-> 0]
    /\ tool = [d \in Devices |-> Idle]

-----------------------------------------------------------------------------
(* pre_run of a launch: vfio-bind on one argument after the other *)

\* The launch goes to argument k, or to QEMU after the last one.
GoTo(m, k) ==
    /\ arg' = [arg EXCEPT ![m] = k]
    /\ launch' = [launch EXCEPT ![m] =
                    IF k \in DOMAIN PreRunArgs(m) THEN "read" ELSE "qemu"]

\* run starts pre_run.
PreRun(m) ==
    /\ launch[m] = "down"
    /\ Undisturbed(m)
    /\ GoTo(m, 1)
    /\ UNCHANGED <<driver, override, tool>>

\* Broken variant: the test is missing.
ClaimedNever(d) == FALSE

\* Broken variant: any override says that the device is taken.
ClaimedByAny(d) == driver[d] = "vfio-pci" \/ override[d] # "none"

\* The driver or the override says that the device is taken: "allready claimed"
Claimed(d) == driver[d] = "vfio-pci" \/ override[d] = "vfio-pci"

VfioBindClaimed(m) ==
    /\ launch[m] = "read"
    /\ Arg(m) \in Devices /\ Claimed(Arg(m))
    /\ GoTo(m, arg[m] + 1)
    /\ UNCHANGED <<driver, override, tool>>

\* There is no such device: its driver_override cannot be read, and set -e ends
\* vfio-bind, pre_run and run.
VfioBindNonexisting(m) ==
    /\ launch[m] = "read"
    /\ Arg(m) \notin Devices
    /\ launch' = [launch EXCEPT ![m] = "down"]
    /\ UNCHANGED <<driver, override, arg, tool>>

VfioBindRead(m) ==
    /\ launch[m] = "read"
    /\ Arg(m) \in Devices /\ ~Claimed(Arg(m))
    /\ launch' = [launch EXCEPT ![m] = "override"]
    /\ UNCHANGED <<driver, override, arg, tool>>

\* Broken variant: driver_override is left alone.
VfioBindOverrideNot(m) ==
    /\ launch[m] = "override"
    /\ launch' = [launch EXCEPT ![m] = "unbind"]
    /\ UNCHANGED <<driver, override, arg, tool>>

VfioBindOverride(m) ==
    /\ launch[m] = "override"
    /\ override' = [override EXCEPT ![Arg(m)] = "vfio-pci"]
    /\ launch' = [launch EXCEPT ![m] = "unbind"]
    /\ UNCHANGED <<driver, arg, tool>>

VfioBindUnbind(m) ==
    /\ launch[m] = "unbind"
    /\ Unbound(Arg(m))
    /\ launch' = [launch EXCEPT ![m] = "probe"]
    /\ UNCHANGED <<override, arg, tool>>

VfioBindProbe(m) ==
    /\ launch[m] = "probe"
    /\ Probed(Arg(m))
    /\ GoTo(m, arg[m] + 1)
    /\ UNCHANGED <<override, tool>>

\* The device is on vfio-pci and no other guest has it open.
CanOpen(m) ==
    \A d \in DevicesOf(m) :
        /\ driver[d] = "vfio-pci"
        /\ \A n \in Sharing(m) : d \in DevicesOf(n) => launch[n] # "running"

\* on_run: QEMU opens the devices, or ends.
OnRun(m) ==
    /\ launch[m] = "qemu"
    /\ launch' = [launch EXCEPT ![m] = IF CanOpen(m) THEN "running" ELSE "down"]
    /\ UNCHANGED <<driver, override, arg, tool>>

\* QEMU ends; on-exit leaves the devices with vfio-pci.
GuestEnds(m) ==
    /\ launch[m] = "running"
    /\ launch' = [launch EXCEPT ![m] = "down"]
    /\ UNCHANGED <<driver, override, arg, tool>>

\* A signal ends the launch during pre_run.
Interrupt(m) ==
    /\ Interrupts
    /\ InPreRun(m)
    /\ launch' = [launch EXCEPT ![m] = "down"]
    /\ UNCHANGED <<driver, override, arg, tool>>

-----------------------------------------------------------------------------
(* The operator's commands, each on one device *)

ToolStep(d, at) == tool' = [tool EXCEPT ![d] = <<@[1], @[2], at>>]

ToolAt(d, at) == tool[d][1] # "idle" /\ tool[d][3] = at

\* drv-bind names any driver; vfio-reset and vfio-unbind have theirs.
ToolStart(d, cmd, x) ==
    /\ tool[d] = Idle
    /\ AtRest(d)
    /\ cmd # "drv-bind" => x = "vfio-pci"
    /\ tool' = [tool EXCEPT ![d] = <<cmd, x, "read">>]
    /\ UNCHANGED <<driver, override, launch, arg>>

\* drv-bind, vfio-reset: the override alone says that the device is taken.
ToolClaimed(d) ==
    /\ ToolAt(d, "read")
    /\ tool[d][1] # "vfio-unbind" /\ override[d] = tool[d][2]
    /\ tool' = [tool EXCEPT ![d] = Idle]
    /\ UNCHANGED <<driver, override, launch, arg>>

\* drv-bind: the override, and after two seconds the rest
DrvBindOverride(d) ==
    /\ ToolAt(d, "read")
    /\ tool[d][1] = "drv-bind" /\ override[d] # tool[d][2]
    /\ override' = [override EXCEPT ![d] = tool[d][2]]
    /\ ToolStep(d, "unbind")
    /\ UNCHANGED <<driver, launch, arg>>

\* vfio-reset: the same, with new_id in between
VfioResetOverride(d) ==
    /\ ToolAt(d, "read")
    /\ tool[d][1] = "vfio-reset" /\ override[d] # "vfio-pci"
    /\ override' = [override EXCEPT ![d] = "vfio-pci"]
    /\ ToolStep(d, "newid")
    /\ UNCHANGED <<driver, launch, arg>>

\* vfio-reset: new_id makes vfio-pci take its devices that have no driver.
VfioResetNewId(d) ==
    /\ ToolAt(d, "newid")
    /\ Probed(d)
    /\ ToolStep(d, "unbind")
    /\ UNCHANGED <<override, launch, arg>>

\* vfio-unbind: "Releasing Driver"; its new_id has no device id ("q device=") and fails.
VfioUnbindOverride(d) ==
    /\ ToolAt(d, "read")
    /\ tool[d][1] = "vfio-unbind"
    /\ override' = [override EXCEPT ![d] = EchoEmpty(@)]
    /\ ToolStep(d, "unbind")
    /\ UNCHANGED <<driver, launch, arg>>

ToolUnbind(d) ==
    /\ ToolAt(d, "unbind")
    /\ Unbound(d)
    /\ tool' = [tool EXCEPT ![d] = IF @[1] = "vfio-unbind" THEN Idle
                                   ELSE <<@[1], @[2], "bind">>]
    /\ UNCHANGED <<override, launch, arg>>

ToolBind(d) ==
    /\ ToolAt(d, "bind")
    /\ BoundTo(d, tool[d][2])
    /\ tool' = [tool EXCEPT ![d] = Idle]
    /\ UNCHANGED <<override, launch, arg>>

\* The kernel probes a device without a driver: a module is loaded, the bus rescanned.
KernelProbe(d) ==
    /\ driver[d] = "none"
    /\ Probed(d)
    /\ UNCHANGED <<override, launch, arg, tool>>

\* The host restarts.
HostRestart ==
    /\ driver' = [d \in Devices |-> "host"]
    /\ override' = [d \in Devices |-> "none"]
    /\ launch' = [m \in Machines |-> "down"]
    /\ arg' = [m \in Machines |-> 0]
    /\ tool' = [d \in Devices |-> Idle]

LaunchStep(m) ==
    \/ PreRun(m)
    \/ VfioBindClaimed(m) \/ VfioBindNonexisting(m) \/ VfioBindRead(m)
    \/ VfioBindOverride(m) \/ VfioBindUnbind(m) \/ VfioBindProbe(m)
    \/ OnRun(m) \/ GuestEnds(m) \/ Interrupt(m)

ToolNext(d) ==
    \/ \E cmd \in Tools, x \in {"host", "vfio-pci"} : ToolStart(d, cmd, x)
    \/ ToolClaimed(d)
    \/ DrvBindOverride(d)
    \/ VfioResetOverride(d) \/ VfioResetNewId(d)
    \/ VfioUnbindOverride(d)
    \/ ToolUnbind(d) \/ ToolBind(d)

PtNext ==
    \/ \E m \in Machines : LaunchStep(m)
    \/ \E d \in Devices : ToolNext(d) \/ KernelProbe(d)
    \/ HostRestart

PtSpec == PtInit /\ [][PtNext]_ptVars

-----------------------------------------------------------------------------
(* Properties *)

\* When pre_run is through, every device of the machine is on vfio-pci: QEMU finds what
\* its command line names, whatever the devices went through before (other machines,
\* drv-bind, vfio-reset, a probe of the kernel between unbind and drivers_probe).
DevicesReady ==
    \A m \in Machines : launch[m] = "qemu" =>
        \A d \in DevicesOf(m) : driver[d] = "vfio-pci"

\* A guest keeps its devices while it runs: the launch of a machine that shares one
\* leaves it alone, and no two guests have one device.
GuestKeepsDevices ==
    \A m \in Machines : launch[m] = "running" =>
        \A d \in DevicesOf(m) :
            /\ driver[d] = "vfio-pci"
            /\ \A n \in Sharing(m) : launch[n] = "running" => d \notin DevicesOf(n)
=============================================================================
