# kvm-osx: TLA+ models and proofs

kvm-osx runs QEMU/KVM machines on a Linux host. It is two programs in one
repository:

- **the scripts** under `bin/`, `kvm/` and `exec/systemd/`, which turn a machine
  (a directory of `/srv/kvm/vms` with a `config` file) into a QEMU process, give it
  disks, network interfaces and PCI devices, and pause, shut down, back up and
  restore it. There is no daemon and no lock: the scripts meet in files (`var/pid`,
  `var/frozen`), in the process table, in systemd unit names, in network devices,
  in sysfs and in the volume group;
- **the firmware** `bios/seabios-1.13.0`, the BIOS that these machines are built
  with: 16 and 32 bit code that finds and drives the machine's devices with
  cooperative threads, builds the tables an operating system looks for, and serves
  its BIOS calls.

The modules model both. Paths below are relative to the repository, those of the
firmware to `bios/seabios-1.13.0/src`.

## 1. Inventory

### Scripts

| part | state it keeps | operations | meets the others in |
|---|---|---|---|
| launch (`bin/boot.real`, `kvm/genconfig.sh`, `kvm/run-clover.sh`, the generated `run`, `on-run`, `on-exit`) | where each script is, the systemd scope, `var/pid` | boot, pre_run, on_run, on-exit | process table, unit name, `var/pid`, QMP socket |
| kickstart (`bin/machine-boot-kickstart`, `bin/wait-for-state`, `bin/machine-continue`, `exec/systemd/update-pid-cpu.sh`, `bin/qmp-send`) | `/var/run/qemu/*` | wait for prelaunch, pin, continue | QMP socket, `var/pid` |
| administration (`bin/machine-shutdown-running`, `shutdown-ga/-acpi/-hard`, `machine-autostart`, `machine-pause*`, `machine-continue-frozen`, `boot.config`) | positions of the loops, delayed requests, `var/frozen` | three passes of shutdown, autostart, pause, reconfigure | `var/pid`, `/proc`, QMP socket |
| network (`kvm/lib-net.sh`, `lib-net-ovs.sh`, `net-uni.sh`) | devices of the host by name, MACs of virtual functions | PRE_CMD creates, POST_CMD removes | device names, pre_run and on-exit of the launches |
| passthrough (`bin/vfio-bind`, `vfio-unbind`, `vfio-reset`, `drv-bind`, `kvm/lib-pt.sh`, `pci-pt.sh`, `gfx-pt.sh`, `usb-pt.sh`, `teradici.sh`) | `driver` and `driver_override` of each device | bind, unbind, reset | sysfs, pre_run of the launches |
| backup (`bin/machine-backup`, `machine-restore`, `lvm-snapshot-lv`, `backup-blockdev`, `restore-blockdev`, `machine-list-disks`) | snapshots, images in the store, disk files | backup, restore | volume group, disk files of a running guest |
| QEMU options (`kvm/common*.sh`, `lib-hdd.sh`, `hdd-uni.sh`, `lib-pci.sh`, ...) | slots and indices while genconfig.sh runs | append options | generated scripts |
| disk and file servers, input devices, shared disks | units, sockets, `var/evdev_state`, images | start, attach, commit | on_run, monitor, disk files |

What is hard: four processes per launch, several launches of one machine and an
operator's commands beside them, all deciding on files they read earlier; `var/pid`
survives a crash and its pid is given to another process; the generated scripts run
under `set -e`, so that what fails ends them where they stand; requests sleep in the
background and go to whoever listens by then.

What makes it correct: a machine has at most one QEMU; `var/pid` names it; cleaning
up kills nobody else's process and does happen; a shutdown ends every machine it
found, and only after asking; a running guest keeps its network and PCI devices;
backups are of one moment, and a restore brings back what was there.

### Firmware

| part | state it keeps | operations | meets the others in |
|---|---|---|---|
| resets (`post.c`, `resume.c`, `fw/shadow.c`) | the copy of the BIOS in memory and its locks, `HaveRunPost`, the reset code in the CMOS | POST, resume, reboot | whatever was interrupted by the reset |
| threads, stacks, modes (`stacks.c`, `post.c`, `romlayout.S`, `fw/smp.c`, `fw/smm.c`) | thread list, stacks, mutexes, call data | run, yield, lock, hop, enter 16 bit code, start processors | everything that waits |
| clocks (`clock.c`, `hw/timer.c`, `hw/rtc.c`) | tick count, RTC registers, user timer, fine timer | interrupts, INT 15h/1Ah calls, deadlines | every time limit |
| files (`romfile.c`, `fw/paravirt.c`, `fw/coreboot.c`, `fw/multiboot.c`) | list of files, the one fw_cfg device | find, read, write, link, run a payload | settings of every part |
| memory and tables (`malloc.c`, `e820map.c`, `pmm.c`, `fw/acpi.c`, `smbios.c`, `mptable.c`, `biostables.c`, `romfile_loader.c`) | zones, memory map, tables | allocate, reserve, build, copy, load | option roms, the operating system |
| PCI and option roms (`fw/pciinit.c`, `hw/pci.c`, `pcidevice.c`, `optionroms.c`) | bus numbers, regions, roms below the BIOS | number, size, map, deploy, call | memory, boot list |
| disk drivers (`block.c`, `hw/*.c` for seventeen kinds of drive) | rings, registers, pipes | setup, process_op | a device that works by itself |
| boot order and int 13h (`boot.c`, `disk.c`, `cdrom.c`) | boot list, numbers and geometries of drives, CD emulation, locks | scan, sort, boot, disk calls | drivers, guest |
| USB (`hw/usb*.c`) | controllers, hubs, pipes, descriptors | enumerate, transfer | threads, drivers, keyboard |
| keyboard and mouse (`kbd.c`, `mouse.c`, `hw/ps2port.c`, `hw/usb-hid.c`) | key buffer and flags, one i8042 | commands, interrupts, INT 16h | interrupts |
| TPM (`tcgbios.c`, `hw/tpm_drivers.c`) | PCRs, log, state of the TPM | measure, extend, log, guest calls | option roms, boot |
| display and serial console (`vgasrc/`, `sercon.c`) | frame buffer, cursor, BDA, registers of the chip, terminal | int 10h, VESA calls | timer event of the cursor |

What is hard: threads give way in every wait, so that two of them meet in a list, a
bus address or a device between two statements of one function; interrupts and
calls of foreign code come in where code lets them in; devices answer late, after
the driver gave up, or fail half-way through a setup; indices and counters wrap;
two sources of input share one buffer.

What makes it correct: a request is reported done only if its own sectors were
moved; resources come back on every way out; drives are found, ordered and numbered
the same way whatever thread is first; no code runs unmeasured and the log replays to
the PCRs; no address has two owners; devices are reachable, one at a time; stacks
and sections are not shared; keys arrive once and in order; nothing waits for ever.

`PROJECT.json` lists every part with the reason why it is or is not modelled, and
every hazard at its line.

## 2. Modules

    scripts     Lifecycle ---- Admin       launches; the operator's scripts beside them
                    \--------- Network     launches with their network devices
                Passthrough, Backup        PCI devices; disks, snapshots, images
    disks       BlockDevice                what process_op promises (abstract)
                BlockOp -- QueueDisk, ScsiDisk, AtaDisk, SlowDisk -- FwDrivers
    booting     BootDisks, Tpm
    USB, input  UsbEnum, UsbXfer, Keyboard -- Ps2
    machine     FwMemory -- FwTables, PciSetup, OptionRoms
    services    Threads, Reset, Clock, Vga, Vbe, SerialConsole, FwFiles
    XProofs     theorems about X (ServicesProofs: Reset and Clock; DeviceProofs: Ps2
                and UsbXfer; LifecycleProofs: Lifecycle and Admin); NetworkProofs
                extends LifecycleProofs
    MCX         constants, and the composition of parts, for the runs

Definitions named "Broken variant" are mutated forms of the definition after
them. They belong to no specification; each shows that a property notices the bug.

Where an MC module has a variable `part`, `host` or `used`, a behaviour is about
one of several parts that have no state in common (or one of several sets of
scripts); the others rest. The parts are then checked in one run without the product
of their states.

### Lifecycle

A launch `b` of machine `MachineOf[b]` is up to four processes. `boot[b]` is
`boot.real` with the kickstart in its foreground: `BootStart`, `BootCheck` (lines
33-42), `GenConfig`, `Launch` (`run-clover.sh`), then `KickState`, `KickWait`,
`KickPin`, `KickCont`. `run[b]` is the generated `run`: `ScopeStart`, `RunPre`,
`RunQemu`, and `RunExit` for its EXIT trap. `onexit[b]` is the generated
`on-exit`, one action per command, because other processes come in between its
cat, test, kill and rm. `qemu[b]` is the QEMU process by its QMP run state.
`proc` is the process table, `pidfile` the `var/pid` of each machine, `varrun`
the files of `/var/run/qemu`.

`systemd-run --unit` refuses a name that is in use; the unit lives as long as any
process of the scope (`ScopeActive`). `Crash` ends everything but `pidfile`.
`wrote` is a history variable: the launches whose QEMU wrote its pidfile while
its `run` was there.

External, modelled from how the scripts use them: QEMU, systemd, the kernel's
pids, other processes. `Allocatable` says that the kernel does not give a pid to
a new process within the moments in which a scope that knows the pid cleans up
(pids are handed out cyclically); at any later time, and after a crash, it does.

`genconfig.sh` is one step that may fail; what it writes is a function of the
config, which does not change.

### Admin

The scripts an operator or the host's boot and shutdown run beside the launches.
`sd` is machine-shutdown-running (pass, position); `SdVisit` is one turn of one
of its three loops, `SdHard` the shutdown-hard it calls, which reads `var/pid`
again. `late` are the shutdown-ga and shutdown-acpi in the background, `LateSend`
sends one to whatever QEMU the machine has by then. `SdSleep` relies on the
script's times: a pass is followed by 10 or 20 seconds, a request sleeps 5.
`AutoStart/AutoBoot/AutoSkip` are machine-autostart, `MachinePause` and
`ContinueFrozen` the freezing scripts, `CfgRead/CfgRefuse/CfgRm` the pid check of
boot.config. `used` (MCAdmin) says which scripts run beside the launches: shutdown,
autostart with boot.config, or pause and continue. `targets` and `asked` are
history, for the properties.

### Network

`Ifaces` gives the modes NET1_MODE, NET2_MODE, ... of each machine. PRE_CMD is
executed command by command (`NetDel`, `NetAdd`, `NetUp`; `NetSriov` and `NetVfioBind`;
`NetOther` for modes without commands); `link` is the host's table of devices, each with
the launch that made it. `NetRunQemu` opens `/dev/tap$TAPNUM` of a macvtap device by the
number read at `NetUp`; ovs devices are opened by name. `NetPost` is the one line
into which genconfig.sh writes all entries of POST_CMD: whether it works, does
nothing or breaks follows from the interfaces (`PostLine`), which refines the
free choice that Lifecycle makes in `OnExitPost`. All other steps are those of
Lifecycle, with the devices unchanged; a step of Network is a step of Lifecycle by construction,
which is what lets NetworkProofs use LifecycleProofs.

e1000, vmxnet and passthru variants of macvtap have the same commands as macvtap
and are that mode; bridge has no commands and is mode tap.

### Passthrough

`driver` and `override` are the two files of sysfs per device. A launch goes
through the arguments of its vfio-bind lines (`PreRunArgs`): `VfioBindRead` (or
`VfioBindClaimed`, `VfioBindNonexisting`), `VfioBindOverride`, `VfioBindUnbind`,
`VfioBindProbe`, a step for every write, then `OnRun`. The operator's drv-bind, vfio-reset
and vfio-unbind are processes on a device, with a step for every write. `KernelProbe` is a
module being loaded or a bus rescan, `HostRestart` a restart. That a machine has
at most one launch is theorem OneQemu of Lifecycle.

`Careful` says that the operator keeps commands and launches that touch the same
device apart. `Interrupts` says whether launches may be killed in pre_run.

Abstractions: the two reads of lines 18-19 of vfio-bind are one step, as are the
check for a driver and the unbind at line 49; `new_id` of vfio-reset acts on the
device it is called for only. On the second host of MCPassthrough, `half` is history: the
devices whose last bind was cut short.

### Backup

One machine: `files` and `data` are its disks, `snaps` the snapshots of the
volume group by disk and second, `last` the store's last image of each disk. A
machine-backup process steps through its disks (`BackupDisk`, `Snapshot`,
`DdOpen`, `DdEnd`, `SnapshotRemove`, `BackupFs`) while the guest writes and the
clock ticks, may find the volume group full and may be killed. A restore moves
the disks away and writes images back (`RestoreStart`, `RestoreDisk`); the guest
is down meanwhile, and no backup runs. A content is a file format, whether it is
whole, and the number of the guest's last write; `GuestView` is what QEMU makes
of the file that `diskarg` (`kvm/lib-hdd.sh`) picks. `DISK_x_TYPE` is not set.

### Disk drivers: BlockDevice, BlockOp, QueueDisk, ScsiDisk, AtaDisk, SlowDisk, FwDrivers

`BlockDevice` is what process_op promises its callers: one request at a time, and
success only if all its sectors were moved for this very request. `BlockOp` is
block.c and hw/blockcmd.c with what drivers share: `pc` is where the driver stands,
`hw` the driver's and the device's state, `inflight` what the device works on, `ids`
tell requests apart so that a late answer is recognised by the model though the code may
not. `QueueDisk` is NVMe and virtio, `ScsiDisk` the SCSI adapters and the USB disks,
`AtaDisk` ATA, ATAPI and AHCI in PIO and DMA, `SlowDisk` floppy, SD card and RAM
disk. A step of a driver runs from one wait to the next; the device has actions of
its own, with failures everywhere the code looks for one. `FwDrivers` composes them
and states `PromiseKept`: every driver implements BlockDevice (`Abstract`, an
INSTANCE with a refinement mapping).

### Boot order and int 13h: BootDisks

The threads of the controllers find drives, bcv_prepboot and the boot menu give them
numbers, call_boot_entry tries them, and El Torito images are emulated. In the last part
of the module a guest makes every call of int 13h with arguments at the edges of a
geometry. Memory may be missing for any structure.

### TPM: Tpm

The first part transmits one command over TIS or CRB to a device that works on its own.
The second is tcgbios.c: probe and startup of both versions, measurements of roms, boot
code and separators, the log, the calls of INT 1Ah, the menu of the user, S3.
Digests are names; PCRs are the sequences of what was extended. A record of the log has
`at`, which the log does not have: how long its PCR was when it was written. It is what
the theorem about the log counts with, and no step reads it.

### USB and input: UsbEnum, UsbXfer, Keyboard, Ps2

`UsbEnum` has a thread for every controller and port, with detection, reset under
`resetlock`, addresses, configuration and release; `UsbXfer` the descriptors that
driver and controller work on together; `Keyboard` kbd.c and, from usb-hid.c, reports through
the rings of interrupt pipes; `Ps2` the i8042 with commands, interrupts and both devices.

### Machine: FwMemory, FwTables, PciSetup, OptionRoms

`FwMemory` is the allocator with its zones, the memory map, PMM and the space of
option roms on six platforms. `FwTables` builds, copies or loads tables in it; its first
half is what the tables say, functions of a machine checked against one another. `PciSetup` numbers buses, sizes and maps regions. `OptionRoms` deploys
roms and lists what they offer.

### Services: Threads, Reset, Clock, Vga, Vbe, SerialConsole, FwFiles

`Threads` is stacks.c with the order of maininit, foreign code that calls back,
interrupts and a second processor. `Reset` follows the copy of the BIOS in memory over
resets, which may come between any two steps of POST, of a resume or of the copying
itself: `where` is the place in the code, `pam` and `roms` are the chipset's locks, `code`
and `hrp` (HaveRunPost) what is in memory, `status` the reset code. `Clock` has three parts: ticks, RTC, fine timer.
`Vga` draws in four memory models and compares with what was printed. `Vbe` has the tables of
modes, the registers of five kinds of chip (standard VGA, Cirrus, ATI, the Bochs interface, frame
buffers that cannot change) as far as a mode uses them, and the VESA calls: `want` is what the
caller has set since the mode was (line length, start, window, width of the palette) and must be
what the chip does; `told`, what a call answered, must fit the memory; `mixed` says that a
part of a saved state was restored, or that S3 lost the registers. `SerialConsole`
compares the terminal's screen. `FwFiles` makes the list of files and lets threads
read through one fw_cfg device, and compares with what the machine offers.

## 3. Runs

| run | instance | shows | states |
|---|---|---|---|
| launches | 1 machine, 2 launches, 2 pids | `AtMostOneQemu`, `PidfileNamesQemu`; under fairness `OrphanReaped`, `Kickstarted` | 223,000 |
| admin | the same beside shutdown, or autostart and boot.config, or pause and continue | `OnExitSparesOthers`; `ShutdownComplete`: none of the machines found is left; `AskedBeforeKill` | 1.4 million |
| relaunch | a machine with macvtap and tap interfaces, 2 launches; or one with sriov and ovs | `TapOfRunning`, `ExitCleansUp` | 224,000 |
| passthrough | 2 machines that share a card, drv-bind, vfio-reset; a second host with kills in pre_run, vfio-unbind and a failing machine | `DevicesReady`, `GuestKeepsDevices`; on the second host `FailuresStay`: what goes wrong with one device spoils no other | 106,000 |
| disks | 2 backups at a time, a logical volume or file and another disk, 3 seconds, 1 write per disk | `SnapshotsOwn`, `ImageConsistent` (also of images whose backup was disturbed), `RestoreFaithful` (raw images that are whole) | 3.2 million |
| drivers | seventeen kinds of drive | `PromiseKept` (refinement of BlockDevice), `ResourcesKept`, `RequestAnswered` | 481,000 |
| disks13 | 3 threads, 6 kinds of boot entry, three geometries | `BootOrder`, `DrivesUsable`, `AnswersTrue`, `BootEnds` | 481,000 |
| tpm | eight machines, one fault | `AnswersMatch`, `LogReplays`, `MeasuredBeforeRun` | 956,000 |
| usb | three machines, four kinds of controller | `EnumerationSafe`, `TransfersClean`, `KeysArrive`, `AnswersOwn`, `EnumerationEnds` | 1.3 million |
| machine | six platforms, four kinds of tables, 6000 PCI topologies, six sets of roms | `MemoryOwned`, `TablesRight` (tables and list of roms), `DevicesReachable` | 105,000 |
| services | three jobs and two processors; resets at any step on three kinds of machine; clocks; seven display modes; the modes and VESA calls of five kinds of display; a terminal; four sources of files | `ThreadsSafe`, `BiosIntact`, `TimeKept`, `ScreensRight`, `FilesOwn`, `BootReached` | 149,000 |

One run shows a disagreement between the code and what it says of itself:

| run | property | what happens |
|---|---|---|
| evening | `ClockRight` | `ticks_from_ms` keeps a quotient in 32 bits (hw/timer.c:245): for the milliseconds of a time after 21:50:34 it does not fit, and the clock of a machine switched on then starts hours early, though hw/timer.c:241 says "Return the number of timer irqs in 'ms' number of milliseconds." |

### Bounds

- **Two launches of one machine**: the properties of Lifecycle and Network are
  about pairs of launches. An identity is used again as soon as its processes are
  gone, so any number of launches follow one another. **Two pids**: one for a QEMU and
  one for another process or a second QEMU, each reused without limit; crashes,
  signals and exits are unbounded as well.
- **MaxVersion, MaxClock** (Backup): one write tells two contents of a disk apart,
  three seconds a fresh snapshot from an old one and from a shared one.
- **Two machines, two or three devices** (Passthrough): one shared device, one
  that is not, and for one machine two arguments of one line.
- **MaxXfer 2, three identities, rings of 2 to 4 entries** (drivers): requests of
  several chunks, one too large, indices that wrap, and a late command that meets the
  next request and the one after it. Requests are unbounded.
- **PCI**: nested bridges, root buses, RAM below and above the hole, devices above 4 GB, and
  reservations of every kind: larger, equal, smaller and zero numbers of buses, ports that
  are aligned and that are not.
- **MaxFaults 1** (TPM, USB): one failure at any of its places; with the commands
  after it this reaches every error path.
- **MaxOps, MaxCalls, MaxPrints, MaxBytes, MaxVideo, MaxKeys, MaxMoves, MaxCmds**:
  calls of a guest or of a user in one behaviour; two or more wherever a second call
  meets what the first one left behind. MaxVideo is 2: saving a state, changing the mode
  and restoring the state are three calls and do not follow one another.
- **Buffers, screens, windows, word sizes** are small so that their limits are reached:
  an address is a unit of allocation, a glyph two or four lines, a word 32 ticks.

Symmetry (pids, launches, backup processes) is used where a run has no liveness
property. The theorems below have no bounds at all. Deadlock is checked in the runs
about the scripts, except that pausing behaviours of the firmware end: a guest that
has been booted, or a bound that has been reached, stops it.

### Fairness

- Lifecycle, `FairSpec`: weak fairness of each script that can go on (`BootStep`,
  `RunProgress`, `OnExitStep`), which the host's scheduler provides, and of
  `QemuProgress`: QEMU gets through its start-up or fails, and obeys SIGTERM. Nothing
  is assumed of guests, signals, operators, other processes, or crashes.
- FwDrivers: drivers go on when what they wait for has come or the time limit has
  passed, and devices answer what they have accepted and not lost. `WaitsForEver` names
  the waits without a limit, from which nothing helps a driver when the device has lost
  the command (virtio, pvscsi, esp, lsi) or the port does not stop (ahci after a command
  that failed): `RequestAnswered` leaves a driver that stands there out, and asks an answer
  of all others, and of these whenever the device goes on.
- BootDisks: the scan and the boot go on; every wait of theirs has a limit. UsbEnum: a
  thread that does not wait goes on; transfers and resets have limits.
- Threads: the processor runs, foreign code returns, and the lock of the shared stack
  in handle_smp, a bus lock between pauses, starves no processor (strong fairness).

## 4. Proofs

All theorems are for every value of the constants that meets the named
assumptions, and all are checked by tlapm to the last leaf. `TypeCorrect`,
`NetTypeCorrect` and `PtTypeCorrect` are the type invariants the others start from.

**LifecycleProofs.** `TypeCorrect`, `OneQemu`, `PidfileCorrect`, `OnExitSafe`:
`Spec => []P` for `TypeOK`, `AtMostOneQemu`, `PidfileNamesQemu` and
`OnExitSparesOthers`, for any machines, launches, pids and unit names. None of
the last three is inductive. The invariant `Inv` adds

- `Exclusive`: at most one launch has an active scope under a unit name. This, and
  not the check of boot.real, is why there is one QEMU;
- `Owned`: a launch owns a pid exactly while it has a QEMU, and then one;
- `Phases`: how the processes of a launch follow one another (no on-exit while run
  waits, no QEMU before on_run);
- `NoRunPidfile`: nothing writes `/var/run/qemu/$MACHINE.pid`, so boot.real never
  removes a pidfile;
- `PidsOwn`: what a launch whose QEMU came up finds in `var/pid`, and what its
  on-exit has read there, is its own QEMU's pid or nobody's.

The critical step is `RunQemu`/`QemuInit` of a second launch: by `Exclusive` the
first one has no process left that still could kill or remove by the old pid.

In the same module, about Admin: `ShutdownMissesNone` (`ShutdownComplete`) and `KillComesLast`
(`AskedBeforeKill`), for any list `MachineSeq` that names every machine, and as long as
boot.config is not used beside the other scripts (`NoConfig`: it may remove the pidfile
of a running QEMU, on which all the scripts rely; the run keeps them apart as well). `AdminStepMaps` shows that without it every
step of a script is a step of Lifecycle, so that `Inv` holds and `PidfileNamesQemu` with it.
`AdminInv` adds that a target of the shutdown has been up and does not start again
(`TargetsThere`), and that a target which is still up, at a machine that a pass has
`Visited`, has got the request of that pass or one is under way (`RequestsMade`). The
second half is where the script's times come in: no request is under way in the third pass.

**NetworkProofs.** Every step of Network is one of Lifecycle (`NetStep`, by the way the
module is written), so `NetOneQemu`. `NetTypeCorrect`. `GuestKeepsNetwork`: a running guest keeps its
network devices, for any list of interfaces, if the first 11 characters of the
machine names differ (`PrefixesDiffer`). The invariant is Lifecycle's `Inv` with
`Position` (PRE_CMD waits for a device only at an interface that has one) and
`TapsKept` (a device created by a launch in pre_run or later is still
that launch's). It rests on `NamesDiffer`: two interfaces have different device
names, since NET_INDEX grows with every interface that is not sriov.

`ExitCleans` (`ExitCleansUp`): on-exit stops half-way only when there is nothing to kill,
and no device outlives the processes of its launch. Four more parts: `KillFinds` (what
on-exit reads, and has read, in the pidfile is the pid of its own QEMU while that lives),
`TapsToPost` (the devices are there when POST_CMD comes to remove them, so the line does
not fail), `TapsOwned` (a device belongs to a launch from pre_run until that line and to no
other machine) and `StopsLate`. `OneDevice` is the reason a working line removes all
there is: a line of POST_CMD that works has one command.

**PassthroughProofs.** `LaunchFindsDevices` (`DevicesReady`), under `Orderly`: a careful
operator, no kill in pre_run, no vfio-unbind. The invariant `PtInv` says that only
the launch works on the devices of a machine in pre_run (`Alone`), what vfio-bind
and the tools have done so far (`Progress`, `ToolProgress`), that arguments dealt
with are on vfio-pci (`PassedBound`), that nobody relies on a device being worked
on (`NotReliedOn`), and that an override without its driver is somebody's
unfinished work (`Unfinished`). The last is the heart of it: vfio-bind takes the
override alone for a finished bind, which is right only because of `Unfinished`,
and wrong as soon as a launch can be killed in between.

`PtTypeCorrect` and `RunningKeepsDevices` (`GuestKeepsDevices`) need the careful operator
only: with kills, launches that fail and vfio-unbind a running guest still keeps its devices.
For it `GuestInv` replaces what is lost by `PassedClaimed`: a device dealt with is on vfio-pci
or has the override, which is what vfio-bind looks at before it takes a device away.

**BackupProofs.** `SnapshotsSafe`, `ImagesConsistent`, `RestoresFaithfully`:
`BackupSpec => []P` for `SnapshotsOwn`, `ImageConsistent` and `RestoreFaithful`, for
any number of disks, of backups at a time, of seconds and of writes. The names of
snapshots have the second only, so two backups may mean the same one; the invariant says
how old it can be: `SnapsDated` (a snapshot of this second is not older than the
second's beginning) and `BackupDated` (nor than the beginning of a backup that uses it).
`Removers` says that without a kill somebody will remove each snapshot, `Alone` that
without overlap one backup runs, `ReadRight`, `StoredRight` and `Restored` follow an
image from the snapshot through dd and the store back to the disk. `FormatOf`
carries what a format stands for over a restore, which makes raw files only. The history `taken`
says of each image what disturbed its backup: without that, its content is the one of a moment
of the backup; with it, not older than the second the backup began in. Left out are
empty images (of a full volume group or an overlap) and, of `RestoresFaithfully`, image files that
the guest wrote while they were read: they are torn, and come back torn.

**ServicesProofs.** `BiosStaysIntact` (`BiosIntact`), for every layout of roms and both
builds (`Writable`). Since a reset can come at any step, the invariant is about what the
next reset will find (`FoundRight`: a copy with HaveRunPost = 0 is as in the flash, and a
reset code next to a used copy means there is a guest to go back to) at every place of POST
(`PostRight`) and of a resume (`ResumeRight`). `LockedRight` is about the loop of
make_bios_readonly_intel.

`ClocksKeepTime` (`TimeKept`), for every length of the day and size of the counters,
where a word is a multiple of the hardware counter and the day is even (0x1800b0 ticks),
and for every delay, wait and time of day. The arithmetic is modular (`ModSum`, `Distance`, `Nearer`): a deadline is the distance ahead of the counter, over
midnight and over the wrap of the timer. `TicksKept`, `RtcKept` and `FineKept` are
one part per clock; the user count of the RTC is that of its two users, and the
microseconds left are what was asked less what has been seen.

**DeviceProofs.** `AnswersStayOwn` (`AnswersOwn`), for any keys and moves, commands, refusals
and timeouts. As long as no answer comes late, `OneAnswer` says what is on its way at each
port: nothing but keys and moves (`Quiet`), unless a command waits for that port; then one
acknowledgement, directly followed by the parameters that are due, or a refusal (`AnswerAt`),
and while the parameters are read they are the next bytes (`DataNow`). `IrqOwn` ties a
raised interrupt to the byte in the buffer and keeps interrupts away from a command that
reads: it begins with both off, and yield() serves the earlier ones. `CtrRight` needs
`Sound` (handle_09 turns the keyboard on, which no Ps2ctr with KBDINT forbids).

`TransfersStayClean` (`TransfersClean`), for any length of stack, ring and transfer: what the
device got and gave is what the driver queued, in order and once, whatever is given up in
between, and nothing is left for the controller to fetch afterwards, unless a wait for the controller
itself was given up (`late`: uhci_waittick, ohci_waittick and ehci_waittick have limits of their own,
and the code goes on). It has one argument per controller.
UHCI: the descriptors that are filled in follow one another around the stack and their
toggles alternate (`WindowAt`, `Toggled`), so what is filled in again is never what is still to be
sent. OHCI and EHCI: so many descriptors are done, one may have failed, the others wait
(`ListedTo`). XHCI: the cycle bits say which entries of the ring are still to be executed
(`Laps`, `Pending`), no answer is older than what was executed (`RingAnswered`), and the last
entries are those of the transfer that is waited for (`Queued`). This holds while fewer entries
are owed to transfers that were given up than the ring has (`owed`).

**UsbEnumProofs.** `EnumerationStaysSafe` (`EnumerationSafe`), for any number of controllers,
hubs, ports and devices, addresses of a bus and faults. `EnumAssumption` says what a machine is
(`Wired`): every hub belongs to the controller of its ports, hubs form trees below the
controllers, and a connector belongs to one port or to a root port of EHCI and one of its companion.
The invariant `EnumInv` has these parts:

- `HubsRight`: threads run only below hubs that wait for them, the count of threads is never
  below the threads that run, and above a device that works every hub waits or works;
- `PendingRight`: a companion's ports are looked at after those of all EHCI controllers, so that
  of two ports with one connector one sees the device (`DevicesRight`);
- `LockRight`: the thread between reset and address has `resetlock`, alone on its bus;
- `AddressRight`: what answers on a bus and could be disabled has an address of its own, up to
  `maxaddr`, or is the device of the thread with the lock. This is what a failure in the
  middle of SET_ADDRESS must not break, and why the device is disabled first;
- `PipesRight`: a pipe is on its freelist once, or with one thread or driver, or was given back;
- `ReleaseRight`: what is released is on no schedule and with nobody, and nothing was released
  while threads run;
- `HidRight`: the pipes that are polled belong to devices that work.

The proof looks at what a step may do to one port, its controller and its device (`PortStep`,
with `DevEffect`, `AddrEffect`, `LockEffect`, `PipeEffect`, `HubEffect`, `HidEffect`), shows that such a
step keeps each part for all other ports (`StepKeeps`), and that each action is such a step.
`Takes` is what all operations on a freelist have in common.

**TpmProofs.** `TpmTypes`, `AnswersAreMatched` (`AnswersMatch`), `TheLogReplays`
(`LogReplays`) and `IsMeasuredBeforeRun` (`MeasuredBeforeRun`), in three layers. `TpmInv`
ties where the transmission is to what the device works on (`Shape`, `CmdOf`, `Holds`), from which
an answer is its command's. `LogInv` adds what the log is next to the PCRs: each record
stands where its PCR had got to (`LogOrder`, `LogWhole`), within the area (`LogInArea`), and
a command has had its `Effect` before its record is written. `RunInv` adds that no code runs
before its own measurement (`BeforeRun`). The exception is CRB, whose command goes on
when it was given up: it can be `Straying` into the calls of a guest and the menu only, and
only the first event of a boot can be lost to it.

**Model-checked only.** Liveness (`OrphanReaped`, `Kickstarted`, `RequestAnswered`,
`BootEnds`, `EnumerationEnds`, `BootReached`) is beyond the proof system; so is what
recursive definitions compute for every input, on which FwFiles, FwTables, FwMemory, PciSetup,
OptionRoms, Vga and SerialConsole are built (`FilesOwn`, `TablesRight`, `MemoryOwned`,
`DevicesReachable`, `ScreensRight`).
Within reach, and not done: the drivers (`PromiseKept`, `ResourcesKept`), BootDisks
(`BootOrder`, `DrivesUsable`, `AnswersTrue`), the reports of keyboards (`KeysArrive`),
Threads (`ThreadsSafe`), and `FailuresStay`.

## 5. Observations

Behaviour of the code met while modelling. The models keep it as it is, or the
property that it would break says so.

### Scripts

- on-exit finds a QEMU to end by `var/pid` only (genconfig.sh:126). When a signal ends run
  before its QEMU has written the file, that QEMU stays, and the scope with it, so that the
  machine cannot be started. `OrphanReaped` is about a QEMU that has written it.
- A launch whose QEMU never came up kills whatever has the pid of an earlier launch's file
  (genconfig.sh:130): `OnExitSparesOthers` is about launches whose QEMU did come up.
- lvm-snapshot-lv:20 prints a name though lvcreate failed, dd reads a volume that is not
  there, and the empty stream becomes the last image of the disk (machine-backup:32).
  `ImageConsistent` says when an image is empty, not that none is.
- An image file that is no logical volume is read while the guest writes to it
  (machine-backup:43-45). The stored image may be torn, a mixture of the disk's contents, and is
  restored as it is: `ImageConsistent` and `RestoreFaithful` say nothing of torn images.
- shutdown-ga and shutdown-acpi send their request after 5 seconds to whatever QEMU listens
  on the machine's socket by then, also to one of a later launch.
- bin/machine-pause:37 gives qmp-send a socket path where it wants a machine's name:
  nothing is sent, `var/frozen` is created by the redirection, and the guest runs on
  while machine-pause-running:9 says "Freezing $m".
- `var/pid` survives a crash of the host; when its pid is given to another process,
  shutdown-hard:28 kills that with -9 ("Killing remaining vms",
  machine-shutdown-running:35).
- genconfig.sh:123 puts all entries of POST_CMD on one line: with two interfaces
  (or one of ovs or sriov, which has two entries) it becomes a command that fails, and
  `set -e` ends on-exit before anything is removed.
- A qcow2 image is stored as it is (machine-backup:40), restored as `x.raw`
  (restore-blockdev:26, under "fixme for non raw disks"), and opened with format=raw
  (lib-hdd.sh:117): the guest gets the bytes of the image file.
- Machines whose names agree in the first 11 characters share network devices.
- boot.real:34 makes its check for a running VM only if `/var/run/qemu/$MACHINE.pid`
  exists, which no script writes (update-pid-cpu.sh:29 writes `$MACHINE-qemu.pid`).
  A second boot goes on until systemd-run refuses the unit name.
- wait-for-state has no way out when QEMU does not come up (its test, lines 36-38,
  is commented out): "Machine is down!" of machine-boot-kickstart:46 is not reached.
- machine-state:37 would remove `frozen`, from a directory `$VAR_PATH` that no script sets.
- machine-continue ends with status 1 (line 40 tests for an executable
  `var/frozen`), which ends the kickstart: the lines after it are never run.
- machine-autostart:24 takes any process with the pid in `var/pid` for the VM, so
  after a crash a machine may not be started.
- boot.config:35-40 removes `var/pid` after looking at a pid read earlier; a VM
  that came up meanwhile loses its file.
- genconfig.sh:150 puts all of RUN_PRE_BOOT on one line: with two entries vfio-bind
  takes the word `vfio-bind` for a device and the machine does not start.
- vfio-bind:28 counts the override alone as "allready claimed": after a kill
  between line 47 and line 51 every later launch passes over a device that the
  host's driver has.
- vfio-bind decides at lines 23-31 and unbinds at line 49: of two launches with one
  device at the same time, one takes it from the other (`Careful = FALSE`).
- vfio-unbind:17 writes the override with `echo -e -n ""`, which writes nothing.
- sriov and ovs interfaces register two commands of POST_CMD each, so that on-exit
  of such a machine always stops there.

### Disk drivers

- nvme, megasas, ahci, sdcard and the USB disks do not match a completion to its
  request; after a timeout the next request can be answered by the last one's. ahci
  leaves the command in its slot, usb-msc uses the constant tag 999 and no reset. This is
  why `LateDrivers` names mpt, ata, atapi and floppy only; of these mpt leaves its
  adapter's DMA running into a buffer that was given back.
- virtio, pvscsi, esp and lsi wait for a command without a limit; ahci_command, after a
  command that failed, for PxCMD.CR (hw/ahci.c:177-183). `WaitsForEver` names them.
- Failures taken for success (`FailureOverlooked`): megasas status 0x2d (hw/megasas.c:154),
  pvscsi's scsiStatus (hw/pvscsi.c:205), a usb-msc residue with status 0 (hw/usb-msc.c:110), an
  NVMe status whose type is not generic (hw/nvme.c:88-91). `PromiseKept` allows these and no others.
- sdcard does not look at an error of the data phase; the second read of mpt's reply queue may
  drop a reply; the count of a failed ATA write may include the failed sector.
- Setups that fail half-way (`LeftBehind`): ahci_port_alloc keeps the port and what buffers it
  got (hw/ahci.c:350-357); nothing frees the rings of pvscsi when no drive is found, and
  when memory for them runs out the setup goes on through a null pointer and waits for an answer
  that does not come (hw/pvscsi.c:166-199, 311-315); an NVMe setup that fails frees the admin
  queues with CC.EN set (hw/nvme.c:576-582).
- NVMe: the result of the allocation of dma_buffer is not looked at (hw/nvme.c:284), and
  requests that go through the buffer then go through address 0; nothing checks for a full queue
  (hw/nvme.c:152), so that a controller that has stopped lets it fill.
- The floppy controller is enabled again without a recalibration after a timeout.

### Boot and int 13h

- cdrom.c:228 sets the emulated drive of a CD without emulation while an earlier
  emulation's media stays active.
- disk_1308 counts an emulated hard disk twice, and the count is not restored when the
  emulation ends; it wraps for fewer than two cylinders.
- extended_access checks the first sector only; scsilun2u64 shifts an int by 32 and
  more; get_translation may overflow an int; disk_1349 of a CD does not note its status.
- A drive without memory for its boot entry is silently left out; BEV has 20 places.

### TPM

- With CRB a command that timed out goes on executing, and the start of the next one
  is ignored. tis_activate returns 0 without the locality,
  and the device is not told to be ready (tpm_drivers.c:231-237).
- A full log drops the firmware's measurements silently, and tells the guest only after
  the PCR was extended. A hole in the log is possible. compact_hash logs 4 bytes past its event.
- The result of locking physical presence is ignored; a guest may extend after the
  firmware gave the TPM up; on Xen with a 2.0 nothing is measured.

### USB and input

- usb_enumerate waits for ever if the struct of a port cannot be allocated
  (hw/usb.c:471, the count of threads is already up): `EnumerationEnds` excludes it.
- Two threads can both find keyboard_pipe NULL (hw/usb-hid.c:61) while one of them
  waits for a transfer.
- A device handed over to a companion controller that has ended its detection is lost;
  xhci_hub_disconnect does nothing; the result of usb_hub_disconnect is ignored.
- uhci_waittick, ohci_waittick and ehci_waittick give up after their limits (hw/usb-uhci.c:126,
  hw/usb-ohci.c:135, hw/usb-ehci.c:149-180), and the caller frees what the controller may still hold.
  After that nobody acknowledges EHCI's STS_IAA, so that every later ehci_waittick ends with its limit.
- Ctrl+Pause and Alt+PrintScreen are released by the code of the modifiers of that moment
  (hw/usb-hid.c:258): with Ctrl let go first, Break goes down and Pause comes up
  (kbd.c:414). `KeysFollow` leaves such a key open until it is up.
- xhci_trb_queue does not check for a full ring and keeps the TRBs of transfers that
  were given up; UHCI's toggle is not put right after an error; there is no CLEAR_FEATURE after a
  halt; `! status & OHCI_HCR` negates before it masks.
- hw/ps2port.c:413: handle_09 turns the keyboard on in the middle of a mouse command
  that had it off (:220 "Disable interrupts and keyboard/mouse."), and the next scan code is
  discarded. Keys that arrive while the LEDs are set are discarded as well.
- Releasing one Ctrl or Alt clears the flag though the other is held; a late answer to a
  command that timed out is taken for the next one's, or, once no command waits, for a key
  (ps2port.c:404-410 hands every byte to process_key); setting the LEDs of a USB
  keyboard always fails.

### Memory, tables, PCI, option roms

- A full memory map (32 entries) silently drops ranges; handle_pmm02 may free any
  block; a freed permanent PMM block stays reserved.
- romfile_pointer_list replays in reverse order, and a store that failed is not replayed;
  the loader goes on after a failed allocation and leaves pointers as they are.
- build_fadt leaks one of FADT and FACS when the other finds no memory; "etc/system-states"
  is never freed; the ids of APICs have 8 bits (`TablesRight` is about 255 processors at most);
  build_srat may free a pointer it has moved; the first NUMA node must have 1 MB.
- csm_0005 ignores that rom_reserve fails; the result of rom_confirm is ignored.
- A bus reservation that is not larger than what is used is taken as a bus number
  (fw/pciinit.c:612-638), zero included: numbers are given twice or not forwarded, and
  `DevicesReachable` says nothing of such a machine. An I/O reservation is not aligned (:945, :957): the
  property asks no alignment of ports where one is odd. Regions behind a bridge
  that does not forward their type are mapped from 0.
- A rom that grows over another image's header and fails its checksum would let the scan
  list that image; the model assumes that a rom writes what it grows by.

### Services

- Files: without memory for etc/max-cpus the NUMA files begin at the wrong place;
  img/ files of fw_cfg or multiboot would be taken for files of the flash;
  process_links_file copies more of such a file than there is; the error bit of a fw_cfg
  transfer is ignored; a write to a file of the old interface ignores where it begins;
  a name= of 128 characters is ended one byte too far (fw/multiboot.c).
- Clock: rtc_setup after a time limit clears the periodic interrupt while a wait
  depends on it; handle_1a06 writes back a status it read before it yielded; INT 15h/8301
  within 1586 makes that endless; handle_1a01 accepts a count beyond the day.
- Display: handle_1000 tests "keep the contents" after overwriting it; graphics modes
  ignore the page; several calls move or reshape the drawn cursor without undrawing it;
  stdvga_save leaves the colour page out; 09h and 0Ah past the last row write beyond the page;
  the frame buffer's clear clears the first page only.
- Display modes: vgahw_list_modes lacks an `else`, so that the modes of a Cirrus chip are
  replaced by those of the standard VGA; those of Cirrus are not checked against the memory;
  clext_set_displaystart puts bits 8 to 11 of the start where 16 to 19 belong.
- VESA: 4F04 rounds the size of the state down to units of 64 bytes; 4F01 reports a second
  page where one fits; 4F06 counts lines without regard to planes and ATI takes line and start from
  standard registers, so that a length that wraps to 0 makes 4F06 and 4F07 divide by it; a bank
  that Bochs refuses has been written; coreboot's text console accepts modes it does not list.
- The display of bochs-display and ramfb is not turned on again after S3 (an early return
  for HaveRunInit); restoring the BDA leaves the emulation flag as it was.
- Serial console: a scroll that is owed is missed if the cursor is moved first; scrolling a
  window sends one line feed; characters are dropped after a timeout of the port, and bytes while
  the buffer is full.
- Threads: smp_scan waits for ever for a processor that never comes; wrmsr_smp drops what is
  beyond 32 entries.

## 6. Not modelled

Scripts: the text of QEMU's command line; VPP networking; the disk and file servers of
on_run (a failure of theirs is `RunExit`); input devices; CPU pinning beyond its
effect on the kickstart; shared base images; the backup of the configuration; guest
agent and monitor tools other than those above; reports, host settings, consoles.

Firmware: formatted output, pictures and fonts; register set-up of chipsets and
controllers; AML; CSM; APM, PnP and PCI BIOS calls; of vgasrc geodevga.c and what EDID
blocks contain; the LZMA decoder
and the hash functions; the kconfig of the Linux kernel, build scripts and constants, which
are more than a third of the C lines. Other binaries of the repository (kexts, ROM images).

Assumed: machine names differ in their first 11 characters; pids are not reused
within a clean-up (`Allocatable`); a request that sleeps 5 seconds is sent within
the 10 or 20 that follow (`SdSleep`); a machine is down while it is restored; firmware
threads change places only where the code waits, as stacks.c guarantees.

## 7. Plan

1. Proofs: `ThreadsSafe`; `KeysArrive`; `PromiseKept` of single drivers (virtio,
   NVMe) for every ring length; `FailuresStay`.
2. Disks: units and sockets of run-nbd, run-virtiofsd and run-iscsi-tgt against
   QEMU's start, with failed units that nothing resets.
3. Input: `var/evdev_state` read, modified and written by attach and detach.
4. SharedDisk: copy, rebase and commit of a base image with an interruption.
5. VPP as a mode of Network; S3 resume of the firmware's other parts.
