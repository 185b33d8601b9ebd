----------------------------- MODULE Lifecycle -----------------------------
(***************************************************************************)
(* One launch of a virtual machine, from boot.real to the last line of    *)
(* on-exit, for any number of machines and of concurrent launches.         *)
(*                                                                         *)
(* A launch b is up to four concurrent processes of one machine:           *)
(*   boot[b]    boot.real and, in its foreground, machine-boot-kickstart   *)
(*   run[b]     the generated script "run", put into a systemd scope       *)
(*   qemu[b]    the QEMU process that "run" starts through on-run          *)
(*   onexit[b]  the generated script "on-exit", spawned by run's EXIT trap *)
(* They share the machine's pidfile (var/pid), the process table of the    *)
(* host, the systemd unit name and the QMP socket.                         *)
(*                                                                         *)
(* The content of the generated scripts is a function of the machine's     *)
(* config file, which does not change here.                                *)
(***************************************************************************)

CONSTANTS
    Machines,    \* directories of /srv/kvm/vms
    Boots,       \* identities of launches; an identity is used again once all its processes are gone
    MachineOf,   \* the machine that a launch boots
    Unit,        \* name of the machine's systemd scope (first "-" replaced by "__")
    Pids,        \* process ids of the host
    NoPid,       \* no file, or an unset shell variable
    Free, Other  \* process table: no such process, a process that is not a QEMU

ASSUME MachineOfType == MachineOf \in [Boots -> Machines]
ASSUME UnitType      == DOMAIN Unit = Machines
ASSUME NoPidIsNoPid  == NoPid \notin Pids
ASSUME OwnersDiffer  == Free \notin Boots /\ Other \notin Boots /\ Free # Other

VARIABLES
    boot,     \* boot.real / machine-boot-kickstart, by the next thing it does
    run,      \* the run script
    qemu,     \* the QEMU process, by its QMP run state
    onexit,   \* the on-exit script
    exitp,    \* on-exit's shell variable p
    proc,     \* process table: which QEMU, if any, has the pid
    pidfile,  \* content of var/pid
    varrun,   \* files of /var/run/qemu
    wrote     \* history: the launches whose QEMU wrote its pidfile while run waited for it

bootVars == <<boot, varrun>>
runVars  == <<run, onexit, exitp>>
qemuVars == <<qemu, proc, pidfile, wrote>>
vars     == <<boot, run, qemu, onexit, exitp, proc, pidfile, varrun, wrote>>

-----------------------------------------------------------------------------
(* What the scripts can see of the machine. *)

BootPhases == {"idle", "check", "gen", "launch", "state", "waitpre", "pin", "cont"}
RunPhases  == {"none", "queued", "pre", "svc", "wait"}
QemuPhases == {"none", "starting", "prelaunch", "running", "paused", "term"}
ExitPhases == {"none", "post", "check", "test", "kill", "rm", "aborted"}

\* QMP answers query-status with one of these; SIGTERM has not reached the process.
Answers == {"prelaunch", "running", "paused"}

Launches(m) == {b \in Boots : MachineOf[b] = m}

\* [ -e /proc/$p ]
Exists(p) == p \in Pids /\ proc[p] # Free

\* [ -e var/pid ] and [ -e /proc/$(cat var/pid) ]: the liveness test of every script
PidLive(m) == pidfile[m] # NoPid /\ Exists(pidfile[m])

\* Broken variant: the unit is gone as soon as both scripts are, with QEMU still there.
ScopeWithoutQemu(b) ==
    run[b] \in {"pre", "svc", "wait"} \/ onexit[b] \notin {"none", "aborted"}

\* Broken variant: on-exit is not part of the unit.
ScopeWithoutOnExit(b) == run[b] \in {"pre", "svc", "wait"} \/ qemu[b] # "none"

\* The unit exists as long as some process of the scope does.
ScopeActive(b) ==
    \/ run[b] \in {"pre", "svc", "wait"}
    \/ qemu[b] # "none"
    \/ onexit[b] \notin {"none", "aborted"}

ScopeFree(u) == \A b \in Boots : Unit[MachineOf[b]] = u => ~ScopeActive(b)

\* qmp-status: the run state, or null when no QEMU of the machine answers
QmpStatus(m) ==
    IF \E b \in Launches(m) : qemu[b] \in Answers
    THEN qemu[CHOOSE b \in Launches(m) : qemu[b] \in Answers]
    ELSE "null"

\* The commands that change the run state of a QEMU that answers
AfterCommand(state, cmd) ==
    IF cmd = "cont" THEN "running"
    ELSE IF cmd = "stop" /\ state = "running" THEN "paused" ELSE state

\* qmp-send: name must be the name of a machine, else the script exits before
\* it opens a socket.
QmpSend(name, cmd) ==
    qemu' = [b \in Boots |->
        IF name \in Machines /\ MachineOf[b] = name /\ qemu[b] \in Answers
        THEN AfterCommand(qemu[b], cmd) ELSE qemu[b]]

\* The kernel hands pids out cyclically: a pid is not used again while the
\* scope that knew it is still cleaning up, but may be at any later time.
Allocatable(p) ==
    /\ proc[p] = Free
    /\ \A b \in Boots : exitp[b] # p /\ (ScopeActive(b) => pidfile[MachineOf[b]] # p)

Init ==
    /\ boot = [b \in Boots |-> "idle"]
    /\ run = [b \in Boots |-> "none"]
    /\ qemu = [b \in Boots |-> "none"]
    /\ onexit = [b \in Boots |-> "none"]
    /\ exitp = [b \in Boots |-> NoPid]
    /\ proc = [p \in Pids |-> Free]
    /\ pidfile = [m \in Machines |-> NoPid]
    /\ varrun = {}
    /\ wrote = {}

-----------------------------------------------------------------------------
(* boot.real, then machine-boot-kickstart in its foreground *)

\* The machine is named, exists and has a config: boot.real goes on to its pid check.
BootStart(b) ==
    /\ boot[b] = "idle" /\ run[b] = "none" /\ ~ScopeActive(b)
    /\ boot' = [boot EXCEPT ![b] = "check"]
    /\ onexit' = [onexit EXCEPT ![b] = "none"]
    /\ UNCHANGED <<run, exitp, qemuVars, varrun>>

\* The pid check is made only when /var/run/qemu/$MACHINE.pid exists. Then a live pid
\* ends the boot with status 4, and a stale pidfile is removed.
BootCheck(b) ==
    LET m == MachineOf[b]
        guarded == <<m, "pid">> \in varrun
    IN  /\ boot[b] = "check"
        /\ boot' = [boot EXCEPT ![b] = IF guarded /\ (pidfile[m] = NoPid \/ PidLive(m))
                                       THEN "idle" ELSE "gen"]
        /\ pidfile' = [pidfile EXCEPT ![m] = IF guarded /\ ~PidLive(m) THEN NoPid ELSE @]
        /\ UNCHANGED <<runVars, qemu, proc, wrote, varrun>>

\* genconfig.sh writes bootup.env, run, on-run and on-exit. It may fail under set -e,
\* and JUST_GEN ends the boot here.
GenConfig(b) ==
    /\ boot[b] = "gen"
    /\ \E next \in {"launch", "idle"} : boot' = [boot EXCEPT ![b] = next]
    /\ UNCHANGED <<runVars, qemuVars, varrun>>

\* run-clover.sh puts systemd-run into the background and starts the kickstart.
Launch(b) ==
    /\ boot[b] = "launch"
    /\ boot' = [boot EXCEPT ![b] = "state"]
    /\ run' = [run EXCEPT ![b] = "queued"]
    /\ UNCHANGED <<onexit, exitp, qemuVars, varrun>>

\* "Machine allready running" ends the kickstart, and boot.real with it. A monitor that
\* serves another client, or sends an event first, reads as null.
KickState(b) ==
    /\ boot[b] = "state"
    /\ \E s \in {QmpStatus(MachineOf[b]), "null"} :
          boot' = [boot EXCEPT ![b] = IF s = "running" THEN "idle" ELSE "waitpre"]
    /\ UNCHANGED <<runVars, qemuVars, varrun>>

\* Broken variant: waits for the state that only its own machine-continue brings about.
KickWaitRunning(b) ==
    /\ boot[b] = "waitpre"
    /\ QmpStatus(MachineOf[b]) = "running"
    /\ boot' = [boot EXCEPT ![b] = "pin"]
    /\ UNCHANGED <<runVars, qemuVars, varrun>>

\* wait-for-state polls until the status is the wanted one; no other exit.
KickWait(b) ==
    /\ boot[b] = "waitpre"
    /\ QmpStatus(MachineOf[b]) = "prelaunch"
    /\ boot' = [boot EXCEPT ![b] = "pin"]
    /\ UNCHANGED <<runVars, qemuVars, varrun>>


\* QMP_CMD of bootup.env: none of them changes the run state, and qmp-send ends with the
\* status of jq, which is 0 for a dead socket as well. Then update-pid-cpu.sh: without a
\* pidfile its cat fails and set -e ends both scripts.
KickPin(b) ==
    LET m == MachineOf[b]
    IN  /\ boot[b] = "pin"
        /\ boot' = [boot EXCEPT ![b] = IF pidfile[m] = NoPid THEN "idle" ELSE "cont"]
        /\ varrun' = varrun \cup (IF pidfile[m] = NoPid THEN {} ELSE {<<m, "qemu.pid">>})
        /\ UNCHANGED <<runVars, qemuVars>>

\* machine-continue. Its last command tests for an executable var/frozen, which no
\* script creates, so it ends with status 1 and set -e ends the kickstart and
\* boot.real: the commands after it are not reached.
KickCont(b) ==
    /\ boot[b] = "cont"
    /\ QmpSend(MachineOf[b], "cont")
    /\ boot' = [boot EXCEPT ![b] = "idle"]
    /\ UNCHANGED <<runVars, proc, pidfile, wrote, varrun>>

-----------------------------------------------------------------------------
(* The run script and on-exit, in the scope *)

\* systemd-run refuses a unit name that is in use.
ScopeStart(b) ==
    /\ run[b] = "queued"
    /\ run' = [run EXCEPT ![b] = IF ScopeFree(Unit[MachineOf[b]]) THEN "pre" ELSE "none"]
    /\ wrote' = wrote \ {b}
    /\ UNCHANGED <<bootVars, onexit, exitp, qemu, proc, pidfile>>

\* pre_run: RUN_PRE_BOOT, then PRE_CMD
RunPre(b) ==
    /\ run[b] = "pre"
    /\ run' = [run EXCEPT ![b] = "svc"]
    /\ UNCHANGED <<bootVars, onexit, exitp, qemuVars>>

\* on_run: the disk and file servers are started, then QEMU in the foreground.
RunQemu(b) ==
    /\ run[b] = "svc"
    /\ \E p \in Pids : Allocatable(p) /\ proc' = [proc EXCEPT ![p] = b]
    /\ run' = [run EXCEPT ![b] = "wait"]
    /\ qemu' = [qemu EXCEPT ![b] = "starting"]
    /\ UNCHANGED <<bootVars, onexit, exitp, pidfile, wrote>>

\* The EXIT trap: a command failed (set -e), the script got a signal, or QEMU
\* returned. QEMU may still be alive after a signal.
RunExit(b) ==
    /\ run[b] \in {"pre", "svc", "wait"}
    /\ run' = [run EXCEPT ![b] = "none"]
    /\ onexit' = [onexit EXCEPT ![b] = "post"]
    /\ UNCHANGED <<bootVars, exitp, qemuVars>>

\* POST_CMD, all of it on one line, and hugepages_free.sh; set -e ends on-exit when it fails.
OnExitPost(b) ==
    /\ onexit[b] = "post"
    /\ \E next \in {"check", "aborted"} : onexit' = [onexit EXCEPT ![b] = next]
    /\ UNCHANGED <<bootVars, run, exitp, qemuVars>>

\* [[ -e var/pid ]] and p=$(cat var/pid)
OnExitRead(b) ==
    LET p == pidfile[MachineOf[b]]
    IN  /\ onexit[b] = "check"
        /\ exitp' = [exitp EXCEPT ![b] = p]
        /\ onexit' = [onexit EXCEPT ![b] = IF p = NoPid THEN "none" ELSE "test"]
        /\ UNCHANGED <<bootVars, run, qemuVars>>

\* Broken variant: the pidfile is removed without a look at the process.
OnExitTestNever(b) ==
    /\ onexit[b] = "test"
    /\ onexit' = [onexit EXCEPT ![b] = "rm"]
    /\ UNCHANGED <<bootVars, run, exitp, qemuVars>>

\* [ -e /proc/$p ]
OnExitTest(b) ==
    /\ onexit[b] = "test"
    /\ onexit' = [onexit EXCEPT ![b] = IF Exists(exitp[b]) THEN "kill" ELSE "rm"]
    /\ UNCHANGED <<bootVars, run, exitp, qemuVars>>

\* kill $p: SIGTERM makes a QEMU shut down and ends another process; with no such
\* process kill fails and set -e ends on-exit.
OnExitKill(b) ==
    LET p == exitp[b]
    IN  /\ onexit[b] = "kill"
        /\ qemu' = [c \in Boots |-> IF proc[p] = c THEN "term" ELSE qemu[c]]
        /\ proc' = [proc EXCEPT ![p] = IF @ = Other THEN Free ELSE @]
        /\ onexit' = [onexit EXCEPT ![b] = IF Exists(p) THEN "rm" ELSE "aborted"]
        /\ exitp' = [exitp EXCEPT ![b] = IF Exists(p) THEN @ ELSE NoPid]
        /\ UNCHANGED <<bootVars, run, pidfile, wrote>>

\* rm var/pid, whatever it holds by now
OnExitRm(b) ==
    /\ onexit[b] = "rm"
    /\ pidfile' = [pidfile EXCEPT ![MachineOf[b]] = NoPid]
    /\ exitp' = [exitp EXCEPT ![b] = NoPid]
    /\ onexit' = [onexit EXCEPT ![b] = "none"]
    /\ UNCHANGED <<bootVars, run, qemu, proc, wrote>>

-----------------------------------------------------------------------------
(* QEMU, the other processes of the host, and the host: external *)

\* QEMU -S -pidfile var/pid: truncates and writes the file, then waits in prelaunch.
QemuInit(b) ==
    /\ qemu[b] = "starting"
    /\ \E p \in Pids : proc[p] = b /\ pidfile' = [pidfile EXCEPT ![MachineOf[b]] = p]
    /\ qemu' = [qemu EXCEPT ![b] = "prelaunch"]
    /\ wrote' = IF run[b] = "wait" THEN wrote \cup {b} ELSE wrote
    /\ UNCHANGED <<bootVars, runVars, proc>>

\* QEMU ends: guest shutdown, failure, a signal. Some versions unlink their pidfile.
QemuExit(b) ==
    LET m == MachineOf[b]
    IN  /\ qemu[b] # "none"
        /\ qemu' = [qemu EXCEPT ![b] = "none"]
        /\ proc' = [p \in Pids |-> IF proc[p] = b THEN Free ELSE proc[p]]
        /\ \/ pidfile' = pidfile
           \/ /\ pidfile[m] # NoPid
              /\ proc[pidfile[m]] = b
              /\ pidfile' = [pidfile EXCEPT ![m] = NoPid]
        /\ UNCHANGED <<bootVars, runVars, wrote>>

\* machine-continue, given by an operator or by machine-continue-frozen
MachineContinue(m) ==
    /\ QmpSend(m, "cont")
    /\ UNCHANGED <<bootVars, runVars, proc, pidfile, wrote>>

\* shutdown-hard: kill -9 $(cat var/pid), with no look at /proc
ShutdownHard(m) ==
    LET p == pidfile[m]
    IN  /\ p # NoPid
        /\ qemu' = [b \in Boots |-> IF proc[p] = b THEN "none" ELSE qemu[b]]
        /\ proc' = [proc EXCEPT ![p] = Free]
        /\ UNCHANGED <<bootVars, runVars, pidfile, wrote>>

OtherStart(p) ==
    /\ Allocatable(p)
    /\ proc' = [proc EXCEPT ![p] = Other]
    /\ UNCHANGED <<bootVars, runVars, qemu, pidfile, wrote>>

OtherExit(p) ==
    /\ proc[p] = Other
    /\ proc' = [proc EXCEPT ![p] = Free]
    /\ UNCHANGED <<bootVars, runVars, qemu, pidfile, wrote>>

\* Every process is gone and /var/run is empty; /srv/kvm/vms keeps the pidfiles.
Crash ==
    /\ boot' = [b \in Boots |-> "idle"]
    /\ run' = [b \in Boots |-> "none"]
    /\ qemu' = [b \in Boots |-> "none"]
    /\ onexit' = [b \in Boots |-> "none"]
    /\ exitp' = [b \in Boots |-> NoPid]
    /\ proc' = [p \in Pids |-> Free]
    /\ wrote' = {}
    /\ varrun' = {}
    /\ UNCHANGED pidfile

-----------------------------------------------------------------------------
BootStep(b) ==
    \/ BootCheck(b) \/ GenConfig(b) \/ Launch(b)
    \/ KickState(b) \/ KickWait(b) \/ KickPin(b) \/ KickCont(b)

RunStep(b) == ScopeStart(b) \/ RunPre(b) \/ RunQemu(b) \/ RunExit(b)

OnExitStep(b) ==
    OnExitPost(b) \/ OnExitRead(b) \/ OnExitTest(b) \/ OnExitKill(b) \/ OnExitRm(b)

\* What happens on a host that is up
HostStep ==
    \/ \E b \in Boots : BootStart(b) \/ BootStep(b) \/ RunStep(b) \/ OnExitStep(b)
    \/ \E b \in Boots : QemuInit(b) \/ QemuExit(b)
    \/ \E m \in Machines : MachineContinue(m) \/ ShutdownHard(m)
    \/ \E p \in Pids : OtherStart(p) \/ OtherExit(p)

Next == HostStep \/ Crash

Spec == Init /\ [][Next]_vars

(***************************************************************************)
(* Fairness. A script that can go on does; the scheduler of the host gives *)
(* no more. QEMU gets through its start-up or fails, and obeys SIGTERM.    *)
(* Nothing makes a guest shut down, a signal arrive, an operator boot a    *)
(* machine or kill it, another process start, or the host crash.           *)
(***************************************************************************)
RunProgress(b) ==
    \/ ScopeStart(b) \/ RunPre(b) \/ RunQemu(b)
    \/ qemu[b] = "none" /\ RunExit(b)

QemuProgress(b) ==
    \/ QemuInit(b)
    \/ qemu[b] \in {"starting", "term"} /\ QemuExit(b)

Fairness ==
    \A b \in Boots : /\ WF_vars(BootStep(b)) /\ WF_vars(RunProgress(b))
                     /\ WF_vars(OnExitStep(b)) /\ WF_vars(QemuProgress(b))

FairSpec == Spec /\ Fairness

-----------------------------------------------------------------------------
(* Properties *)

\* Every variable has its type: pidfile and p hold pids, a pid has one owner.
TypeOK ==
    /\ boot \in [Boots -> BootPhases]
    /\ run \in [Boots -> RunPhases]
    /\ qemu \in [Boots -> QemuPhases]
    /\ onexit \in [Boots -> ExitPhases]
    /\ exitp \in [Boots -> Pids \cup {NoPid}]
    /\ proc \in [Pids -> Boots \cup {Free, Other}]
    /\ pidfile \in [Machines -> Pids \cup {NoPid}]
    /\ varrun \subseteq Machines \X {"pid", "qemu.pid"}
    /\ wrote \subseteq Boots

\* A machine never has two QEMU processes, whatever launches, signals and crashes
\* come together. boot.real's own check never fires: the systemd scope of
\* run-clover.sh:17 is what keeps a second launch out, and it has to outlive the
\* run script while on-exit or a QEMU that survived it is still there.
AtMostOneQemu ==
    \A b, c \in Boots :
        MachineOf[b] = MachineOf[c] /\ qemu[b] # "none" /\ qemu[c] # "none" => b = c

\* As long as its run script waits for it, a QEMU that answers is the process var/pid
\* names: the test all the scripts make (machine-is-running, machine-list-running,
\* machine-shutdown-running, machine-autostart) finds it. No earlier launch's on-exit
\* may still be about to remove the file.
PidfileNamesQemu ==
    \A b \in Boots :
        run[b] = "wait" /\ qemu[b] \in Answers =>
            pidfile[MachineOf[b]] # NoPid /\ proc[pidfile[MachineOf[b]]] = b

\* When on-exit is about to kill the pid it read (genconfig.sh:130), and the launch it
\* cleans up after did get a QEMU up, the pid is that QEMU's or nobody's: never that of
\* another machine, of a later launch of this machine, or of another program.
OnExitSparesOthers ==
    \A b \in Boots :
        onexit[b] = "kill" /\ b \in wrote => proc[exitp[b]] \in {b, Free}

\* A QEMU that had written its pidfile while run waited for it, and outlives run
\* (genconfig.sh:126-131 is there for it), is ended by on-exit, unless on-exit itself stops
\* in POST_CMD or hugepages_free.sh. A QEMU whose run is ended by a signal before it has
\* written the file is not: on-exit finds no file (genconfig.sh:126), ends, and leaves it
\* running.
OrphanReaped ==
    \A b \in Boots :
        onexit[b] = "post" /\ b \in wrote ~> qemu[b] = "none" \/ onexit[b] = "aborted"

\* A QEMU started with -S does not stay in prelaunch while the kickstart of its own
\* launch is still to come to it (machine-boot-kickstart:45-61).
Kickstarted ==
    \A b \in Boots :
        (qemu[b] = "prelaunch" /\ run[b] = "wait" /\ boot[b] \in {"waitpre", "pin", "cont"})
            ~> (qemu[b] # "prelaunch" \/ run[b] # "wait")
=============================================================================
