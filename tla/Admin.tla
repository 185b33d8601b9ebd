------------------------------- MODULE Admin -------------------------------
(***************************************************************************)
(* The scripts an operator, or the host when it boots or shuts down, runs  *)
(* beside the launches of Lifecycle:                                       *)
(*   machine-shutdown-running with shutdown-ga, shutdown-acpi and          *)
(*   shutdown-hard, machine-autostart, machine-pause-running and           *)
(*   machine-continue-frozen, boot.config.                                 *)
(* They know the machines only by var/pid, /proc and var/frozen.           *)
(***************************************************************************)
EXTENDS Lifecycle, Naturals, Sequences

CONSTANTS
    MachineSeq,  \* /srv/kvm/vms/* in the order of the shell's glob
    Autostart,   \* the lines of /srv/kvm/vms/autostart
    Commands     \* the scripts that are used in an instance

ASSUME MachineSeqType == /\ MachineSeq \in Seq(Machines)
                         /\ \A m \in Machines : \E i \in 1..Len(MachineSeq) : MachineSeq[i] = m
ASSUME AutostartType  == Autostart \in Seq(Machines)
ASSUME SocketNames    == \A m \in Machines : <<m, "control">> \notin Machines  \* a path is no name
ASSUME CommandsType   == Commands \subseteq {"shutdown-running", "autostart", "pause", "boot.config"}

VARIABLES
    sd,       \* machine-shutdown-running: <<pass, position in MachineSeq>>; pass 0 when it
              \* is not running, pass 4 while the third loop is in shutdown-hard
    late,     \* the shutdown-ga and shutdown-acpi it has put into the background
    auto,     \* machine-autostart: its line, 0 when it is not running
    frozen,   \* the machines that have a file var/frozen
    cfg,      \* boot.config: <<machine, p>> between its cat and its rm, else <<>>
    targets,  \* history: the QEMUs that were up when machine-shutdown-running started
    asked     \* history: <<launch, request>>: the QEMU was sent the request

scripts   == <<sd, late, auto, frozen, cfg>>
history   == <<targets, asked>>
adminVars == <<vars, scripts, history>>

Requests == {"ga", "acpi"}

\* A QEMU that answers and whose run script waits for it
Up(b) == run[b] = "wait" /\ qemu[b] \in Answers

\* History follows the process: a launch whose QEMU is gone is forgotten.
Forget ==
    /\ targets' = {b \in targets : qemu'[b] # "none"}
    /\ asked' = {a \in asked : qemu'[a[1]] # "none"}

AdminInit ==
    /\ Init
    /\ sd = <<0, 1>>
    /\ late = {}
    /\ auto = 0
    /\ frozen = {}
    /\ cfg = <<>>
    /\ targets = {}
    /\ asked = {}

-----------------------------------------------------------------------------
(* machine-shutdown-running *)

SdStart ==
    /\ "shutdown-running" \in Commands
    /\ sd[1] = 0
    /\ sd' = <<1, 1>>
    /\ targets' = {b \in Boots : Up(b)}
    /\ UNCHANGED <<vars, late, auto, frozen, cfg, asked>>

\* Broken variant: the test of autoshutdown, which skips the machines that are alive.
SdVisitInverted ==
    LET m == MachineSeq[sd[2]]
    IN  /\ sd[1] \in 1..3 /\ sd[2] <= Len(MachineSeq)
        /\ late' = IF ~PidLive(m) /\ sd[1] < 3
                   THEN late \cup {<<IF sd[1] = 1 THEN "ga" ELSE "acpi", m>>} ELSE late
        /\ sd' = IF ~PidLive(m) /\ sd[1] = 3 THEN <<4, sd[2]>> ELSE <<sd[1], sd[2] + 1>>
        /\ UNCHANGED <<vars, auto, frozen, cfg, history>>

\* One turn of one of the three loops. A live pid gets shutdown-ga (pass 1) or
\* shutdown-acpi (pass 2) in the background, or shutdown-hard in the foreground (pass 3).
SdVisit ==
    LET m == MachineSeq[sd[2]]
    IN  /\ sd[1] \in 1..3 /\ sd[2] <= Len(MachineSeq)
        /\ late' = IF PidLive(m) /\ sd[1] < 3
                   THEN late \cup {<<IF sd[1] = 1 THEN "ga" ELSE "acpi", m>>} ELSE late
        /\ sd' = IF PidLive(m) /\ sd[1] = 3 THEN <<4, sd[2]>> ELSE <<sd[1], sd[2] + 1>>
        /\ UNCHANGED <<vars, auto, frozen, cfg, history>>

\* shutdown-hard reads var/pid again; without the file its kill has no argument.
SdHard ==
    LET m == MachineSeq[sd[2]]
    IN  /\ sd[1] = 4
        /\ IF pidfile[m] = NoPid THEN UNCHANGED vars ELSE ShutdownHard(m)
        /\ sd' = <<3, sd[2] + 1>>
        /\ Forget
        /\ UNCHANGED <<late, auto, frozen, cfg>>

\* Broken variant: no sleep between the passes.
SdSleepNot ==
    /\ sd[1] \in 1..3 /\ sd[2] > Len(MachineSeq)
    /\ sd' = <<(sd[1] + 1) % 4, 1>>
    /\ UNCHANGED <<vars, late, auto, frozen, cfg, history>>

\* The sleep of 10 or 20 seconds after a pass is longer than the 5 seconds a request
\* sleeps before it is sent: no request of the pass is still to be sent afterwards.
SdSleep ==
    /\ sd[1] \in 1..3 /\ sd[2] > Len(MachineSeq)
    /\ late = {}
    /\ sd' = <<(sd[1] + 1) % 4, 1>>
    /\ UNCHANGED <<vars, late, auto, frozen, cfg, history>>

\* shutdown-ga and shutdown-acpi: after its sleep the request goes to whatever QEMU the
\* machine has by then. The guest may follow it (QemuExit) or not.
LateSend(r, m) ==
    /\ <<r, m>> \in late
    /\ late' = late \ {<<r, m>>}
    /\ asked' = asked \cup {<<b, r>> : b \in {c \in Launches(m) : qemu[c] \in Answers}}
    /\ UNCHANGED <<vars, sd, auto, frozen, cfg, targets>>

-----------------------------------------------------------------------------
(* machine-autostart *)

AutoStart ==
    /\ "autostart" \in Commands
    /\ auto = 0 /\ Len(Autostart) > 0
    /\ auto' = 1
    /\ UNCHANGED <<vars, sd, late, frozen, cfg, history>>

NextLine == IF auto = Len(Autostart) THEN 0 ELSE auto + 1

\* No pidfile (pid=-1) or no such process: boot.real in the background
AutoBoot(b) ==
    /\ auto # 0 /\ MachineOf[b] = Autostart[auto]
    /\ ~PidLive(Autostart[auto])
    /\ BootStart(b)
    /\ auto' = NextLine
    /\ Forget
    /\ UNCHANGED <<sd, late, frozen, cfg>>

\* "allready running"
AutoSkip ==
    /\ auto # 0
    /\ PidLive(Autostart[auto])
    /\ auto' = NextLine
    /\ UNCHANGED <<vars, sd, late, frozen, cfg, history>>

-----------------------------------------------------------------------------
(* machine-pause-running, machine-continue-frozen *)

\* machine-pause gives qmp-send the path of a socket where it expects a machine's name;
\* the redirection creates var/frozen all the same.
MachinePause(m) ==
    /\ "pause" \in Commands
    /\ PidLive(m)
    /\ QmpSend(<<m, "control">>, "stop")
    /\ frozen' = frozen \cup {m}
    /\ Forget
    /\ UNCHANGED <<bootVars, runVars, proc, pidfile, wrote, sd, late, auto, cfg>>

\* machine-list-frozen lists a frozen machine that is alive; machine-continue would
\* remove var/frozen only if it were executable.
ContinueFrozen(m) ==
    /\ m \in frozen /\ PidLive(m)
    /\ MachineContinue(m)
    /\ Forget
    /\ UNCHANGED scripts

-----------------------------------------------------------------------------
(* boot.config: the pid check that boot.real means to make, then genconfig.sh *)

CfgRead(m) ==
    /\ "boot.config" \in Commands
    /\ cfg = <<>> /\ pidfile[m] # NoPid
    /\ cfg' = <<m, pidfile[m]>>
    /\ UNCHANGED <<vars, sd, late, auto, frozen, history>>

\* "VM allready running", exit 4
CfgRefuse ==
    /\ cfg # <<>> /\ Exists(cfg[2])
    /\ cfg' = <<>>
    /\ UNCHANGED <<vars, sd, late, auto, frozen, history>>

\* [ -e /proc/$p ] fails, then rm var/pid: two commands, and the file may have been
\* written between cat and rm.
CfgRm ==
    /\ cfg # <<>> /\ ~Exists(cfg[2])
    /\ pidfile' = [pidfile EXCEPT ![cfg[1]] = NoPid]
    /\ cfg' = <<>>
    /\ UNCHANGED <<bootVars, runVars, qemu, proc, wrote, sd, late, auto, frozen, history>>

-----------------------------------------------------------------------------
AdminCrash ==
    /\ Crash
    /\ sd' = <<0, 1>> /\ late' = {} /\ auto' = 0 /\ cfg' = <<>>
    /\ Forget
    /\ UNCHANGED frozen

AdminStep ==
    \/ SdStart \/ SdVisit \/ SdHard \/ SdSleep
    \/ \E m \in Machines : \E r \in Requests : LateSend(r, m)
    \/ AutoStart \/ AutoSkip \/ \E b \in Boots : AutoBoot(b)
    \/ \E m \in Machines : MachinePause(m) \/ ContinueFrozen(m)

CfgStep == CfgRefuse \/ CfgRm \/ \E m \in Machines : CfgRead(m)

AdminNext ==
    \/ HostStep /\ Forget /\ UNCHANGED scripts
    \/ AdminStep
    \/ CfgStep
    \/ AdminCrash

AdminSpec == AdminInit /\ [][AdminNext]_adminVars

-----------------------------------------------------------------------------
(* Properties *)

\* The third loop of machine-shutdown-running has been at the machine.
Passed(m) == sd[1] \in {3, 4} /\ \E i \in 1..(sd[2] - 1) : MachineSeq[i] = m

\* machine-shutdown-running:36-48 leaves none of the VMs behind that were up when it
\* started, whatever boots, exits and signals come in between: once the third loop
\* has been at a machine, none of them is up (one may still be dying of SIGTERM).
ShutdownComplete ==
    \A b \in targets : Passed(MachineOf[b]) => ~Up(b)

\* It kills none of those VMs with kill -9 that it has not asked to shut down before,
\* through the guest agent and through ACPI (machine-shutdown-running:10,27).
AskedBeforeKill ==
    [][\A b \in targets :
         sd[1] = 4 /\ sd'[1] = 3 /\ Up(b) /\ qemu'[b] = "none" =>
             {<<b, "ga">>, <<b, "acpi">>} \subseteq asked]_adminVars
=============================================================================
