-------------------------- MODULE LifecycleProofs --------------------------
(***************************************************************************)
(* Proofs about Lifecycle, for every set of machines, launches and pids,   *)
(* every assignment of unit names, and any number of crashes. And about    *)
(* the operator's scripts of Admin.                                        *)
(***************************************************************************)
EXTENDS Lifecycle, Admin, TLAPS

USE DEF bootVars, runVars, qemuVars, vars

\* TypeOK is kept by every step of the scripts, of QEMU and of the host.
LEMMA TypeStep == TypeOK /\ [Next]_vars => TypeOK'
<1> SUFFICES ASSUME TypeOK, [Next]_vars PROVE TypeOK'
  OBVIOUS
<1> USE MachineOfType DEF TypeOK, BootPhases, RunPhases, QemuPhases, ExitPhases
<1>1. ASSUME NEW b \in Boots, BootStart(b) PROVE TypeOK'
  BY <1>1 DEF BootStart
<1>2. ASSUME NEW b \in Boots, BootStep(b) PROVE TypeOK'
  <2>1. CASE BootCheck(b)
    BY <2>1 DEF BootCheck
  <2>2. CASE GenConfig(b)
    BY <2>2 DEF GenConfig
  <2>3. CASE Launch(b)
    BY <2>3 DEF Launch
  <2>4. CASE KickState(b)
    BY <2>4 DEF KickState
  <2>5. CASE KickWait(b)
    BY <2>5 DEF KickWait
  <2>6. CASE KickPin(b)
    BY <2>6 DEF KickPin
  <2>7. CASE KickCont(b)
    BY <2>7 DEF KickCont, QmpSend, AfterCommand
  <2> QED
    BY <1>2, <2>1, <2>2, <2>3, <2>4, <2>5, <2>6, <2>7 DEF BootStep
<1>3. ASSUME NEW b \in Boots, RunStep(b) PROVE TypeOK'
  BY <1>3 DEF RunStep, ScopeStart, RunPre, RunQemu, RunExit
<1>4. ASSUME NEW b \in Boots, OnExitStep(b) PROVE TypeOK'
  <2>1. CASE OnExitPost(b)
    BY <2>1 DEF OnExitPost
  <2>2. CASE OnExitRead(b)
    BY <2>2 DEF OnExitRead
  <2>3. CASE OnExitTest(b)
    BY <2>3 DEF OnExitTest
  <2>4. CASE OnExitKill(b)
    BY <2>4 DEF OnExitKill
  <2>5. CASE OnExitRm(b)
    BY <2>5 DEF OnExitRm
  <2> QED
    BY <1>4, <2>1, <2>2, <2>3, <2>4, <2>5 DEF OnExitStep
<1>5. ASSUME NEW b \in Boots, QemuInit(b) \/ QemuExit(b) PROVE TypeOK'
  <2>1. CASE QemuInit(b)
    BY <2>1 DEF QemuInit
  <2>2. CASE QemuExit(b)
    BY <2>2 DEF QemuExit
  <2> QED
    BY <1>5, <2>1, <2>2
<1>6. ASSUME NEW m \in Machines, MachineContinue(m) \/ ShutdownHard(m) PROVE TypeOK'
  BY <1>6 DEF MachineContinue, QmpSend, AfterCommand, ShutdownHard
<1>7. ASSUME NEW p \in Pids, OtherStart(p) \/ OtherExit(p) PROVE TypeOK'
  BY <1>7 DEF OtherStart, OtherExit
<1>8. CASE Crash
  BY <1>8 DEF Crash
<1>9. CASE UNCHANGED vars
  BY <1>9
<1> QED
  BY <1>1, <1>2, <1>3, <1>4, <1>5, <1>6, <1>7, <1>8, <1>9 DEF Next, HostStep

-----------------------------------------------------------------------------
(***************************************************************************)
(* The inductive invariant. AtMostOneQemu needs the whole scope to be      *)
(* exclusive (Exclusive), which on-exit's kill keeps because a pid with an *)
(* owner belongs to a QEMU that is there (Owned). PidfileNamesQemu needs   *)
(* the order of the processes within a launch (Phases): only the launch    *)
(* itself could remove the file, and its on-exit has not begun.            *)
(***************************************************************************)

\* A pid that the process table gives to a launch is the only pid of a QEMU that exists.
Owned ==
    \A p \in Pids, b \in Boots :
        proc[p] = b => qemu[b] # "none" /\ \A q \in Pids : proc[q] = b => q = p

\* No two launches are active in scopes of the same name.
Exclusive ==
    \A b, c \in Boots :
        Unit[MachineOf[b]] = Unit[MachineOf[c]] /\ ScopeActive(b) /\ ScopeActive(c) => b = c

\* No script writes /var/run/qemu/$MACHINE.pid.
NoRunPidfile == \A m \in Machines : <<m, "pid">> \notin varrun

\* The processes of a launch follow one another.
PhaseOK(b) ==
    /\ boot[b] \in {"check", "gen", "launch"} =>
           run[b] = "none" /\ qemu[b] = "none" /\ onexit[b] = "none"
    /\ run[b] = "queued" => qemu[b] = "none" /\ onexit[b] = "none"
    /\ run[b] \in {"pre", "svc"} => qemu[b] = "none" /\ onexit[b] = "none" /\ b \notin wrote
    /\ run[b] = "wait" => onexit[b] = "none"
    /\ qemu[b] = "starting" => b \notin wrote
    /\ onexit[b] \in {"test", "kill", "rm"} => exitp[b] \in Pids

Phases == \A b \in Boots : PhaseOK(b)

\* What a launch that got a QEMU up finds in var/pid, and what its on-exit has read from it.
FileOwn(b) ==
    b \in wrote /\ (run[b] = "wait" \/ onexit[b] \in {"post", "check"}) =>
        pidfile[MachineOf[b]] = NoPid \/ proc[pidfile[MachineOf[b]]] \in {b, Free}

ReadOwn(b) ==
    b \in wrote /\ onexit[b] \in {"test", "kill", "rm"} => proc[exitp[b]] \in {b, Free}

PidsOwn == \A b \in Boots : FileOwn(b) /\ ReadOwn(b)

Inv == /\ TypeOK /\ Owned /\ Exclusive /\ NoRunPidfile /\ Phases
       /\ PidfileNamesQemu /\ PidsOwn

\* A pid gets an owner only together with a new QEMU, and a QEMU that ends gives its pid back.
LEMMA OwnedStep == TypeOK /\ Owned /\ Phases /\ [Next]_vars => Owned'
<1> SUFFICES ASSUME TypeOK, Owned, Phases, [Next]_vars PROVE Owned'
  OBVIOUS
<1> USE DEF Owned
<1>1. CASE UNCHANGED <<proc, qemu>>
  BY <1>1
<1>2. ASSUME NEW c \in Boots, KickCont(c) PROVE Owned'
  BY <1>2 DEF KickCont, QmpSend, AfterCommand
<1>3. ASSUME NEW c \in Boots, RunQemu(c) PROVE Owned'
  BY <1>3 DEF RunQemu, TypeOK, Phases, PhaseOK
<1>4. ASSUME NEW c \in Boots, OnExitKill(c) PROVE Owned'
  BY OwnersDiffer, <1>4 DEF OnExitKill
<1>5. ASSUME NEW c \in Boots, QemuInit(c) PROVE Owned'
  BY <1>5 DEF QemuInit
<1>6. ASSUME NEW c \in Boots, QemuExit(c) PROVE Owned'
  BY OwnersDiffer, <1>6 DEF QemuExit
<1>7. ASSUME NEW m \in Machines, MachineContinue(m) PROVE Owned'
  BY <1>7 DEF MachineContinue, QmpSend, AfterCommand
<1>8. ASSUME NEW m \in Machines, ShutdownHard(m) PROVE Owned'
  BY OwnersDiffer, <1>8 DEF ShutdownHard, TypeOK
<1>9. ASSUME NEW q \in Pids, OtherStart(q) PROVE Owned'
  BY OwnersDiffer, <1>9 DEF OtherStart
<1>10. ASSUME NEW q \in Pids, OtherExit(q) PROVE Owned'
  BY OwnersDiffer, <1>10 DEF OtherExit
<1>11. CASE Crash
  BY OwnersDiffer, <1>11 DEF Crash
<1> QED
  BY <1>1, <1>2, <1>3, <1>4, <1>5, <1>6, <1>7, <1>8, <1>9, <1>10, <1>11 DEF Next,
     HostStep, BootStep, RunStep, OnExitStep, BootStart, BootCheck, GenConfig,
     Launch, KickState, KickWait, KickPin, ScopeStart, RunPre, RunExit, OnExitPost,
     OnExitRead, OnExitTest, OnExitRm

\* The only script that writes to /var/run/qemu, update-pid-cpu.sh, uses another file name.
LEMMA RunPidfileStep == NoRunPidfile /\ [Next]_vars => NoRunPidfile'
<1> SUFFICES ASSUME NoRunPidfile, [Next]_vars PROVE NoRunPidfile'
  OBVIOUS
<1> USE DEF NoRunPidfile
<1>1. CASE UNCHANGED <<varrun>>
  BY <1>1
<1>2. ASSUME NEW c \in Boots, KickPin(c) PROVE NoRunPidfile'
  BY <1>2 DEF KickPin
<1>3. CASE Crash
  BY <1>3 DEF Crash
<1> QED
  BY <1>1, <1>2, <1>3 DEF Next, HostStep, BootStep, RunStep, OnExitStep, BootStart,
     BootCheck, GenConfig, Launch, KickState, KickWait, KickCont, ScopeStart,
     RunPre, RunQemu, RunExit, OnExitPost, OnExitRead, OnExitTest, OnExitKill,
     OnExitRm, QemuInit, QemuExit, MachineContinue, ShutdownHard, OtherStart,
     OtherExit

\* No step takes the processes of a launch out of their order.
LEMMA PhasesStep == TypeOK /\ Owned /\ Phases /\ [Next]_vars => Phases'
<1> SUFFICES ASSUME TypeOK, Owned, Phases, [Next]_vars PROVE Phases'
  OBVIOUS
<1> USE DEF Phases
<1>1. CASE UNCHANGED <<boot, run, qemu, onexit, exitp, wrote>>
  BY <1>1 DEF PhaseOK
<1>2. ASSUME NEW c \in Boots, BootStart(c) PROVE Phases'
  BY <1>2 DEF BootStart, TypeOK, PhaseOK, ScopeActive
<1>3. ASSUME NEW c \in Boots, BootCheck(c) PROVE Phases'
  BY <1>3 DEF BootCheck, PhaseOK
<1>4. ASSUME NEW c \in Boots, GenConfig(c) PROVE Phases'
  BY <1>4 DEF GenConfig, PhaseOK
<1>5. ASSUME NEW c \in Boots, Launch(c) PROVE Phases'
  BY <1>5 DEF Launch, TypeOK, PhaseOK
<1>6. ASSUME NEW c \in Boots, KickState(c) PROVE Phases'
  BY <1>6 DEF KickState, PhaseOK
<1>7. ASSUME NEW c \in Boots, KickWait(c) PROVE Phases'
  BY <1>7 DEF KickWait, PhaseOK
<1>8. ASSUME NEW c \in Boots, KickPin(c) PROVE Phases'
  BY <1>8 DEF KickPin, PhaseOK
<1>9. ASSUME NEW c \in Boots, KickCont(c) PROVE Phases'
  BY <1>9 DEF KickCont, QmpSend, AfterCommand, PhaseOK, Answers
<1>10. ASSUME NEW c \in Boots, ScopeStart(c) PROVE Phases'
  BY <1>10 DEF ScopeStart, PhaseOK
<1>11. ASSUME NEW c \in Boots, RunPre(c) PROVE Phases'
  BY <1>11 DEF RunPre, PhaseOK
<1>12. ASSUME NEW c \in Boots, RunQemu(c) PROVE Phases'
  BY <1>12 DEF RunQemu, TypeOK, PhaseOK
<1>13. ASSUME NEW c \in Boots, RunExit(c) PROVE Phases'
  BY <1>13 DEF RunExit, TypeOK, PhaseOK
<1>14. ASSUME NEW c \in Boots, OnExitPost(c) PROVE Phases'
  BY <1>14 DEF OnExitPost, PhaseOK
<1>15. ASSUME NEW c \in Boots, OnExitRead(c) PROVE Phases'
  BY MachineOfType, <1>15 DEF OnExitRead, TypeOK, PhaseOK
<1>16. ASSUME NEW c \in Boots, OnExitTest(c) PROVE Phases'
  BY <1>16 DEF OnExitTest, PhaseOK
<1>17. ASSUME NEW c \in Boots, OnExitKill(c) PROVE Phases'
  BY <1>17 DEF OnExitKill, TypeOK, PhaseOK, Owned
<1>18. ASSUME NEW c \in Boots, OnExitRm(c) PROVE Phases'
  BY <1>18 DEF OnExitRm, TypeOK, PhaseOK
<1>19. ASSUME NEW c \in Boots, QemuInit(c) PROVE Phases'
  BY <1>19 DEF QemuInit, TypeOK, PhaseOK
<1>20. ASSUME NEW c \in Boots, QemuExit(c) PROVE Phases'
  BY <1>20 DEF QemuExit, PhaseOK
<1>21. ASSUME NEW m \in Machines, MachineContinue(m) PROVE Phases'
  BY <1>21 DEF MachineContinue, QmpSend, AfterCommand, PhaseOK, Answers
<1>22. ASSUME NEW m \in Machines, ShutdownHard(m) PROVE Phases'
  BY <1>22 DEF ShutdownHard, PhaseOK
<1>23. CASE Crash
  BY <1>23 DEF Crash, PhaseOK
<1> QED
  BY <1>1, <1>2, <1>3, <1>4, <1>5, <1>6, <1>7, <1>8, <1>9, <1>10, <1>11, <1>12,
     <1>13, <1>14, <1>15, <1>16, <1>17, <1>18, <1>19, <1>20, <1>21, <1>22, <1>23 DEF
     Next, HostStep, BootStep, RunStep, OnExitStep, OtherStart, OtherExit

\* Only systemd-run makes a scope active, and it refuses a name that is in use.
LEMMA ExclusiveStep ==
    TypeOK /\ Owned /\ Phases /\ Exclusive /\ [Next]_vars
        => Exclusive'
<1> SUFFICES ASSUME TypeOK, Owned, Phases, Exclusive, [Next]_vars PROVE Exclusive'
  OBVIOUS
<1> USE DEF Exclusive
<1>1. CASE UNCHANGED <<run, qemu, onexit>>
  BY <1>1 DEF ScopeActive
<1>2. ASSUME NEW c \in Boots, BootStart(c) PROVE Exclusive'
  BY <1>2 DEF BootStart, ScopeActive
<1>3. ASSUME NEW c \in Boots, Launch(c) PROVE Exclusive'
  BY <1>3 DEF Launch, ScopeActive
<1>4. ASSUME NEW c \in Boots, KickCont(c) PROVE Exclusive'
  BY <1>4 DEF KickCont, QmpSend, ScopeActive, Answers
<1>5. ASSUME NEW c \in Boots, ScopeStart(c) PROVE Exclusive'
  BY <1>5 DEF ScopeStart, ScopeFree, ScopeActive
<1>6. ASSUME NEW c \in Boots, RunPre(c) PROVE Exclusive'
  BY <1>6 DEF RunPre, ScopeActive
<1>7. ASSUME NEW c \in Boots, RunQemu(c) PROVE Exclusive'
  BY <1>7 DEF RunQemu, ScopeActive
<1>8. ASSUME NEW c \in Boots, RunExit(c) PROVE Exclusive'
  BY <1>8 DEF RunExit, ScopeActive
<1>9. ASSUME NEW c \in Boots, OnExitPost(c) PROVE Exclusive'
  BY <1>9 DEF OnExitPost, ScopeActive
<1>10. ASSUME NEW c \in Boots, OnExitRead(c) PROVE Exclusive'
  BY <1>10 DEF OnExitRead, ScopeActive
<1>11. ASSUME NEW c \in Boots, OnExitTest(c) PROVE Exclusive'
  BY <1>11 DEF OnExitTest, ScopeActive
<1>12. ASSUME NEW c \in Boots, OnExitKill(c) PROVE Exclusive'
  BY <1>12 DEF OnExitKill, Owned, Phases, PhaseOK, ScopeActive
<1>13. ASSUME NEW c \in Boots, OnExitRm(c) PROVE Exclusive'
  BY <1>13 DEF OnExitRm, ScopeActive
<1>14. ASSUME NEW c \in Boots, QemuInit(c) PROVE Exclusive'
  BY <1>14 DEF QemuInit, ScopeActive
<1>15. ASSUME NEW c \in Boots, QemuExit(c) PROVE Exclusive'
  BY <1>15 DEF QemuExit, ScopeActive
<1>16. ASSUME NEW m \in Machines, MachineContinue(m) PROVE Exclusive'
  BY <1>16 DEF MachineContinue, QmpSend, ScopeActive, Answers
<1>17. ASSUME NEW m \in Machines, ShutdownHard(m) PROVE Exclusive'
  BY <1>17 DEF ShutdownHard, ScopeActive
<1>18. CASE Crash
  BY <1>18 DEF Crash, ScopeActive
<1> QED
  BY <1>1, <1>2, <1>3, <1>4, <1>5, <1>6, <1>7, <1>8, <1>9, <1>10, <1>11, <1>12,
     <1>13, <1>14, <1>15, <1>16, <1>17, <1>18 DEF Next, HostStep, BootStep, RunStep,
     OnExitStep, BootCheck, GenConfig, KickState, KickWait, KickPin, OtherStart,
     OtherExit

\* Only the launch itself writes or removes the pidfile that names its QEMU.
LEMMA PidfileStep ==
    TypeOK /\ Owned /\ Exclusive /\ NoRunPidfile /\ Phases /\ PidfileNamesQemu /\ [Next]_vars
        => PidfileNamesQemu'
<1> SUFFICES ASSUME TypeOK, Owned, Exclusive, NoRunPidfile, Phases, PidfileNamesQemu, [Next]_vars
             PROVE  PidfileNamesQemu'
  OBVIOUS
<1> USE DEF PidfileNamesQemu
<1>1. CASE UNCHANGED <<run, qemu, pidfile, proc>>
  BY <1>1
<1>2. ASSUME NEW c \in Boots, BootCheck(c) PROVE PidfileNamesQemu'
  BY MachineOfType, <1>2 DEF BootCheck, NoRunPidfile
<1>3. ASSUME NEW c \in Boots, Launch(c) PROVE PidfileNamesQemu'
  BY <1>3 DEF Launch
<1>4. ASSUME NEW c \in Boots, KickCont(c) PROVE PidfileNamesQemu'
  BY <1>4 DEF KickCont, QmpSend
<1>5. ASSUME NEW c \in Boots, ScopeStart(c) PROVE PidfileNamesQemu'
  BY <1>5 DEF ScopeStart
<1>6. ASSUME NEW c \in Boots, RunPre(c) PROVE PidfileNamesQemu'
  BY <1>6 DEF RunPre
<1>7. ASSUME NEW c \in Boots, RunQemu(c) PROVE PidfileNamesQemu'
  BY OwnersDiffer, <1>7 DEF RunQemu, Allocatable, Phases, PhaseOK, Answers
<1>8. ASSUME NEW c \in Boots, RunExit(c) PROVE PidfileNamesQemu'
  BY <1>8 DEF RunExit
<1>9. ASSUME NEW c \in Boots, OnExitKill(c) PROVE PidfileNamesQemu'
  BY <1>9 DEF OnExitKill, Answers
<1>10. ASSUME NEW c \in Boots, OnExitRm(c) PROVE PidfileNamesQemu'
  BY <1>10 DEF OnExitRm, Exclusive, Phases, PhaseOK, ScopeActive
<1>11. ASSUME NEW c \in Boots, QemuInit(c) PROVE PidfileNamesQemu'
  BY MachineOfType, NoPidIsNoPid, <1>11 DEF QemuInit, TypeOK, Exclusive, ScopeActive
<1>12. ASSUME NEW c \in Boots, QemuExit(c) PROVE PidfileNamesQemu'
  BY MachineOfType, <1>12 DEF QemuExit, TypeOK, Answers
<1>13. ASSUME NEW m \in Machines, MachineContinue(m) PROVE PidfileNamesQemu'
  BY <1>13 DEF MachineContinue, QmpSend
<1>14. ASSUME NEW m \in Machines, ShutdownHard(m) PROVE PidfileNamesQemu'
  BY <1>14 DEF ShutdownHard, Answers
<1>15. ASSUME NEW q \in Pids, OtherStart(q) PROVE PidfileNamesQemu'
  BY OwnersDiffer, <1>15 DEF OtherStart, Allocatable
<1>16. ASSUME NEW q \in Pids, OtherExit(q) PROVE PidfileNamesQemu'
  BY OwnersDiffer, <1>16 DEF OtherExit
<1>17. CASE Crash
  BY <1>17 DEF Crash
<1> QED
  BY <1>1, <1>2, <1>3, <1>4, <1>5, <1>6, <1>7, <1>8, <1>9, <1>10, <1>11, <1>12,
     <1>13, <1>14, <1>15, <1>16, <1>17 DEF Next, HostStep, BootStep, RunStep,
     OnExitStep, BootStart, GenConfig, KickState, KickWait, KickPin, OnExitPost,
     OnExitRead, OnExitTest

\* No pid that a launch has in its file, or has read from it, is given to another process.
LEMMA PidsOwnStep ==
    TypeOK /\ Owned /\ Exclusive /\ NoRunPidfile /\ Phases /\ PidsOwn /\ [Next]_vars
        => PidsOwn'
<1> SUFFICES ASSUME TypeOK, Owned, Exclusive, NoRunPidfile, Phases, PidsOwn, [Next]_vars
             PROVE  PidsOwn'
  OBVIOUS
<1> USE DEF PidsOwn
<1>1. CASE UNCHANGED <<run, onexit, exitp, proc, pidfile, wrote>>
  BY <1>1 DEF FileOwn, ReadOwn
<1>2. ASSUME NEW c \in Boots, BootStart(c) PROVE PidsOwn'
  BY <1>2 DEF BootStart, FileOwn, ReadOwn
<1>3. ASSUME NEW c \in Boots, BootCheck(c) PROVE PidsOwn'
  BY <1>3 DEF BootCheck, FileOwn, ReadOwn
<1>4. ASSUME NEW c \in Boots, Launch(c) PROVE PidsOwn'
  BY <1>4 DEF Launch, FileOwn, ReadOwn
<1>5. ASSUME NEW c \in Boots, ScopeStart(c) PROVE PidsOwn'
  BY <1>5 DEF ScopeStart, FileOwn, ReadOwn
<1>6. ASSUME NEW c \in Boots, RunPre(c) PROVE PidsOwn'
  BY <1>6 DEF RunPre, FileOwn, ReadOwn
<1>7. ASSUME NEW c \in Boots, RunQemu(c) PROVE PidsOwn'
  BY <1>7 DEF RunQemu, Allocatable, FileOwn, ReadOwn, Phases, PhaseOK, ScopeActive
<1>8. ASSUME NEW c \in Boots, RunExit(c) PROVE PidsOwn'
  BY <1>8 DEF RunExit, FileOwn, ReadOwn, Phases, PhaseOK
<1>9. ASSUME NEW c \in Boots, OnExitPost(c) PROVE PidsOwn'
  BY <1>9 DEF OnExitPost, FileOwn, ReadOwn
<1>10. ASSUME NEW c \in Boots, OnExitRead(c) PROVE PidsOwn'
  BY <1>10 DEF OnExitRead, FileOwn, ReadOwn, TypeOK
<1>11. ASSUME NEW c \in Boots, OnExitTest(c) PROVE PidsOwn'
  BY <1>11 DEF OnExitTest, FileOwn, ReadOwn
<1>12. ASSUME NEW c \in Boots, OnExitKill(c) PROVE PidsOwn'
  BY <1>12 DEF OnExitKill, FileOwn, ReadOwn, TypeOK
<1>13. ASSUME NEW c \in Boots, OnExitRm(c) PROVE PidsOwn'
  BY <1>13 DEF OnExitRm, FileOwn, ReadOwn, TypeOK
<1>14. ASSUME NEW c \in Boots, QemuInit(c) PROVE PidsOwn'
  BY MachineOfType, <1>14 DEF QemuInit, FileOwn, ReadOwn, TypeOK, Exclusive, Phases,
     PhaseOK, ScopeActive
<1>15. ASSUME NEW c \in Boots, QemuExit(c) PROVE PidsOwn'
  BY MachineOfType, <1>15 DEF QemuExit, FileOwn, ReadOwn, TypeOK, Phases, PhaseOK
<1>16. ASSUME NEW m \in Machines, ShutdownHard(m) PROVE PidsOwn'
  BY <1>16 DEF ShutdownHard, FileOwn, ReadOwn
<1>17. ASSUME NEW q \in Pids, OtherStart(q) PROVE PidsOwn'
  BY <1>17 DEF OtherStart, Allocatable, FileOwn, ReadOwn, ScopeActive
<1>18. ASSUME NEW q \in Pids, OtherExit(q) PROVE PidsOwn'
  BY <1>18 DEF OtherExit, FileOwn, ReadOwn
<1>19. CASE Crash
  BY <1>19 DEF Crash, FileOwn, ReadOwn
<1> QED
  BY <1>1, <1>2, <1>3, <1>4, <1>5, <1>6, <1>7, <1>8, <1>9, <1>10, <1>11, <1>12,
     <1>13, <1>14, <1>15, <1>16, <1>17, <1>18, <1>19 DEF Next, HostStep, BootStep,
     RunStep, OnExitStep, GenConfig, KickState, KickWait, KickPin, KickCont,
     MachineContinue

-----------------------------------------------------------------------------
\* The inductive invariant holds on a host without launches.
LEMMA InitInv == Init => Inv
<1> SUFFICES ASSUME Init PROVE Inv
  OBVIOUS
<1> USE DEF Init
<1>1. TypeOK
  BY DEF TypeOK, BootPhases, RunPhases, QemuPhases, ExitPhases
<1>2. Owned
  BY OwnersDiffer DEF Owned
<1>3. Exclusive /\ PidfileNamesQemu
  BY DEF Exclusive, PidfileNamesQemu, ScopeActive
<1>4. NoRunPidfile /\ Phases /\ PidsOwn
  BY DEF NoRunPidfile, Phases, PhaseOK, PidsOwn, FileOwn, ReadOwn
<1> QED
  BY <1>1, <1>2, <1>3, <1>4 DEF Inv

\* Every step keeps it.
LEMMA StepInv == Inv /\ [Next]_vars => Inv'
BY TypeStep, OwnedStep, ExclusiveStep, RunPidfileStep, PhasesStep, PidfileStep, PidsOwnStep
   DEF Inv

\* So it holds in every state of every behaviour of the launches.
LEMMA Inductive == Spec => []Inv
BY InitInv, StepInv, PTL DEF Spec

\* Every variable of the launches keeps its type.
THEOREM TypeCorrect == Spec => []TypeOK
<1>1. Inv => TypeOK
  BY DEF Inv
<1> QED
  BY <1>1, Inductive, PTL

\* No machine ever has two QEMU processes: the scope in which run-clover.sh starts the
\* run script is exclusive, and it outlives every process of the launch.
THEOREM OneQemu == Spec => []AtMostOneQemu
<1>1. Inv => AtMostOneQemu
  BY DEF Inv, Exclusive, ScopeActive, AtMostOneQemu
<1> QED
  BY <1>1, Inductive, PTL

\* The pidfile names the QEMU of every launch whose run script is waiting for it, so
\* that the liveness test of the scripts finds every such machine.
THEOREM PidfileCorrect == Spec => []PidfileNamesQemu
<1>1. Inv => PidfileNamesQemu
  BY DEF Inv
<1> QED
  BY <1>1, Inductive, PTL

\* on-exit never kills a process other than the QEMU of its own launch, once that
\* launch has had a QEMU.
THEOREM OnExitSafe == Spec => []OnExitSparesOthers
<1>1. Inv => OnExitSparesOthers
  BY DEF Inv, PidsOwn, ReadOwn, OnExitSparesOthers
<1> QED
  BY <1>1, Inductive, PTL

-----------------------------------------------------------------------------
(***************************************************************************)
(* The operator's scripts, for every set of machines and launches, as long *)
(* as boot.config is not used beside them: it may remove the pidfile of a  *)
(* QEMU that runs (CfgRm), which they all rely on.                         *)
(***************************************************************************)
USE DEF scripts, history, adminVars

NoConfig == "boot.config" \notin Commands

\* Where machine-shutdown-running is; shutdown-hard is called for a machine of the list.
AdminType ==
    /\ sd \in (0..4) \X (Nat \ {0})
    /\ sd[1] = 4 => sd[2] <= Len(MachineSeq)
    /\ targets \subseteq Boots
    /\ cfg = <<>>

\* A target has been up, and what was up once does not start again.
TargetsThere == \A b \in targets : qemu[b] \in Answers \cup {"term"}

\* Pass k of machine-shutdown-running has been at the machine.
Visited(k, m) == sd[1] > k \/ (sd[1] = k /\ \E i \in 1..(sd[2] - 1) : MachineSeq[i] = m)

\* A target that is still up has got the request of a pass, or is about to get it.
RequestMade(b, k, r) ==
    Visited(k, MachineOf[b]) => <<b, r>> \in asked \/ <<r, MachineOf[b]>> \in late

RequestsMade ==
    /\ \A b \in targets : Up(b) => RequestMade(b, 1, "ga") /\ RequestMade(b, 2, "acpi")
    /\ sd[1] \in {0, 3, 4} => late = {}

AdminInv == Inv /\ AdminType /\ TargetsThere /\ ShutdownComplete /\ RequestsMade

-----------------------------------------------------------------------------
\* Without boot.config, every step of a script is one a launch may see anyway.
LEMMA AdminStepMaps ==
    ASSUME NoConfig, TypeOK, AdminType, [AdminNext]_adminVars
    PROVE  [Next]_vars /\ cfg' = <<>>
<1> USE DEF AdminType
<1>1. CASE HostStep /\ Forget /\ UNCHANGED scripts
  BY <1>1 DEF Next
<1>2. CASE SdStart \/ SdVisit \/ SdSleep \/ AutoStart \/ AutoSkip
  BY <1>2 DEF SdStart, SdVisit, SdSleep, AutoStart, AutoSkip
<1>3. CASE SdHard
  <2> DEFINE m == MachineSeq[sd[2]]
  <2>1. CASE pidfile[m] = NoPid
    BY <1>3, <2>1 DEF SdHard
  <2>2. CASE pidfile[m] # NoPid
    <3>1. m \in Machines
      BY <1>3, MachineSeqType DEF SdHard
    <3> QED
      BY <1>3, <2>2, <3>1 DEF SdHard, Next, HostStep
  <2> QED
    BY <2>1, <2>2
<1>4. ASSUME NEW m \in Machines, NEW r \in Requests, LateSend(r, m)
      PROVE  UNCHANGED vars /\ cfg' = cfg
  BY <1>4 DEF LateSend
<1>5. ASSUME NEW b \in Boots, AutoBoot(b)
      PROVE  Next /\ cfg' = cfg
  BY <1>5 DEF AutoBoot, Next, HostStep
<1>6. ASSUME NEW m \in Machines, MachinePause(m)
      PROVE  [Next]_vars /\ cfg' = cfg
  <2>1. qemu' = qemu
    BY <1>6, SocketNames DEF MachinePause, QmpSend, TypeOK
  <2> QED
    BY <1>6, <2>1 DEF MachinePause
<1>7. ASSUME NEW m \in Machines, ContinueFrozen(m)
      PROVE  Next /\ cfg' = cfg
  BY <1>7 DEF ContinueFrozen, Next, HostStep
<1>8. CASE CfgStep
  BY <1>8 DEF CfgStep, CfgRefuse, CfgRm, CfgRead, NoConfig
<1>9. CASE AdminCrash
  BY <1>9 DEF AdminCrash, Next
<1>10. CASE UNCHANGED adminVars
  BY <1>10
<1> QED
  BY <1>1, <1>2, <1>3, <1>4, <1>5, <1>6, <1>7, <1>8, <1>9, <1>10 DEF AdminNext, AdminStep

\* QEMU comes up once in a launch: a QEMU that has been up and is still there is not
\* starting, and if its run script waits for it now, it has waited before.
LEMMA UpOnce ==
    ASSUME Inv, [Next]_vars, NEW b \in Boots, qemu[b] \in Answers \cup {"term"}, qemu'[b] # "none"
    PROVE  qemu'[b] \in Answers \cup {"term"} /\ (Up(b)' => Up(b))
<1> USE DEF Answers, Up
<1>0. /\ run[b] \notin {"queued", "pre", "svc"} /\ boot[b] # "launch"
      /\ qemu[b] # "starting" /\ qemu[b] # "none"
  BY DEF Inv, Phases, PhaseOK
<1> USE DEF Inv, TypeOK
<1>1. CASE UNCHANGED <<qemu, run>>
  BY <1>1
<1>2. ASSUME NEW c \in Boots, Launch(c) \/ ScopeStart(c) \/ RunPre(c) \/ RunExit(c)
      PROVE  qemu' = qemu /\ (run'[b] = "wait" => run[b] = "wait")
  BY <1>0, <1>2 DEF Launch, ScopeStart, RunPre, RunExit
<1>3. ASSUME NEW c \in Boots, RunQemu(c)
      PROVE  qemu'[b] = qemu[b] /\ run'[b] = run[b]
  BY <1>0, <1>3 DEF RunQemu
<1>4. ASSUME NEW c \in Boots, KickCont(c)
      PROVE  run' = run /\ qemu'[b] \in {qemu[b], "running"} /\ (qemu[b] = "term" => qemu'[b] = "term")
  BY <1>4 DEF KickCont, QmpSend, AfterCommand
<1>5. ASSUME NEW c \in Boots, OnExitKill(c)
      PROVE  run' = run /\ qemu'[b] \in {qemu[b], "term"}
  BY <1>5 DEF OnExitKill
<1>6. ASSUME NEW c \in Boots, QemuInit(c) \/ QemuExit(c)
      PROVE  run' = run /\ qemu'[b] = qemu[b]
  BY <1>0, <1>6 DEF QemuInit, QemuExit
<1>7. ASSUME NEW m \in Machines, MachineContinue(m)
      PROVE  run' = run /\ qemu'[b] \in {qemu[b], "running"} /\ (qemu[b] = "term" => qemu'[b] = "term")
  BY <1>7 DEF MachineContinue, QmpSend, AfterCommand
<1>8. ASSUME NEW m \in Machines, ShutdownHard(m)
      PROVE  run' = run /\ qemu'[b] = qemu[b]
  BY <1>8 DEF ShutdownHard
<1>9. CASE Crash
  BY <1>9 DEF Crash
<1> QED
  BY <1>1, <1>2, <1>3, <1>4, <1>5, <1>6, <1>7, <1>8, <1>9 DEF Next, HostStep, BootStep, RunStep,
     OnExitStep, BootStart, BootCheck, GenConfig, KickState, KickWait, KickPin, OnExitPost,
     OnExitRead, OnExitTest, OnExitRm, OtherStart, OtherExit

\* The test of machine-shutdown-running finds every QEMU that is up.
LEMMA UpIsLive ==
    ASSUME Inv, NEW b \in Boots, Up(b)
    PROVE  /\ PidLive(MachineOf[b])
           /\ pidfile[MachineOf[b]] \in Pids /\ proc[pidfile[MachineOf[b]]] = b
BY MachineOfType, OwnersDiffer, NoPidIsNoPid
   DEF Inv, TypeOK, PidfileNamesQemu, Up, PidLive, Exists

\* A step of a launch, with the scripts where they are: fewer targets are up.
LEMMA LaunchStepKeeps ==
    ASSUME AdminInv, [Next]_vars, Forget, UNCHANGED <<sd, late>>
    PROVE  TargetsThere' /\ ShutdownComplete' /\ RequestsMade'
<1>1. ASSUME NEW b \in targets'
      PROVE  /\ b \in targets /\ b \in Boots
             /\ qemu'[b] \in Answers \cup {"term"}
             /\ Up(b)' => Up(b)
             /\ \A r \in Requests : <<b, r>> \in asked => <<b, r>> \in asked'
  <2>1. b \in targets /\ b \in Boots /\ qemu'[b] # "none"
    BY <1>1 DEF Forget, AdminInv, AdminType
  <2>2. qemu'[b] \in Answers \cup {"term"} /\ (Up(b)' => Up(b))
    BY <2>1, UpOnce DEF AdminInv, TargetsThere
  <2>3. \A r \in Requests : <<b, r>> \in asked => <<b, r>> \in asked'
    BY <2>1 DEF Forget
  <2> QED
    BY <2>1, <2>2, <2>3
<1>2. ShutdownComplete'
  BY <1>1 DEF AdminInv, ShutdownComplete, Passed
<1>3. RequestsMade'
  BY <1>1 DEF AdminInv, RequestsMade, RequestMade, Visited, Requests
<1> QED
  BY <1>1, <1>2, <1>3 DEF TargetsThere

\* machine-shutdown-running takes note of the machines that are up.
LEMMA SdStartKeeps ==
    ASSUME AdminInv, SdStart
    PROVE  AdminType' /\ TargetsThere' /\ ShutdownComplete' /\ RequestsMade'
<1>1. sd' = <<1, 1>> /\ UNCHANGED <<vars, late, asked, cfg>> /\ targets' = {b \in Boots : Up(b)}
  BY DEF SdStart
<1>2. AdminType' /\ TargetsThere'
  BY <1>1 DEF AdminInv, AdminType, TargetsThere, Up
<1>3. ShutdownComplete'
  BY <1>1 DEF ShutdownComplete, Passed
<1>4. \A m \in Machines : ~Visited(1, m)' /\ ~Visited(2, m)'
  BY <1>1 DEF Visited
<1>5. RequestsMade'
  BY <1>1, <1>4, MachineOfType DEF RequestsMade, RequestMade
<1> QED
  BY <1>2, <1>3, <1>5

\* A loop of machine-shutdown-running goes on to the next machine.
LEMMA SdVisitKeeps ==
    ASSUME AdminInv, SdVisit
    PROVE  AdminType' /\ TargetsThere' /\ ShutdownComplete' /\ RequestsMade'
<1> DEFINE m == MachineSeq[sd[2]]
<1>1. /\ sd[1] \in 1..3 /\ sd[2] \in 1..Len(MachineSeq) /\ m \in Machines
      /\ sd = <<sd[1], sd[2]>>
      /\ UNCHANGED <<vars, targets, asked, cfg>>
  BY MachineSeqType DEF SdVisit, AdminInv, AdminType
<1>2. AdminType'
  <2>1. sd' = <<4, sd[2]>> \/ sd' = <<sd[1], sd[2] + 1>>
    BY DEF SdVisit
  <2>2. /\ sd' \in (0..4) \X (Nat \ {0})
        /\ sd'[1] = 4 => sd'[2] <= Len(MachineSeq)
    BY <1>1, <2>1, MachineSeqType DEF AdminInv, AdminType
  <2> QED
    BY <1>1, <2>2 DEF AdminInv, AdminType
<1>3. TargetsThere'
  BY <1>1 DEF AdminInv, TargetsThere
<1>4. ASSUME NEW b \in targets, Up(b)
      PROVE  b \in Boots /\ Up(b)' /\ PidLive(MachineOf[b])
  BY <1>1, <1>4, UpIsLive DEF AdminInv, AdminType, Up
<1>5. ShutdownComplete'
  <2> SUFFICES ASSUME NEW b \in targets, Passed(MachineOf[b])', Up(b) PROVE FALSE
    BY <1>1 DEF ShutdownComplete, Up
  <2>1. sd[1] = 3
    BY <1>1 DEF SdVisit, Passed
  <2>2. PICK i \in 1..(sd'[2] - 1) : MachineSeq[i] = MachineOf[b]
    BY DEF Passed
  <2>3. CASE PidLive(m)
    <3>1. sd' = <<4, sd[2]>>
      BY <2>1, <2>3 DEF SdVisit
    <3> QED
      BY <1>1, <2>1, <2>2, <3>1 DEF AdminInv, ShutdownComplete, Passed
  <2>4. CASE ~PidLive(m)
    <3>1. sd' = <<3, sd[2] + 1>>
      BY <2>1, <2>4 DEF SdVisit
    <3>2. MachineOf[b] # m
      BY <1>4, <2>4
    <3>3. i \in 1..(sd[2] - 1)
      BY <1>1, <2>2, <3>1, <3>2
    <3> QED
      BY <2>1, <2>2, <3>3 DEF AdminInv, ShutdownComplete, Passed
  <2> QED
    BY <2>3, <2>4
<1>6. RequestsMade'
  <2>1. sd'[1] \in {0, 3, 4} => late' = {}
    BY <1>1 DEF SdVisit, AdminInv, RequestsMade
  <2>2. late \subseteq late'
    BY DEF SdVisit
  <2>3. ASSUME NEW b \in targets, Up(b), NEW k \in 1..2, NEW r \in Requests, r = IF k = 1 THEN "ga" ELSE "acpi",
               RequestMade(b, k, r), Visited(k, MachineOf[b])'
        PROVE  <<b, r>> \in asked \/ <<r, MachineOf[b]>> \in late'
    <3>1. CASE Visited(k, MachineOf[b])
      BY <2>2, <2>3, <3>1 DEF RequestMade
    <3>2. CASE ~Visited(k, MachineOf[b])
      <4>1. PidLive(MachineOf[b])
        BY <1>4, <2>3
      <4>2. sd[1] = k
        BY <1>1, <2>3, <3>2 DEF SdVisit, Visited
      <4>3. sd' = <<k, sd[2] + 1>>
        BY <1>1, <4>2 DEF SdVisit
      <4>4. MachineOf[b] = m
        BY <1>1, <2>3, <3>2, <4>2, <4>3 DEF Visited
      <4> QED
        BY <1>1, <2>3, <4>1, <4>2, <4>4 DEF SdVisit
    <3> QED
      BY <3>1, <3>2
  <2>4. ASSUME NEW b \in targets, Up(b)
        PROVE  RequestMade(b, 1, "ga")' /\ RequestMade(b, 2, "acpi")'
    BY <1>1, <2>3, <2>4 DEF AdminInv, RequestsMade, RequestMade, Requests
  <2> QED
    BY <1>1, <2>1, <2>4 DEF RequestsMade, Up
<1> QED
  BY <1>2, <1>3, <1>5, <1>6

\* shutdown-hard kills the QEMU of the machine that is up, since the pidfile names it.
LEMMA SdHardKeeps ==
    ASSUME AdminInv, SdHard
    PROVE  AdminType' /\ TargetsThere' /\ ShutdownComplete' /\ RequestsMade'
<1> DEFINE m == MachineSeq[sd[2]]
<1>1. /\ sd[1] = 4 /\ sd' = <<3, sd[2] + 1>> /\ sd[2] \in 1..Len(MachineSeq) /\ m \in Machines
      /\ Forget /\ UNCHANGED <<late, cfg>>
  <2>1. sd[1] = 4 /\ sd' = <<3, sd[2] + 1>> /\ Forget /\ UNCHANGED <<late, cfg>>
    BY DEF SdHard
  <2>2. sd[2] \in 1..Len(MachineSeq)
    BY <2>1, MachineSeqType DEF AdminInv, AdminType
  <2> QED
    BY <2>1, <2>2, MachineSeqType
<1>2. [Next]_vars
  BY <1>1 DEF SdHard, Next, HostStep
<1>3. AdminType'
  <2>0. sd[2] + 1 \in Nat \ {0}
    BY DEF AdminInv, AdminType
  <2>1. sd' \in (0..4) \X (Nat \ {0}) /\ sd'[1] # 4
    BY <1>1, <2>0
  <2>2. targets' \subseteq Boots /\ cfg' = <<>>
    BY <1>1 DEF AdminInv, AdminType, Forget
  <2> QED
    BY <2>1, <2>2 DEF AdminType
<1>4. ASSUME NEW b \in targets'
      PROVE  /\ b \in targets /\ b \in Boots
             /\ qemu'[b] \in Answers \cup {"term"} /\ qemu'[b] # "none"
             /\ Up(b)' => Up(b)
             /\ \A r \in Requests : <<b, r>> \in asked => <<b, r>> \in asked'
  <2>1. b \in targets /\ b \in Boots /\ qemu'[b] # "none"
    BY <1>1, <1>4 DEF Forget, AdminInv, AdminType
  <2>2. qemu'[b] \in Answers \cup {"term"} /\ (Up(b)' => Up(b))
    BY <1>2, <2>1, UpOnce DEF AdminInv, TargetsThere
  <2>3. \A r \in Requests : <<b, r>> \in asked => <<b, r>> \in asked'
    BY <1>1, <2>1 DEF Forget
  <2> QED
    BY <2>1, <2>2, <2>3
<1>5. ShutdownComplete'
  <2> SUFFICES ASSUME NEW b \in targets', Passed(MachineOf[b])', Up(b)' PROVE FALSE
    BY <1>1 DEF ShutdownComplete
  <2>1. PICK i \in 1..(sd'[2] - 1) : MachineSeq[i] = MachineOf[b]
    BY DEF Passed
  <2>2. CASE MachineOf[b] = m
    <3>1. pidfile[m] \in Pids /\ proc[pidfile[m]] = b
      BY <1>4, <2>2, UpIsLive DEF AdminInv
    <3>2. ShutdownHard(m)
      BY <3>1, NoPidIsNoPid DEF SdHard
    <3>3. qemu'[b] = "none"
      BY <1>4, <3>1, <3>2 DEF ShutdownHard
    <3> QED
      BY <1>4, <3>3
  <2>3. CASE MachineOf[b] # m
    <3>1. i \in 1..(sd[2] - 1)
      BY <1>1, <2>1, <2>3
    <3> QED
      BY <1>1, <1>4, <2>1, <3>1 DEF AdminInv, ShutdownComplete, Passed
  <2> QED
    BY <2>2, <2>3
<1>6. RequestsMade'
  <2>1. \A n \in Machines : (Visited(1, n) /\ Visited(2, n))
    BY <1>1 DEF Visited
  <2>2. ASSUME NEW b \in targets', Up(b)'
        PROVE  <<b, "ga">> \in asked' /\ <<b, "acpi">> \in asked'
    BY <1>1, <1>4, <2>1, <2>2, MachineOfType DEF AdminInv, RequestsMade, RequestMade, Requests
  <2> QED
    BY <1>1, <2>2 DEF AdminInv, RequestsMade, RequestMade
<1> QED
  BY <1>3, <1>4, <1>5, <1>6 DEF TargetsThere

\* Between two passes every machine has been visited and every request has been sent.
LEMMA SdSleepKeeps ==
    ASSUME AdminInv, SdSleep
    PROVE  AdminType' /\ TargetsThere' /\ ShutdownComplete' /\ RequestsMade'
<1>1. /\ sd[1] \in 1..3 /\ sd[2] > Len(MachineSeq) /\ sd[2] \in Nat \ {0} /\ late = {}
      /\ UNCHANGED <<vars, late, targets, asked, cfg>>
  BY DEF SdSleep, AdminInv, AdminType
<1>2. sd' = IF sd[1] = 1 THEN <<2, 1>> ELSE IF sd[1] = 2 THEN <<3, 1>> ELSE <<0, 1>>
  BY <1>1 DEF SdSleep
<1>3. AdminType' /\ TargetsThere'
  BY <1>1, <1>2 DEF AdminInv, AdminType, TargetsThere
<1>4. ShutdownComplete'
  BY <1>2 DEF ShutdownComplete, Passed
<1>5. ASSUME NEW n \in Machines, NEW k \in 1..2, Visited(k, n)'
      PROVE  Visited(k, n)
  <2>1. PICK i \in 1..Len(MachineSeq) : MachineSeq[i] = n
    BY MachineSeqType
  <2>2. i \in 1..(sd[2] - 1)
    BY <1>1, <2>1, MachineSeqType
  <2> QED
    BY <1>1, <1>2, <1>5, <2>1, <2>2 DEF Visited
<1>6. RequestsMade'
  <2>1. ASSUME NEW b \in targets, Up(b)
        PROVE  RequestMade(b, 1, "ga")' /\ RequestMade(b, 2, "acpi")'
    <3>1. RequestMade(b, 1, "ga") /\ RequestMade(b, 2, "acpi") /\ MachineOf[b] \in Machines
      BY <2>1, MachineOfType DEF AdminInv, RequestsMade, AdminType
    <3> QED
      BY <1>1, <1>5, <3>1 DEF RequestMade
  <2> QED
    BY <1>1, <2>1 DEF RequestsMade, Up
<1> QED
  BY <1>3, <1>4, <1>6

\* A request that is sent goes to the QEMU that is up.
LEMMA LateSendKeeps ==
    ASSUME AdminInv, NEW n \in Machines, NEW r \in Requests, LateSend(r, n)
    PROVE  AdminType' /\ TargetsThere' /\ ShutdownComplete' /\ RequestsMade'
<1>1. /\ UNCHANGED <<vars, sd, targets, cfg>> /\ late' = late \ {<<r, n>>} /\ asked \subseteq asked'
      /\ \A b \in Launches(n) : qemu[b] \in Answers => <<b, r>> \in asked'
  BY DEF LateSend
<1>2. AdminType' /\ TargetsThere' /\ ShutdownComplete'
  BY <1>1 DEF AdminInv, AdminType, TargetsThere, ShutdownComplete, Passed, Up
<1>3. ASSUME NEW b \in targets, Up(b)
      PROVE  RequestMade(b, 1, "ga")' /\ RequestMade(b, 2, "acpi")'
  <2>1. b \in Boots /\ (MachineOf[b] = n => b \in Launches(n)) /\ qemu[b] \in Answers
    BY <1>3 DEF AdminInv, AdminType, Launches, Up
  <2> QED
    BY <1>1, <1>3, <2>1 DEF AdminInv, RequestsMade, RequestMade, Visited, Requests
<1> QED
  BY <1>1, <1>2, <1>3 DEF AdminInv, RequestsMade, Up

LEMMA AdminInductive ==
    NoConfig => (AdminSpec => []AdminInv)
<1> SUFFICES ASSUME NoConfig PROVE AdminSpec => []AdminInv
  OBVIOUS
<1>1. Init => Inv
  BY InitInv
<1>2. AdminInit => AdminInv
  BY <1>1 DEF AdminInit, AdminInv, AdminType, TargetsThere, ShutdownComplete, RequestsMade
<1>3. AdminInv /\ [AdminNext]_adminVars => AdminInv'
  <2> SUFFICES ASSUME AdminInv, [AdminNext]_adminVars PROVE AdminInv'
    OBVIOUS
  <2>1. [Next]_vars /\ cfg' = <<>>
    BY AdminStepMaps DEF AdminInv, Inv
  <2>2. Inv'
    BY <2>1, StepInv DEF AdminInv
  <2>3. ASSUME Forget, UNCHANGED <<sd, late>>
        PROVE  AdminInv'
    <3>1. TargetsThere' /\ ShutdownComplete' /\ RequestsMade'
      BY <2>1, <2>3, LaunchStepKeeps
    <3>2. AdminType'
      BY <2>1, <2>3 DEF AdminInv, AdminType, Forget
    <3> QED
      BY <2>2, <3>1, <3>2 DEF AdminInv
  <2>4. CASE HostStep /\ Forget /\ UNCHANGED scripts
    BY <2>3, <2>4
  <2>5. ASSUME NEW b \in Boots, AutoBoot(b)
        PROVE  AdminInv'
    BY <2>3, <2>5 DEF AutoBoot
  <2>6. ASSUME NEW m \in Machines, MachinePause(m) \/ ContinueFrozen(m)
        PROVE  AdminInv'
    BY <2>3, <2>6 DEF MachinePause, ContinueFrozen
  <2>7. CASE SdStart \/ SdVisit \/ SdHard \/ SdSleep
    BY <2>2, <2>7, SdStartKeeps, SdVisitKeeps, SdHardKeeps, SdSleepKeeps DEF AdminInv
  <2>8. ASSUME NEW m \in Machines, NEW r \in Requests, LateSend(r, m)
        PROVE  AdminInv'
    BY <2>2, <2>8, LateSendKeeps DEF AdminInv
  <2>9. CASE AutoStart \/ AutoSkip \/ CfgStep \/ UNCHANGED adminVars
    <3>1. UNCHANGED <<vars, sd, late, targets, asked>>
      BY <2>9 DEF AutoStart, AutoSkip, CfgStep, CfgRefuse, CfgRm, CfgRead, AdminInv, AdminType
    <3> QED
      BY <2>1, <2>2, <3>1 DEF AdminInv, AdminType, TargetsThere, ShutdownComplete, Passed,
         RequestsMade, RequestMade, Visited, Up
  <2>10. CASE AdminCrash
    <3>1. targets' = {} /\ sd' = <<0, 1>> /\ late' = {}
      BY <2>10 DEF AdminCrash, Crash, Forget, AdminInv, AdminType
    <3> QED
      BY <2>1, <2>2, <3>1 DEF AdminInv, AdminType, TargetsThere, ShutdownComplete, RequestsMade
  <2> QED
    BY <2>4, <2>5, <2>6, <2>7, <2>8, <2>9, <2>10 DEF AdminNext, AdminStep
<1> QED
  BY <1>2, <1>3, PTL DEF AdminSpec

\* machine-shutdown-running:36-48 misses none of the machines that were up when it
\* started: whatever is launched, ends, is killed or continued beside it, its third loop
\* leaves none of them up behind.
THEOREM ShutdownMissesNone == NoConfig => (AdminSpec => []ShutdownComplete)
<1>1. AdminInv => ShutdownComplete
  BY DEF AdminInv
<1> QED
  BY <1>1, AdminInductive, PTL

\* kill -9 of machine-shutdown-running ends none of them that was not asked before,
\* through the guest agent and through ACPI.
THEOREM KillComesLast == NoConfig => (AdminSpec => AskedBeforeKill)
<1> SUFFICES ASSUME NoConfig PROVE AdminSpec => AskedBeforeKill
  OBVIOUS
<1>1. ASSUME AdminInv, sd[1] = 4, NEW b \in targets, Up(b)
      PROVE  {<<b, "ga">>, <<b, "acpi">>} \subseteq asked
  <2>1. late = {} /\ Visited(1, MachineOf[b]) /\ Visited(2, MachineOf[b])
    BY <1>1 DEF AdminInv, RequestsMade, Visited
  <2> QED
    BY <1>1, <2>1 DEF AdminInv, RequestsMade, RequestMade
<1>2. AdminInv /\ [AdminNext]_adminVars =>
        [\A b \in targets : sd[1] = 4 /\ sd'[1] = 3 /\ Up(b) /\ qemu'[b] = "none" =>
             {<<b, "ga">>, <<b, "acpi">>} \subseteq asked]_adminVars
  BY <1>1
<1> QED
  BY <1>2, AdminInductive, PTL DEF AdminSpec, AskedBeforeKill
=============================================================================
