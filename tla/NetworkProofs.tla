--------------------------- MODULE NetworkProofs ---------------------------
(***************************************************************************)
(* A running guest keeps its network devices and on-exit removes them, for *)
(* all machines, launches and interfaces. Every step of Network is one of  *)
(* Lifecycle (NetStep), so what is proved about the launches can be used.  *)
(***************************************************************************)
EXTENDS Network, LifecycleProofs, FiniteSetTheorems

USE DEF vars, bootVars, runVars, qemuVars

\* Every command of PRE_CMD leaves the launches alone, and every step of a launch that
\* touches a device is the step of Lifecycle.
LEMMA NetStep == [NetNext]_netVars => [Next]_vars
<1> SUFFICES ASSUME [NetNext]_netVars PROVE [Next]_vars
  OBVIOUS
<1>1. ASSUME NEW b \in Boots,
             \/ NetDel(b) \/ NetAdd(b) \/ NetUp(b)
             \/ NetSriov(b) \/ NetVfioBind(b) \/ NetOther(b)
      PROVE  UNCHANGED vars
  BY <1>1 DEF NetDel, NetAdd, NetUp, NetSriov, NetVfioBind, NetOther
<1>2. ASSUME NEW b \in Boots, NetScopeStart(b) \/ NetRunPre(b) \/ NetRunQemu(b)
      PROVE  Next
  BY <1>2 DEF NetScopeStart, NetRunPre, NetRunQemu, Next, HostStep, RunStep
<1>3. ASSUME NEW b \in Boots, NetPost(b)
      PROVE  Next
  BY <1>3 DEF NetPost, Next, HostStep, OnExitStep
<1>4. CASE NetCrash
  BY <1>4 DEF NetCrash, Next
<1>5. CASE UNCHANGED netVars
  BY <1>5 DEF netVars
<1> QED
  BY <1>1, <1>2, <1>3, <1>4, <1>5 DEF NetNext, Next, HostStep, RunStep, OnExitStep

\* What is proved of the launches of Lifecycle holds with their network devices.
LEMMA NetIsLifecycle == NetSpec => Spec
<1>1. NetInit => Init
  BY DEF NetInit
<1> QED
  BY <1>1, NetStep, PTL DEF NetSpec, Spec

\* So no machine has two QEMU processes, whatever network interfaces it has.
THEOREM NetOneQemu == NetSpec => []AtMostOneQemu
  BY NetIsLifecycle, OneQemu

-----------------------------------------------------------------------------
(***************************************************************************)
(* The network of a running guest. A launch deletes and creates devices by *)
(* name only, so two facts carry the argument: names are never shared      *)
(* (NamesDiffer), and two launches of a machine are never active together  *)
(* (Exclusive, from LifecycleProofs).                                      *)
(***************************************************************************)

\* The devices of one machine have different names: NET_INDEX grows with every one.
LEMMA IndexGrows ==
    ASSUME NEW m \in Machines, NEW i \in LinkIfaces(m), NEW j \in DOMAIN Ifaces[m], i < j
    PROVE  NetIndex(m, i) # NetIndex(m, j)
<1> DEFINE S == {k \in 1..(i - 1) : Ifaces[m][k] # "sriov"}
           T == {k \in 1..(j - 1) : Ifaces[m][k] # "sriov"}
<1>1. i \in Nat /\ j \in Nat
  BY IfacesType DEF LinkIfaces
<1>2. IsFiniteSet(1..(j - 1))
  BY <1>1, FS_Interval
<1>3. IsFiniteSet(T)
  BY <1>2, FS_Subset
<1>4. S \subseteq T /\ i \in T /\ i \notin S
  BY <1>1, IfacesType DEF LinkIfaces, HasLink
<1>5. Cardinality(S) # Cardinality(T)
  BY <1>3, <1>4, FS_Subset
<1> QED
  BY <1>5 DEF NetIndex

\* No two devices share a name, provided the first 11 characters tell machines apart.
LEMMA NamesDiffer ==
    ASSUME NEW m \in Machines, NEW n \in Machines,
           NEW i \in LinkIfaces(m), NEW j \in LinkIfaces(n),
           VtapName(m, i) = VtapName(n, j)
    PROVE  m = n /\ i = j
<1>1. m = n
  BY PrefixesDiffer DEF VtapName
<1>2. i \in Nat /\ j \in Nat /\ i \in DOMAIN Ifaces[m] /\ j \in DOMAIN Ifaces[m]
  BY <1>1, IfacesType DEF LinkIfaces
<1>3. NetIndex(m, i) = NetIndex(m, j)
  BY <1>1 DEF VtapName
<1> QED
  BY <1>1, <1>2, <1>3, IndexGrows

\* The launch has created the device of interface i and not begun to clean up.
Created(b, i) ==
    \/ run[b] = "pre" /\ (i < net[b][1] \/ (i = net[b][1] /\ net[b][2] = "up"))
    \/ run[b] \in {"svc", "wait"}

\* It is still there.
TapsKept ==
    \A b \in Boots : \A i \in LinkIfaces(MachineOf[b]) :
        Created(b, i) => link[VtapName(MachineOf[b], i)] = b

\* Only an interface with a device waits for its device to come up.
Position == \A b \in Boots : net[b][2] = "up" => net[b][1] \in LinkIfaces(MachineOf[b])

\* The names of a machine's devices are names of the device table.
LEMMA NameInTable ==
    ASSUME NEW m \in Machines, NEW i \in LinkIfaces(m)
    PROVE  VtapName(m, i) \in AllNames
  BY DEF AllNames, LinkNames

\* NetTypeOK and Position are kept by every step.
LEMMA NetTypeStep ==
    NetTypeOK /\ Position /\ [NetNext]_netVars => NetTypeOK' /\ Position'
<1> SUFFICES ASSUME NetTypeOK, Position, [NetNext]_netVars
             PROVE  NetTypeOK' /\ Position'
  OBVIOUS
<1> USE MachineOfType, IfacesType DEF NetTypeOK, Position
<1>0. \A b \in Boots : Len(Ifaces[MachineOf[b]]) \in Nat
                       /\ DOMAIN Ifaces[MachineOf[b]] = 1..Len(Ifaces[MachineOf[b]])
  OBVIOUS
<1>1. ASSUME NEW b \in Boots, NetDel(b) PROVE NetTypeOK' /\ Position'
  <2>1. net[b][1] \in LinkIfaces(MachineOf[b])
    BY <1>0, <1>1 DEF NetDel, At, Mode, LinkIfaces
  <2> QED
    BY <1>1, <2>1 DEF NetDel
<1>2. ASSUME NEW b \in Boots, NetAdd(b) PROVE NetTypeOK' /\ Position'
  <2>1. net[b][1] \in LinkIfaces(MachineOf[b])
    BY <1>0, <1>2 DEF NetAdd, At, Mode, LinkIfaces
  <2> QED
    BY <1>2, <2>1 DEF NetAdd
<1>3. ASSUME NEW b \in Boots, NetUp(b) PROVE NetTypeOK' /\ Position'
  <2>1. Name(b) \in AllNames
    BY <1>3, NameInTable DEF NetUp, At, Name
  <2> QED
    BY <1>0, <1>3, <2>1 DEF NetUp, At, NextIface
<1>4. ASSUME NEW b \in Boots, NetSriov(b) \/ NetVfioBind(b) \/ NetOther(b)
      PROVE  NetTypeOK' /\ Position'
  <2>1. net[b][1] \in DOMAIN Ifaces[MachineOf[b]]
    BY <1>0, <1>4 DEF NetSriov, NetVfioBind, NetOther, At
  <2>2. CASE NetSriov(b)
    BY <1>0, <2>1, <2>2 DEF NetSriov
  <2>3. CASE NetVfioBind(b)
    BY <1>0, <2>1, <2>3 DEF NetVfioBind, NextIface
  <2>4. CASE NetOther(b)
    BY <1>0, <2>1, <2>4 DEF NetOther, NextIface
  <2> QED
    BY <1>4, <2>2, <2>3, <2>4
<1>5. ASSUME NEW b \in Boots, NetScopeStart(b) PROVE NetTypeOK' /\ Position'
  BY <1>0, <1>5 DEF NetScopeStart
<1>6. ASSUME NEW b \in Boots, NetPost(b) PROVE NetTypeOK' /\ Position'
  BY <1>6 DEF NetPost
<1>7. CASE NetCrash
  BY <1>0, <1>7 DEF NetCrash
<1>8. CASE UNCHANGED netState
  BY <1>8 DEF netState
<1> QED
  BY <1>1, <1>2, <1>3, <1>4, <1>5, <1>6, <1>7, <1>8 
     DEF NetNext, netVars, NetRunPre, NetRunQemu

\* TapsKept is kept by every step: a command that deletes or creates a device of another
\* launch would be one of another active launch of the machine.
LEMMA TapsStep ==
    Inv /\ NetTypeOK /\ Position /\ TapsKept /\ [NetNext]_netVars => TapsKept'
<1> SUFFICES ASSUME Inv, NetTypeOK, Position, TapsKept, [NetNext]_netVars,
                    NEW b \in Boots, NEW i \in LinkIfaces(MachineOf[b]), Created(b, i)'
             PROVE  link'[VtapName(MachineOf[b], i)] = b
  BY DEF TapsKept
<1> DEFINE name == VtapName(MachineOf[b], i)
<1> USE MachineOfType
<1>0. name \in AllNames /\ i \in Nat /\ i <= Len(Ifaces[MachineOf[b]])
  BY NameInTable, IfacesType DEF LinkIfaces
<1>1. ASSUME NEW c \in Boots, run[b] \in {"pre", "svc", "wait"}, ScopeActive(c),
             MachineOf[c] = MachineOf[b]
      PROVE  c = b
  BY <1>1 DEF Inv, Exclusive, ScopeActive
<1>2. ASSUME NEW c \in Boots, run[c] = "pre", net[c][1] \in LinkIfaces(MachineOf[c]),
             run[b] \in {"pre", "svc", "wait"}, Name(c) = name
      PROVE  c = b /\ net[c][1] = i
  <2>1. MachineOf[c] = MachineOf[b] /\ net[c][1] = i
    BY <1>2, NamesDiffer DEF Name
  <2> QED
    BY <1>1, <1>2, <2>1 DEF ScopeActive
<1>3. ASSUME NEW c \in Boots, NetDel(c) PROVE link'[name] = b
  <2>1. net[c][1] \in LinkIfaces(MachineOf[c]) /\ run[c] = "pre" /\ run' = run
    BY <1>3, IfacesType DEF NetDel, At, Mode, LinkIfaces, NetTypeOK
  <2>2. Created(b, i) /\ ~(c = b /\ net[c][1] = i) /\ run[b] \in {"pre", "svc", "wait"}
    BY <1>0, <1>3, <2>1 DEF NetDel, Created, NetTypeOK
  <2>3. Name(c) # name
    BY <1>2, <2>1, <2>2
  <2> QED
    BY <1>0, <1>3, <2>2, <2>3 DEF NetDel, TapsKept, NetTypeOK
<1>4. ASSUME NEW c \in Boots, NetAdd(c) PROVE link'[name] = b
  <2>1. net[c][1] \in LinkIfaces(MachineOf[c]) /\ run[c] = "pre" /\ run' = run
    BY <1>4, IfacesType DEF NetAdd, At, Mode, LinkIfaces, NetTypeOK
  <2>2. run[b] \in {"pre", "svc", "wait"}
    BY <2>1 DEF Created
  <2>3. CASE Name(c) = name
    BY <1>0, <1>2, <1>4, <2>1, <2>2, <2>3 DEF NetAdd, NetTypeOK
  <2>4. CASE Name(c) # name
    <3>1. ~(c = b /\ net[c][1] = i)
      BY <2>4 DEF Name
    <3>2. net'[b][1] = net[b][1] /\ (c # b => net'[b] = net[b])
      BY <1>4 DEF NetAdd, NetTypeOK
    <3>3. Created(b, i)
      BY <2>1, <3>1, <3>2 DEF Created
    <3> QED
      BY <1>0, <1>4, <2>4, <3>3 DEF NetAdd, TapsKept, NetTypeOK
  <2> QED
    BY <2>3, <2>4
<1>5. ASSUME NEW c \in Boots, NetUp(c) PROVE link'[name] = b
  <2>1. Created(b, i)
    BY <1>0, <1>5 DEF NetUp, NextIface, At, Created, NetTypeOK
  <2> QED
    BY <1>5, <2>1 DEF NetUp, TapsKept
<1>6. ASSUME NEW c \in Boots, NetSriov(c) \/ NetVfioBind(c) \/ NetOther(c)
      PROVE  link'[name] = b
  <2>1. c = b => net[c][1] # i
    BY <1>6 DEF NetSriov, NetVfioBind, NetOther, Mode, LinkIfaces, HasLink
  <2>2. Created(b, i)
    <3>1. CASE NetSriov(c)
      BY <1>0, <2>1, <3>1 DEF NetSriov, Created, NetTypeOK
    <3>2. CASE NetVfioBind(c) \/ NetOther(c)
      BY <1>0, <2>1, <3>2 DEF NetVfioBind, NetOther, NextIface, Created, NetTypeOK
    <3> QED
      BY <1>6, <3>1, <3>2
  <2> QED
    BY <1>6, <2>2 DEF NetSriov, NetVfioBind, NetOther, TapsKept
<1>7. ASSUME NEW c \in Boots, NetScopeStart(c) PROVE link'[name] = b
  <2>1. c # b
    BY <1>0, <1>7, IfacesType
       DEF NetScopeStart, ScopeStart, Created, NetTypeOK, Inv, TypeOK, LinkIfaces
  <2>2. Created(b, i)
    BY <1>7, <2>1 DEF NetScopeStart, ScopeStart, Created, NetTypeOK, Inv, TypeOK
  <2> QED
    BY <1>7, <2>2 DEF NetScopeStart, TapsKept
<1>8. ASSUME NEW c \in Boots, NetRunPre(c) \/ NetRunQemu(c) PROVE link'[name] = b
  <2>1. CASE NetRunPre(c)
    <3>1. c = b => i < net[b][1]
      BY <1>0, <2>1, IfacesType DEF NetRunPre, NetTypeOK
    <3>2. CASE c = b
      BY <2>1, <3>1, <3>2 DEF NetRunPre, RunPre, netState, Created, TapsKept
    <3>3. CASE c # b
      <4>1. run'[b] = run[b] /\ net' = net /\ link' = link
        BY <2>1, <3>3 DEF NetRunPre, RunPre, netState, Inv, TypeOK
      <4> QED
        BY <4>1 DEF Created, TapsKept
    <3> QED
      BY <3>2, <3>3
  <2>2. CASE NetRunQemu(c)
    <3>1. Created(b, i)
      BY <2>2 DEF NetRunQemu, RunQemu, netState, Created, Inv, TypeOK
    <3> QED
      BY <2>2, <3>1 DEF NetRunQemu, netState, TapsKept
  <2> QED
    BY <1>8, <2>1, <2>2
<1>9. ASSUME NEW c \in Boots, NetPost(c) PROVE link'[name] = b
  <2> DEFINE j == CHOOSE k \in LinkIfaces(MachineOf[c]) : TRUE
             dev == VtapName(MachineOf[c], j)
  <2>1. run' = run /\ net' = net /\ onexit[c] = "post"
    BY <1>9 DEF NetPost, OnExitPost
  <2>2. Created(b, i) /\ run[b] \in {"pre", "svc", "wait"}
    BY <2>1 DEF Created
  <2>3. MachineOf[c] # MachineOf[b]
    BY <1>1, <2>1, <2>2 DEF ScopeActive, Inv, Phases, PhaseOK
  <2>4. \/ link' = link
        \/ PostLine(MachineOf[c]) = "del" /\ link' = [link EXCEPT ![dev] = Free]
    BY <1>9 DEF NetPost
  <2>5. PostLine(MachineOf[c]) = "del" => j \in LinkIfaces(MachineOf[c])
    <3>1. SUFFICES ASSUME PostLine(MachineOf[c]) = "del" PROVE LinkIfaces(MachineOf[c]) # {}
      OBVIOUS
    <3>2. PICK k \in DOMAIN Ifaces[MachineOf[c]] : PostCmds(Ifaces[MachineOf[c]][k]) = 1
      BY <3>1 DEF PostLine
    <3>3. Ifaces[MachineOf[c]][k] \in Modes
      BY <3>2, IfacesType
    <3>4. Ifaces[MachineOf[c]][k] = "macvtap"
      BY <3>2, <3>3 DEF PostCmds, Modes
    <3> QED
      BY <3>2, <3>4 DEF LinkIfaces, HasLink
  <2>6. PostLine(MachineOf[c]) = "del" => dev # name
    BY <2>3, <2>5, NamesDiffer
  <2> QED
    BY <1>0, <2>2, <2>4, <2>6 DEF TapsKept, NetTypeOK
<1>10. CASE NetCrash
  BY <1>10 DEF NetCrash, Crash, Created
<1>11. ASSUME UNCHANGED <<link, net>>, run' = run PROVE link'[name] = b
  BY <1>11 DEF Created, TapsKept
<1>12. ASSUME UNCHANGED <<link, net>>, NEW c \in Boots, Launch(c) \/ RunExit(c)
       PROVE  link'[name] = b
  <2>1. Created(b, i)
    BY <1>12 DEF Launch, RunExit, Created, Inv, TypeOK
  <2> QED
    BY <1>12, <2>1 DEF TapsKept
<1>13. ASSUME UNCHANGED netState, NEW c \in Boots, BootStart(c) \/ BootStep(c)
       PROVE  link'[name] = b
  <2>1. CASE Launch(c)
    BY <1>12, <1>13, <2>1 DEF netState
  <2>2. CASE ~Launch(c)
    <3>1. run' = run
      BY <1>13, <2>2 DEF BootStart, BootStep, BootCheck, GenConfig, KickState, KickWait,
         KickPin, KickCont
    <3> QED
      BY <1>11, <1>13, <3>1 DEF netState
  <2> QED
    BY <2>1, <2>2
<1>14. ASSUME UNCHANGED netState, NEW c \in Boots,
              \/ OnExitRead(c) \/ OnExitTest(c) \/ OnExitKill(c) \/ OnExitRm(c)
              \/ QemuInit(c) \/ QemuExit(c)
       PROVE  link'[name] = b
  <2>1. run' = run
    BY <1>14 DEF OnExitRead, OnExitTest, OnExitKill, OnExitRm, QemuInit, QemuExit
  <2> QED
    BY <1>11, <1>14, <2>1 DEF netState
<1>15. ASSUME UNCHANGED netState,
              \/ \E m \in Machines : MachineContinue(m) \/ ShutdownHard(m)
              \/ \E p \in Pids : OtherStart(p) \/ OtherExit(p)
       PROVE  link'[name] = b
  <2>1. run' = run
    BY <1>15 DEF MachineContinue, ShutdownHard, OtherStart, OtherExit
  <2> QED
    BY <1>11, <1>15, <2>1 DEF netState
<1>16. ASSUME UNCHANGED netState, NEW c \in Boots, RunExit(c) PROVE link'[name] = b
  BY <1>12, <1>16 DEF netState
<1>17. CASE UNCHANGED netVars
  BY <1>11, <1>17 DEF netVars, netState
<1> QED
  BY <1>3, <1>4, <1>5, <1>6, <1>7, <1>8, <1>9, <1>10, <1>13, <1>14, <1>15, <1>16, <1>17
     DEF NetNext

\* In every state of every behaviour, the devices a launch created are still its own.
LEMMA NetInductive == NetSpec => [](Inv /\ NetTypeOK /\ Position /\ TapsKept)
<1>1. NetInit => NetTypeOK /\ Position /\ TapsKept
  BY MachineOfType, IfacesType
     DEF NetInit, Init, NetTypeOK, Position, TapsKept, Created
<1>2. NetSpec => []Inv
  BY NetIsLifecycle, Inductive
<1> QED
  BY <1>1, <1>2, NetTypeStep, TapsStep, PTL DEF NetSpec

\* The network state has its types.
THEOREM NetTypeCorrect == NetSpec => []NetTypeOK
  BY NetInductive, PTL

\* A running guest keeps its network devices, for every number of launches, machines and
\* interfaces, provided the first 11 characters of the machine names differ.
THEOREM GuestKeepsNetwork == NetSpec => []TapOfRunning
<1>1. TapsKept => TapOfRunning
  BY DEF TapsKept, TapOfRunning, Created, LinkNames
<1> QED
  BY <1>1, NetInductive, PTL

-----------------------------------------------------------------------------
(***************************************************************************)
(* What on-exit leaves behind. Its kill must find the QEMU of its launch   *)
(* (KillFinds), its line of POST_CMD the device of its launch (TapsToPost),*)
(* and no device may be its launch's before or after the scope (TapsOwned).*)
(***************************************************************************)

\* The pid that on-exit reads, and the one it has read, is that of the launch's QEMU as
\* long as there is one that wrote its pidfile.
KillFinds ==
    \A b \in Boots :
        b \in wrote /\ qemu[b] # "none" =>
            /\ run[b] = "wait" \/ onexit[b] \in {"post", "check"} =>
                   pidfile[MachineOf[b]] \in Pids /\ proc[pidfile[MachineOf[b]]] = b
            /\ onexit[b] \in {"test", "kill"} => proc[exitp[b]] = b

\* The devices of a launch that got a QEMU up are there until on-exit removes them.
TapsToPost ==
    \A b \in Boots : \A i \in LinkIfaces(MachineOf[b]) :
        b \in wrote /\ onexit[b] = "post" => link[VtapName(MachineOf[b], i)] = b

\* The devices of a launch are of its machine, and, when on-exit removes them, of no time
\* but the one between its first command and that line of on-exit.
TapsOwned ==
    \A b \in Boots : \A n \in AllNames :
        link[n] = b =>
            /\ n \in LinkNames(MachineOf[b])
            /\ PostLine(MachineOf[b]) # "broken" =>
                   run[b] \in {"pre", "svc", "wait"} \/ onexit[b] = "post"

\* on-exit that stopped half-way had nothing to kill.
StopsLate ==
    \A b \in Boots :
        PostLine(MachineOf[b]) # "broken" /\ onexit[b] = "aborted" /\ b \in wrote =>
            qemu[b] = "none"

\* The pid of a QEMU stays in the file and in the process table until the QEMU is gone.
LEMMA KillFindsStep == Inv /\ KillFinds /\ [Next]_vars => KillFinds'
<1> SUFFICES ASSUME Inv, KillFinds, [Next]_vars, NEW b \in Boots,
                    b \in wrote', qemu'[b] # "none"
             PROVE  /\ run'[b] = "wait" \/ onexit'[b] \in {"post", "check"} =>
                           pidfile'[MachineOf[b]] \in Pids /\ proc'[pidfile'[MachineOf[b]]] = b
                    /\ onexit'[b] \in {"test", "kill"} => proc'[exitp'[b]] = b
  BY DEF KillFinds
<1> DEFINE Goal ==
             /\ run'[b] = "wait" \/ onexit'[b] \in {"post", "check"} =>
                    pidfile'[MachineOf[b]] \in Pids /\ proc'[pidfile'[MachineOf[b]]] = b
             /\ onexit'[b] \in {"test", "kill"} => proc'[exitp'[b]] = b
<1> USE MachineOfType, OwnersDiffer
<1>1. ASSUME NEW c \in Boots, qemu[b] # "none", ScopeActive(c), MachineOf[c] = MachineOf[b]
      PROVE  c = b
  BY <1>1 DEF Inv, Exclusive, ScopeActive
<1>2. ASSUME UNCHANGED <<run, onexit, exitp, proc, pidfile, wrote>>,
             qemu'[b] # "none" => qemu[b] # "none"
      PROVE  Goal
  BY <1>2 DEF KillFinds
<1>3. ASSUME NEW c \in Boots, KickCont(c) PROVE Goal
  <2>1. qemu[b] # "none"
    BY <1>3 DEF KickCont, QmpSend, Answers
  <2>2. UNCHANGED <<run, onexit, exitp, proc, pidfile, wrote>>
    BY <1>3 DEF KickCont
  <2> QED
    BY <1>2, <2>1, <2>2
<1>4. ASSUME NEW m \in Machines, MachineContinue(m) PROVE Goal
  <2>1. qemu[b] # "none"
    BY <1>4 DEF MachineContinue, QmpSend, Answers
  <2>2. UNCHANGED <<run, onexit, exitp, proc, pidfile, wrote>>
    BY <1>4 DEF MachineContinue
  <2> QED
    BY <1>2, <2>1, <2>2
<1>5. ASSUME NEW c \in Boots, BootStart(c) PROVE Goal
  BY <1>5 DEF BootStart, KillFinds, Inv, TypeOK
<1>6. ASSUME NEW c \in Boots, BootCheck(c) PROVE Goal
  <2>1. pidfile' = pidfile
    BY <1>6 DEF BootCheck, Inv, NoRunPidfile, TypeOK
  <2> QED
    BY <1>2, <1>6, <2>1 DEF BootCheck
<1>7. ASSUME NEW c \in Boots,
             GenConfig(c) \/ KickState(c) \/ KickWait(c) \/ KickPin(c)
      PROVE  Goal
  BY <1>2, <1>7 DEF GenConfig, KickState, KickWait, KickPin
<1>8. ASSUME NEW c \in Boots, Launch(c) PROVE Goal
  BY <1>8 DEF Launch, KillFinds, Inv, TypeOK
<1>9. ASSUME NEW c \in Boots, ScopeStart(c) \/ RunPre(c) PROVE Goal
  BY <1>9 DEF ScopeStart, RunPre, KillFinds, Inv, TypeOK
<1>10. ASSUME NEW c \in Boots, RunQemu(c) PROVE Goal
  <2>1. c # b
    BY <1>10 DEF RunQemu, Inv, Phases, PhaseOK
  <2>2. /\ qemu'[b] = qemu[b] /\ run'[b] = run[b] /\ onexit' = onexit /\ exitp' = exitp
        /\ pidfile' = pidfile /\ wrote' = wrote
    BY <1>10, <2>1 DEF RunQemu, Inv, TypeOK
  <2>3. \A p \in Pids : proc[p] = b => proc'[p] = b
    BY <1>10 DEF RunQemu, Allocatable, Inv, TypeOK
  <2> QED
    BY <2>2, <2>3 DEF KillFinds, Inv, Phases, PhaseOK
<1>11. ASSUME NEW c \in Boots, RunExit(c) PROVE Goal
  BY <1>11 DEF RunExit, KillFinds, Inv, TypeOK, Phases, PhaseOK
<1>12. ASSUME NEW c \in Boots, OnExitPost(c) PROVE Goal
  BY <1>12 DEF OnExitPost, KillFinds, Inv, TypeOK
<1>13. ASSUME NEW c \in Boots, OnExitRead(c) PROVE Goal
  BY <1>13 DEF OnExitRead, KillFinds, Inv, TypeOK
<1>14. ASSUME NEW c \in Boots, OnExitTest(c) PROVE Goal
  BY <1>14 DEF OnExitTest, KillFinds, Inv, TypeOK
<1>15. ASSUME NEW c \in Boots, OnExitKill(c) PROVE Goal
  <2>1. qemu[b] # "none"
    BY <1>15 DEF OnExitKill, Inv, Owned, TypeOK, Phases, PhaseOK
  <2>2. \A p \in Pids : proc[p] = b => proc'[p] = b
    BY <1>15 DEF OnExitKill, Inv, TypeOK
  <2>3. run' = run /\ pidfile' = pidfile /\ wrote' = wrote
    BY <1>15 DEF OnExitKill
  <2>4. (onexit'[b] = onexit[b] /\ exitp'[b] = exitp[b]) \/ onexit'[b] \in {"rm", "aborted"}
    BY <1>15 DEF OnExitKill, Inv, TypeOK
  <2>5. run[b] = "wait" => onexit[b] = "none"
    BY DEF Inv, Phases, PhaseOK
  <2>6. CASE onexit'[b] = onexit[b] /\ exitp'[b] = exitp[b]
    BY <2>1, <2>2, <2>3, <2>6 DEF KillFinds, Inv, Phases, PhaseOK
  <2>7. CASE onexit'[b] \in {"rm", "aborted"}
    BY <1>15, <2>1, <2>2, <2>3, <2>5, <2>7 DEF KillFinds, OnExitKill, Inv, TypeOK
  <2> QED
    BY <2>4, <2>6, <2>7
<1>16. ASSUME NEW c \in Boots, OnExitRm(c) PROVE Goal
  <2>1. CASE c = b
    BY <1>16, <2>1 DEF OnExitRm, Inv, TypeOK, Phases, PhaseOK
  <2>2. CASE c # b
    <3>1. MachineOf[c] # MachineOf[b]
      BY <1>1, <1>16, <2>2 DEF OnExitRm, ScopeActive
    <3> QED
      BY <1>16, <2>2, <3>1 DEF OnExitRm, KillFinds, Inv, TypeOK
  <2> QED
    BY <2>1, <2>2
<1>17. ASSUME NEW c \in Boots, QemuInit(c) PROVE Goal
  <2>1. CASE c = b
    <3>1. run[b] = "wait" /\ onexit[b] = "none"
      BY <1>17, <2>1 DEF QemuInit, Inv, Phases, PhaseOK
    <3> QED
      BY <1>17, <2>1, <3>1 DEF QemuInit, Inv, TypeOK
  <2>2. CASE c # b
    <3>1. qemu[b] # "none" /\ b \in wrote
      BY <1>17, <2>2 DEF QemuInit, Inv, TypeOK
    <3>2. MachineOf[c] # MachineOf[b]
      BY <1>1, <1>17, <2>2, <3>1 DEF QemuInit, ScopeActive
    <3> QED
      BY <1>17, <2>2, <3>1, <3>2 DEF QemuInit, KillFinds, Inv, TypeOK
  <2> QED
    BY <2>1, <2>2
<1>18. ASSUME NEW c \in Boots, QemuExit(c) PROVE Goal
  <2>1. c # b /\ qemu[b] # "none"
    BY <1>18 DEF QemuExit, Inv, TypeOK
  <2>2. \A p \in Pids : proc[p] = b => proc'[p] = b
    BY <1>18, <2>1 DEF QemuExit, Inv, TypeOK
  <2>3. run' = run /\ onexit' = onexit /\ exitp' = exitp /\ wrote' = wrote
    BY <1>18 DEF QemuExit
  <2>4. pidfile[MachineOf[b]] \in Pids /\ proc[pidfile[MachineOf[b]]] = b =>
            pidfile'[MachineOf[b]] = pidfile[MachineOf[b]]
    BY <1>18, <2>1 DEF QemuExit, Inv, TypeOK
  <2> QED
    BY <2>1, <2>2, <2>3, <2>4 DEF KillFinds, Inv, Phases, PhaseOK
<1>19. ASSUME NEW m \in Machines, ShutdownHard(m) PROVE Goal
  <2>1. qemu[b] # "none" /\ proc[pidfile[m]] # b
    BY <1>19 DEF ShutdownHard, Inv, TypeOK
  <2>2. \A p \in Pids : proc[p] = b => proc'[p] = b
    BY <1>19, <2>1 DEF ShutdownHard, Inv, TypeOK
  <2>3. run' = run /\ onexit' = onexit /\ exitp' = exitp /\ wrote' = wrote /\ pidfile' = pidfile
    BY <1>19 DEF ShutdownHard
  <2> QED
    BY <2>1, <2>2, <2>3 DEF KillFinds, Inv, Phases, PhaseOK
<1>20. ASSUME NEW p \in Pids, OtherStart(p) \/ OtherExit(p) PROVE Goal
  <2>1. \A q \in Pids : proc[q] = b => proc'[q] = b
    BY <1>20 DEF OtherStart, OtherExit, Allocatable, Inv, TypeOK
  <2>2. /\ run' = run /\ onexit' = onexit /\ exitp' = exitp /\ wrote' = wrote
        /\ pidfile' = pidfile /\ qemu' = qemu
    BY <1>20 DEF OtherStart, OtherExit
  <2> QED
    BY <2>1, <2>2 DEF KillFinds, Inv, Phases, PhaseOK
<1>21. CASE Crash
  BY <1>21 DEF Crash
<1>22. CASE UNCHANGED vars
  BY <1>2, <1>22
<1> QED
  BY <1>3, <1>4, <1>5, <1>6, <1>7, <1>8, <1>9, <1>10, <1>11, <1>12, <1>13, <1>14, <1>15,
     <1>16, <1>17, <1>18, <1>19, <1>20, <1>21, <1>22
     DEF Next, HostStep, BootStep, RunStep, OnExitStep

\* A line of POST_CMD that works removes the only device of its machine.
LEMMA OneDevice ==
    ASSUME NEW m \in Machines, PostLine(m) # "broken"
    PROVE  /\ PostLine(m) = "empty" => LinkIfaces(m) = {}
           /\ PostLine(m) = "del" =>
                  \E i \in LinkIfaces(m) : LinkIfaces(m) = {i}
<1> DEFINE once  == {i \in DOMAIN Ifaces[m] : PostCmds(Ifaces[m][i]) = 1}
           twice == {i \in DOMAIN Ifaces[m] : PostCmds(Ifaces[m][i]) = 2}
<1>1. twice = {} /\ ~(Cardinality(once) > 1)
  BY DEF PostLine
<1>2. \A i \in DOMAIN Ifaces[m] : Ifaces[m][i] \in Modes
  BY IfacesType
<1>3. LinkIfaces(m) = once
  BY <1>1, <1>2 DEF LinkIfaces, HasLink, PostCmds, Modes
<1>4. IsFiniteSet(once)
  <2>1. DOMAIN Ifaces[m] = 1..Len(Ifaces[m]) /\ Len(Ifaces[m]) \in Nat
    BY IfacesType
  <2>2. IsFiniteSet(1..Len(Ifaces[m]))
    BY <2>1, FS_Interval
  <2> QED
    BY <2>1, <2>2, FS_Subset
<1>5. PostLine(m) = "empty" => once = {}
  BY <1>1 DEF PostLine
<1>6. ASSUME PostLine(m) = "del" PROVE \E i \in once : once = {i}
  <2>1. once # {}
    BY <1>1, <1>6 DEF PostLine
  <2>2. Cardinality(once) \in Nat /\ Cardinality(once) # 0
    BY <1>4, <2>1, FS_CardinalityType, FS_EmptySet
  <2>3. Cardinality(once) = 1
    BY <1>1, <2>2
  <2> QED
    BY <1>4, <2>3, FS_Singleton
<1> QED
  BY <1>3, <1>5, <1>6

\* What NetPost does, told by the kind of line and the device.
LEMMA PostEffect ==
    ASSUME NetTypeOK, TypeOK, NEW b \in Boots, NetPost(b), PostLine(MachineOf[b]) # "broken"
    PROVE  \/ /\ LinkIfaces(MachineOf[b]) = {} /\ link' = link /\ onexit'[b] = "check"
           \/ \E i \in LinkIfaces(MachineOf[b]) :
                 /\ LinkIfaces(MachineOf[b]) = {i}
                 /\ \/ /\ link[VtapName(MachineOf[b], i)] = Free
                       /\ link' = link /\ onexit'[b] = "aborted"
                    \/ /\ link' = [link EXCEPT ![VtapName(MachineOf[b], i)] = Free]
                       /\ onexit'[b] = "check"
<1> DEFINE m == MachineOf[b]
<1>0. m \in Machines
  BY MachineOfType
<1>1. CASE PostLine(m) = "empty"
  BY <1>0, <1>1, OneDevice DEF NetPost
<1>2. CASE PostLine(m) = "del"
  <2>1. PICK i \in LinkIfaces(m) : LinkIfaces(m) = {i}
    BY <1>0, <1>2, OneDevice
  <2>2. (CHOOSE k \in LinkIfaces(m) : TRUE) = i
    BY <2>1
  <2> QED
    BY <1>2, <2>1, <2>2 DEF NetPost
<1>3. PostLine(m) \in {"empty", "del", "broken"}
  BY DEF PostLine
<1> QED
  BY <1>1, <1>2, <1>3

\* A step of PRE_CMD of an active launch, or on-exit's line, touches the devices of its
\* own machine only.
LEMMA TouchesOwn ==
    ASSUME Inv, NetTypeOK, Position, NEW c \in Boots,
           NetDel(c) \/ NetAdd(c) \/ NetPost(c),
           NEW n \in AllNames, link'[n] # link[n]
    PROVE  ScopeActive(c) /\ n \in LinkNames(MachineOf[c])
<1> USE MachineOfType, IfacesType
<1>1. CASE NetDel(c)
  <2>1. net[c][1] \in LinkIfaces(MachineOf[c]) /\ run[c] = "pre"
    BY <1>1 DEF NetDel, At, Mode, LinkIfaces, NetTypeOK
  <2> QED
    BY <1>1, <2>1 DEF NetDel, Name, LinkNames, NetTypeOK, ScopeActive
<1>2. CASE NetAdd(c)
  <2>1. net[c][1] \in LinkIfaces(MachineOf[c]) /\ run[c] = "pre"
    BY <1>2 DEF NetAdd, At, Mode, LinkIfaces, NetTypeOK
  <2> QED
    BY <1>2, <2>1 DEF NetAdd, Name, LinkNames, NetTypeOK, ScopeActive
<1>3. CASE NetPost(c)
  <2>1. onexit[c] = "post"
    BY <1>3 DEF NetPost, OnExitPost
  <2>2. PostLine(MachineOf[c]) # "broken"
    BY <1>3 DEF NetPost
  <2>3. PICK i \in LinkIfaces(MachineOf[c]) :
           link' = [link EXCEPT ![VtapName(MachineOf[c], i)] = Free]
    BY <1>3, <2>2, PostEffect DEF Inv
  <2> QED
    BY <2>1, <2>3 DEF LinkNames, NetTypeOK, ScopeActive
<1> QED
  BY <1>1, <1>2, <1>3

\* The steps that no command of PRE_CMD or POST_CMD takes part in.
OtherStep ==
    \/ \E b \in Boots :
          \/ ScopeStart(b) \/ RunPre(b) \/ RunQemu(b) \/ RunExit(b) \/ BootStart(b) \/ BootStep(b)
          \/ OnExitRead(b) \/ OnExitTest(b) \/ OnExitKill(b) \/ OnExitRm(b)
          \/ QemuInit(b) \/ QemuExit(b)
    \/ \E m \in Machines : MachineContinue(m) \/ ShutdownHard(m)
    \/ \E p \in Pids : OtherStart(p) \/ OtherExit(p)
    \/ UNCHANGED vars

LEMMA NetCases ==
    ASSUME [NetNext]_netVars
    PROVE  \/ OtherStep /\ link' = link
           \/ \E c \in Boots : NetDel(c) \/ NetAdd(c) \/ NetPost(c)
           \/ NetCrash
<1>1. ASSUME NEW b \in Boots, NetUp(b) \/ NetSriov(b) \/ NetVfioBind(b) \/ NetOther(b)
      PROVE  UNCHANGED vars /\ link' = link
  BY <1>1 DEF NetUp, NetSriov, NetVfioBind, NetOther
<1>2. ASSUME NEW b \in Boots, NetScopeStart(b) \/ NetRunPre(b) \/ NetRunQemu(b)
      PROVE  (ScopeStart(b) \/ RunPre(b) \/ RunQemu(b)) /\ link' = link
  BY <1>2 DEF NetScopeStart, NetRunPre, NetRunQemu, netState
<1>3. CASE UNCHANGED netVars
  BY <1>3 DEF netVars, netState, OtherStep
<1>4. ASSUME NEW b \in Boots,
             \/ NetUp(b) \/ NetSriov(b) \/ NetVfioBind(b) \/ NetOther(b)
             \/ NetScopeStart(b) \/ NetRunPre(b) \/ NetRunQemu(b)
      PROVE  OtherStep /\ link' = link
  BY <1>1, <1>2, <1>4 DEF OtherStep
<1>5. CASE /\ \/ \E b \in Boots :
                    \/ BootStart(b) \/ BootStep(b) \/ RunExit(b)
                    \/ OnExitRead(b) \/ OnExitTest(b) \/ OnExitKill(b) \/ OnExitRm(b)
                    \/ QemuInit(b) \/ QemuExit(b)
              \/ \E m \in Machines : MachineContinue(m) \/ ShutdownHard(m)
              \/ \E p \in Pids : OtherStart(p) \/ OtherExit(p)
           /\ UNCHANGED netState
  BY <1>5 DEF netState, OtherStep
<1> QED
  BY <1>3, <1>4, <1>5 DEF NetNext

\* on-exit reaches its first line only from run's trap, and without a QEMU nobody gets
\* into the history of those that wrote their pidfile.
LEMMA OtherMoves ==
    ASSUME Inv, KillFinds, OtherStep, NEW b \in Boots
    PROVE  /\ b \in wrote' /\ onexit'[b] = "post" =>
                  b \in wrote /\ (onexit[b] = "post" \/ run[b] = "wait")
           /\ run[b] \in {"pre", "svc", "wait"} \/ onexit[b] = "post" =>
                  run'[b] \in {"pre", "svc", "wait"} \/ onexit'[b] = "post"
           /\ onexit'[b] = "aborted" /\ b \in wrote' /\ qemu'[b] # "none" =>
                  onexit[b] = "aborted" /\ b \in wrote /\ qemu[b] # "none"
<1> DEFINE Goal ==
           /\ b \in wrote' /\ onexit'[b] = "post" =>
                  b \in wrote /\ (onexit[b] = "post" \/ run[b] = "wait")
           /\ run[b] \in {"pre", "svc", "wait"} \/ onexit[b] = "post" =>
                  run'[b] \in {"pre", "svc", "wait"} \/ onexit'[b] = "post"
           /\ onexit'[b] = "aborted" /\ b \in wrote' /\ qemu'[b] # "none" =>
                  onexit[b] = "aborted" /\ b \in wrote /\ qemu[b] # "none"
<1> USE MachineOfType, OwnersDiffer
<1>1. ASSUME UNCHANGED <<run, onexit, wrote>>, qemu'[b] # "none" => qemu[b] # "none"
      PROVE  Goal
  BY <1>1
<1>2. ASSUME NEW c \in Boots, ScopeStart(c) \/ RunPre(c) PROVE Goal
  BY <1>2 DEF ScopeStart, RunPre, Inv, TypeOK, Phases, PhaseOK
<1>3. ASSUME NEW c \in Boots, RunQemu(c) PROVE Goal
  BY <1>3 DEF RunQemu, Inv, TypeOK, Phases, PhaseOK
<1>4. ASSUME NEW c \in Boots, RunExit(c) PROVE Goal
  BY <1>4 DEF RunExit, Inv, TypeOK, Phases, PhaseOK
<1>5. ASSUME NEW c \in Boots, BootStart(c) PROVE Goal
  BY <1>5 DEF BootStart, ScopeActive, Inv, TypeOK
<1>6. ASSUME NEW c \in Boots, Launch(c) PROVE Goal
  BY <1>6 DEF Launch, Inv, TypeOK, Phases, PhaseOK
<1>7. ASSUME NEW c \in Boots, KickCont(c) PROVE Goal
  <2>1. qemu'[b] # "none" => qemu[b] # "none"
    BY <1>7 DEF KickCont, QmpSend, Answers
  <2> QED
    BY <1>1, <1>7, <2>1 DEF KickCont
<1>8. ASSUME NEW m \in Machines, MachineContinue(m) PROVE Goal
  <2>1. qemu'[b] # "none" => qemu[b] # "none"
    BY <1>8 DEF MachineContinue, QmpSend, Answers
  <2> QED
    BY <1>1, <1>8, <2>1 DEF MachineContinue
<1>9. ASSUME NEW c \in Boots, BootCheck(c) \/ GenConfig(c) \/ KickState(c) \/ KickWait(c) \/ KickPin(c)
      PROVE  Goal
  BY <1>1, <1>9 DEF BootCheck, GenConfig, KickState, KickWait, KickPin
<1>10. ASSUME NEW c \in Boots, OnExitRead(c) \/ OnExitTest(c) \/ OnExitRm(c) PROVE Goal
  BY <1>10 DEF OnExitRead, OnExitTest, OnExitRm, Inv, TypeOK
<1>11. ASSUME NEW c \in Boots, OnExitKill(c) PROVE Goal
  <2>1. exitp[c] \in Pids
    BY <1>11 DEF OnExitKill, Inv, Phases, PhaseOK
  <2>2. qemu'[b] # "none" => qemu[b] # "none"
    BY <1>11, <2>1 DEF OnExitKill, Inv, Owned
  <2>3. c = b /\ onexit'[b] = "aborted" => proc[exitp[b]] = Free
    BY <1>11, <2>1 DEF OnExitKill, Exists, Inv, TypeOK
  <2>4. c = b /\ onexit'[b] = "aborted" /\ b \in wrote => qemu[b] = "none"
    BY <1>11, <2>3 DEF OnExitKill, KillFinds
  <2> QED
    BY <1>11, <2>2, <2>4 DEF OnExitKill, Inv, TypeOK
<1>12. ASSUME NEW c \in Boots, QemuInit(c) PROVE Goal
  BY <1>12 DEF QemuInit, Inv, TypeOK, Phases, PhaseOK
<1>13. ASSUME NEW c \in Boots, QemuExit(c) PROVE Goal
  BY <1>1, <1>13 DEF QemuExit, Inv, TypeOK
<1>14. ASSUME NEW m \in Machines, ShutdownHard(m) PROVE Goal
  BY <1>1, <1>14 DEF ShutdownHard, Inv, TypeOK
<1>15. ASSUME NEW p \in Pids, OtherStart(p) \/ OtherExit(p) PROVE Goal
  BY <1>1, <1>15 DEF OtherStart, OtherExit
<1>16. CASE UNCHANGED vars
  BY <1>1, <1>16
<1> QED
  BY <1>2, <1>3, <1>4, <1>5, <1>6, <1>7, <1>8, <1>9, <1>10, <1>11, <1>12, <1>13, <1>14,
     <1>15, <1>16 DEF OtherStep, BootStep

\* Nobody else removes the devices of a launch before its on-exit does.
LEMMA TapsToPostStep ==
    ASSUME Inv, NetTypeOK, Position, KillFinds, TapsKept, TapsToPost, [NetNext]_netVars
    PROVE  TapsToPost'
<1> SUFFICES ASSUME NEW b \in Boots, NEW i \in LinkIfaces(MachineOf[b]),
                    b \in wrote', onexit'[b] = "post"
             PROVE  link'[VtapName(MachineOf[b], i)] = b
  BY DEF TapsToPost
<1> DEFINE name == VtapName(MachineOf[b], i)
<1> USE MachineOfType
<1>0. name \in AllNames
  BY NameInTable
<1>1. CASE OtherStep /\ link' = link
  <2>1. b \in wrote /\ (onexit[b] = "post" \/ run[b] = "wait")
    BY <1>1, OtherMoves
  <2> QED
    BY <1>1, <2>1 DEF TapsToPost, TapsKept, Created
<1>2. ASSUME NEW c \in Boots, NetDel(c) \/ NetAdd(c) \/ NetPost(c)
      PROVE  link'[name] = b
  <2>1. wrote' = wrote
    BY <1>2 DEF NetDel, NetAdd, NetPost, OnExitPost
  <2>2. onexit[b] = "post" /\ ~(c = b /\ NetPost(c))
    BY <1>2 DEF NetDel, NetAdd, NetPost, OnExitPost, Inv, TypeOK
  <2>3. c # b
    BY <1>2, <2>2 DEF NetDel, NetAdd, At, Inv, Phases, PhaseOK
  <2>4. link[name] = b
    BY <2>1, <2>2 DEF TapsToPost
  <2>5. ASSUME link'[name] # link[name] PROVE FALSE
    <3>1. ScopeActive(c) /\ name \in LinkNames(MachineOf[c])
      BY <1>0, <1>2, <2>5, TouchesOwn
    <3>2. MachineOf[c] = MachineOf[b]
      BY <3>1, NamesDiffer DEF LinkNames
    <3> QED
      BY <2>2, <2>3, <3>1, <3>2 DEF Inv, Exclusive, ScopeActive
  <2> QED
    BY <2>4, <2>5
<1>3. CASE NetCrash
  BY <1>3 DEF NetCrash, Crash
<1> QED
  BY <1>1, <1>2, <1>3, NetCases

\* A working line of POST_CMD leaves no device of its launch.
LEMMA TapsOwnedStep ==
    ASSUME Inv, NetTypeOK, Position, KillFinds, TapsOwned, [NetNext]_netVars
    PROVE  TapsOwned'
<1> SUFFICES ASSUME NEW b \in Boots, NEW n \in AllNames, link'[n] = b
             PROVE  /\ n \in LinkNames(MachineOf[b])
                    /\ PostLine(MachineOf[b]) # "broken" =>
                           run'[b] \in {"pre", "svc", "wait"} \/ onexit'[b] = "post"
  BY DEF TapsOwned
<1> DEFINE Goal == /\ n \in LinkNames(MachineOf[b])
                   /\ PostLine(MachineOf[b]) # "broken" =>
                          run'[b] \in {"pre", "svc", "wait"} \/ onexit'[b] = "post"
<1> USE MachineOfType, OwnersDiffer
<1>1. CASE OtherStep /\ link' = link
  BY <1>1, OtherMoves DEF TapsOwned
<1>2. ASSUME NEW c \in Boots, NetDel(c) PROVE Goal
  BY <1>2 DEF NetDel, TapsOwned, NetTypeOK
<1>3. ASSUME NEW c \in Boots, NetAdd(c) PROVE Goal
  <2>1. CASE link'[n] = link[n]
    BY <1>3, <2>1 DEF NetAdd, TapsOwned
  <2>2. CASE link'[n] # link[n]
    <3>1. c = b /\ run'[b] = "pre"
      BY <1>3, <2>2 DEF NetAdd, At, NetTypeOK
    <3> QED
      BY <1>3, <2>2, <3>1, TouchesOwn
  <2> QED
    BY <2>1, <2>2
<1>4. ASSUME NEW c \in Boots, NetPost(c) PROVE Goal
  <2>1. link[n] = b
    BY <1>4 DEF NetPost, NetTypeOK
  <2>2. n \in LinkNames(MachineOf[b]) /\ run' = run
    BY <1>4, <2>1 DEF TapsOwned, NetPost, OnExitPost
  <2>3. CASE c # b
    BY <1>4, <2>1, <2>2, <2>3 DEF TapsOwned, NetPost, OnExitPost, Inv, TypeOK
  <2>4. ASSUME c = b, PostLine(MachineOf[b]) # "broken" PROVE FALSE
    <3>1. PICK i \in LinkIfaces(MachineOf[b]) : n = VtapName(MachineOf[b], i)
      BY <2>2 DEF LinkNames
    <3>2. \/ link[n] = Free
          \/ link' = [link EXCEPT ![n] = Free]
      BY <1>4, <2>4, <3>1, PostEffect DEF Inv
    <3> QED
      BY <2>1, <3>2 DEF NetTypeOK
  <2> QED
    BY <2>2, <2>3, <2>4
<1>5. CASE NetCrash
  BY <1>5 DEF NetCrash
<1> QED
  BY <1>1, <1>2, <1>3, <1>4, <1>5, NetCases

\* A line of POST_CMD that fails although it could work found no device: QEMU never was up.
LEMMA StopsLateStep ==
    ASSUME Inv, NetTypeOK, KillFinds, TapsToPost, StopsLate, [NetNext]_netVars
    PROVE  StopsLate'
<1> SUFFICES ASSUME NEW b \in Boots, PostLine(MachineOf[b]) # "broken",
                    onexit'[b] = "aborted", b \in wrote', qemu'[b] # "none"
             PROVE  FALSE
  BY DEF StopsLate
<1> USE MachineOfType, OwnersDiffer
<1>1. CASE OtherStep /\ link' = link
  BY <1>1, OtherMoves DEF StopsLate
<1>2. ASSUME NEW c \in Boots, NetDel(c) \/ NetAdd(c) PROVE FALSE
  BY <1>2 DEF NetDel, NetAdd, StopsLate
<1>3. ASSUME NEW c \in Boots, NetPost(c) PROVE FALSE
  <2>1. wrote' = wrote /\ qemu' = qemu /\ onexit[c] = "post"
    BY <1>3 DEF NetPost, OnExitPost
  <2>2. CASE c # b
    BY <1>3, <2>1, <2>2 DEF NetPost, OnExitPost, StopsLate, Inv, TypeOK
  <2>3. CASE c = b
    <3>1. PICK i \in LinkIfaces(MachineOf[b]) : link[VtapName(MachineOf[b], i)] = Free
      BY <1>3, <2>3, PostEffect DEF Inv
    <3> QED
      BY <2>1, <2>3, <3>1 DEF TapsToPost
  <2> QED
    BY <2>2, <2>3
<1>4. CASE NetCrash
  BY <1>4 DEF NetCrash, Crash
<1> QED
  BY <1>1, <1>2, <1>3, <1>4, NetCases

\* on-exit cleans up after its launch, for every number of launches, machines and
\* interfaces, whatever signals and crashes come in between: it stops half-way only when
\* there is nothing to kill, and no device outlives the processes of its launch.
THEOREM ExitCleans == NetSpec => []ExitCleansUp
<1> DEFINE J == KillFinds /\ TapsToPost /\ TapsOwned /\ StopsLate
<1>1. NetInit => J
  BY OwnersDiffer DEF NetInit, Init, KillFinds, TapsToPost, TapsOwned, StopsLate
<1>2. /\ Inv /\ NetTypeOK /\ Position /\ TapsKept /\ J /\ [NetNext]_netVars => J'
  BY NetStep, KillFindsStep, TapsToPostStep, TapsOwnedStep, StopsLateStep
<1>3. J => ExitCleansUp
  BY DEF StopsLate, TapsOwned, ExitCleansUp, ScopeActive
<1> HIDE DEF J
<1> QED
  BY <1>1, <1>2, <1>3, NetInductive, PTL DEF NetSpec
=============================================================================
