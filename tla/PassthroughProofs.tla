------------------------- MODULE PassthroughProofs -------------------------
(***************************************************************************)
(* Proofs about Passthrough, for all machines and devices and a careful    *)
(* operator: guests keep their devices, and a launch finds them ready if   *)
(* no launch is killed and vfio-unbind is not used.                        *)
(***************************************************************************)
EXTENDS Passthrough, TLAPS

\* What the operator sees to
Orderly == Careful /\ ~Interrupts /\ "vfio-unbind" \notin Tools

\* The launch has taken its decision about its argument and works on it.
Working(m) == launch[m] \in {"override", "unbind", "probe"}

\* Arguments the launch has dealt with
Passed(m) == {k \in DOMAIN PreRunArgs(m) : k < arg[m]}

\* Only the launch works on the devices of a machine in pre_run; a tool works on
\* devices of machines that are down only.
Alone ==
    \A m \in Machines :
        /\ InPreRun(m) => \A n \in Sharing(m) : ~InPreRun(n)
        /\ launch[m] # "down" => \A d \in DevicesOf(m) : tool[d] = Idle

\* How far vfio-bind is with its argument
Progress ==
    \A m \in Machines :
        /\ Working(m) => Arg(m) \in Devices
        /\ launch[m] \in {"unbind", "probe"} => override[Arg(m)] = "vfio-pci"
        /\ launch[m] = "probe" => driver[Arg(m)] \in {"none", "vfio-pci"}
        /\ launch[m] \in {"qemu", "running"} => Passed(m) = DOMAIN PreRunArgs(m)

\* What was dealt with is on vfio-pci.
PassedBound ==
    \A m \in Machines : launch[m] # "down" =>
        \A k \in Passed(m) :
            PreRunArgs(m)[k] \in Devices /\ driver[PreRunArgs(m)[k]] = "vfio-pci"

\* The device a launch works on is one that nobody relies on.
NotReliedOn ==
    \A m, n \in Machines : Working(m) /\ launch[n] # "down" =>
        \A k \in Passed(n) : PreRunArgs(n)[k] # Arg(m)

\* An override without its driver is somebody's unfinished work.
Unfinished ==
    \A d \in Devices : override[d] = "vfio-pci" /\ driver[d] # "vfio-pci" =>
        \/ \E m \in Machines : launch[m] \in {"unbind", "probe"} /\ Arg(m) = d
        \/ tool[d][3] \in {"newid", "unbind", "bind"}

\* How far a tool is
ToolProgress ==
    \A d \in Devices :
        /\ tool[d][1] # "vfio-unbind"
        /\ tool[d][1] = "vfio-reset" => tool[d][2] = "vfio-pci"
        /\ tool[d][1] = "idle" => tool[d] = Idle
        /\ tool[d] # Idle => tool[d][2] # "none" /\ tool[d][3] # "done"
        /\ tool[d][3] \in {"newid", "unbind", "bind"} => override[d] = tool[d][2]
        /\ tool[d][3] = "bind" => driver[d] \in {"none", tool[d][2]}

PtInv ==
    /\ PtTypeOK /\ Alone /\ Progress /\ PassedBound /\ NotReliedOn
    /\ Unfinished /\ ToolProgress

-----------------------------------------------------------------------------
\* The arguments of pre_run are a sequence, of devices and of the word that
\* genconfig.sh:150 puts between them.
LEMMA ArgsType ==
    \A m \in Machines : PreRunArgs(m) \in Seq(Devices \cup {"vfio-bind"})
<1> TAKE m \in Machines
<1>1. PreBoot[m] \in Seq(Devices) /\ GfxPt[m] \in Seq(Devices)
  BY PreBootType, GfxPtType
<1>2. Len(PreBoot[m]) \in Nat
  BY <1>1
<1>3. PreBoot[m] # <<>> => Len(PreBoot[m]) > 0
  BY <1>1
<1>4. \A k \in 1..(2 * Len(PreBoot[m])) : RunPreBoot(m)[k] \in Devices \cup {"vfio-bind"}
  <2> SUFFICES ASSUME NEW k \in 1..(2 * Len(PreBoot[m]))
               PROVE  RunPreBoot(m)[k] \in Devices \cup {"vfio-bind"}
    OBVIOUS
  <2>1. CASE k % 2 = 1
    BY <2>1 DEF RunPreBoot
  <2>2. CASE k % 2 # 1
    <3>1. k \div 2 \in 1..Len(PreBoot[m])
      BY <2>2, <1>2
    <3>2. PreBoot[m][k \div 2] \in Devices
      BY <3>1, <1>1
    <3> QED
      BY <2>2, <3>2 DEF RunPreBoot
  <2> QED
    BY <2>1, <2>2
<1>5. PreBootArgs(m) \in Seq(Devices \cup {"vfio-bind"})
  <2>1. CASE PreBoot[m] = <<>>
    BY <2>1 DEF PreBootArgs
  <2>2. CASE PreBoot[m] # <<>>
    <3> DEFINE n == 2 * Len(PreBoot[m]) - 1
    <3>1. n \in Nat
      BY <2>2, <1>2, <1>3
    <3>2. \A k \in 1..n : RunPreBoot(m)[k + 1] \in Devices \cup {"vfio-bind"}
      BY <1>2, <1>4
    <3>3. PreBootArgs(m) = [k \in 1..n |-> RunPreBoot(m)[k + 1]]
      BY <2>2 DEF PreBootArgs
    <3> QED
      BY <3>1, <3>2, <3>3
  <2> QED
    BY <2>1, <2>2
<1> QED
  BY <1>1, <1>5 DEF PreRunArgs

\* Arguments are numbered from 1 without gaps.
LEMMA ArgsDomain ==
    \A m \in Machines : \E len \in Nat : DOMAIN PreRunArgs(m) = 1..len
<1> TAKE m \in Machines
<1>1. PreRunArgs(m) \in Seq(Devices \cup {"vfio-bind"})
  BY ArgsType
<1>2. Len(PreRunArgs(m)) \in Nat /\ DOMAIN PreRunArgs(m) = 1..Len(PreRunArgs(m))
  BY <1>1
<1> QED
  BY <1>2

\* The device a launch is at is one of its machine's, and so are those it has passed.
LEMMA OwnDevices ==
    ASSUME PtTypeOK, PassedBound, NEW m \in Machines
    PROVE  /\ InPreRun(m) /\ Arg(m) \in Devices => Arg(m) \in DevicesOf(m)
           /\ launch[m] # "down" =>
                \A k \in Passed(m) : PreRunArgs(m)[k] \in DevicesOf(m)
BY DEF PtTypeOK, PassedBound, Arg, DevicesOf, Passed

\* What the step to the next argument does to the arguments passed
LEMMA NextArg ==
    ASSUME PtTypeOK, NEW m \in Machines, InPreRun(m), GoTo(m, arg[m] + 1)
    PROVE  /\ Passed(m)' = Passed(m) \cup {arg[m]}
           /\ launch'[m] \in {"read", "qemu"}
           /\ launch'[m] = "qemu" => Passed(m)' = DOMAIN PreRunArgs(m)
           /\ \A n \in Machines \ {m} :
                Passed(n)' = Passed(n) /\ Arg(n)' = Arg(n) /\ launch'[n] = launch[n]
<1>1. PICK len \in Nat : DOMAIN PreRunArgs(m) = 1..len
  BY ArgsDomain
<1>2. arg[m] \in 1..len /\ arg'[m] = arg[m] + 1
  BY <1>1 DEF PtTypeOK, GoTo
<1>3. Passed(m) = {k \in 1..len : k < arg[m]} /\ Passed(m)' = {k \in 1..len : k < arg[m] + 1}
  BY <1>1, <1>2 DEF Passed
<1>4. Passed(m)' = Passed(m) \cup {arg[m]}
  BY <1>2, <1>3
<1>5. launch'[m] = IF arg[m] + 1 \in 1..len THEN "read" ELSE "qemu"
  BY <1>1 DEF PtTypeOK, GoTo
<1>6. launch'[m] = "qemu" => Passed(m)' = 1..len
  BY <1>2, <1>3, <1>5
<1>7. \A n \in Machines \ {m} :
        Passed(n)' = Passed(n) /\ Arg(n)' = Arg(n) /\ launch'[n] = launch[n]
  BY DEF PtTypeOK, GoTo, Passed, Arg
<1> QED
  BY <1>1, <1>4, <1>5, <1>6, <1>7

-----------------------------------------------------------------------------
(* PtInv and the steps, one lemma per action *)

\* pre_run starts where no other launch and no tool works on the machine's devices.
LEMMA PreRunKeeps ==
    ASSUME Orderly, PtInv, NEW m \in Machines, PreRun(m)
    PROVE  PtInv'
<1> USE DEF PtInv, PreRun, GoTo, Undisturbed
<1>1. PtTypeOK'
  BY DEF PtTypeOK, InPreRun
<1>2. Alone'
  BY DEF Orderly, Alone, InPreRun, Sharing
<1>3. Progress'
  <2>1. PICK len \in Nat : DOMAIN PreRunArgs(m) = 1..len
    BY ArgsDomain
  <2>2. arg'[m] = 1 /\ launch'[m] = IF 1 \in 1..len THEN "read" ELSE "qemu"
    BY <2>1 DEF PtTypeOK
  <2>3. launch'[m] = "qemu" => Passed(m)' = 1..len
    BY <2>1, <2>2 DEF Passed
  <2>4. \A n \in Machines \ {m} :
          Passed(n)' = Passed(n) /\ Arg(n)' = Arg(n) /\ launch'[n] = launch[n]
    BY DEF PtTypeOK, Passed, Arg
  <2> QED
    BY <2>1, <2>2, <2>3, <2>4 DEF Progress, Working
<1>4. PassedBound'
  BY ArgsDomain DEF PassedBound, Passed, PtTypeOK
<1>5. NotReliedOn'
  BY ArgsDomain DEF NotReliedOn, Working, Passed, Arg, PtTypeOK
<1>6. Unfinished'
  BY DEF Unfinished, Arg
<1>8. ToolProgress'
  BY DEF ToolProgress
<1> QED
  BY <1>1, <1>2, <1>3, <1>4, <1>5, <1>6, <1>8

\* What vfio-bind passes over as claimed is on vfio-pci.
LEMMA VfioBindClaimedKeeps ==
    ASSUME Orderly, PtInv, NEW m \in Machines, VfioBindClaimed(m)
    PROVE  PtInv'
<1> USE DEF PtInv, VfioBindClaimed, GoTo, Claimed
<1>0. Arg(m) \in Devices /\ driver'[Arg(m)] = "vfio-pci"
  <2>1. InPreRun(m) /\ Arg(m) \in DevicesOf(m)
    BY OwnDevices DEF InPreRun
  <2>2. tool[Arg(m)] = Idle
    BY <2>1 DEF Alone
  <2>3. ASSUME NEW n \in Machines, launch[n] \in {"unbind", "probe"}
        PROVE  Arg(n) # Arg(m)
    <3>1. InPreRun(n) /\ n # m /\ (Arg(n) \in Devices => Arg(n) \in DevicesOf(n))
      BY <2>3, OwnDevices DEF InPreRun
    <3> QED
      BY <2>1, <3>1 DEF Alone, Sharing
  <2> QED
    BY <2>2, <2>3 DEF Unfinished, Idle
<1>1. PtTypeOK'
  BY DEF PtTypeOK, InPreRun
<1>2. Alone'
  BY DEF Alone, InPreRun
<1>3. Progress'
  <2>1. InPreRun(m)
    BY DEF InPreRun
  <2>2. PtTypeOK
    OBVIOUS
  <2>3. \A d \in Devices : driver'[d] = driver[d] \/ driver'[d] = "vfio-pci"
    BY <1>0 DEF PtTypeOK
  <2>4. \A n \in Machines \ {m} :
          Passed(n)' = Passed(n) /\ Arg(n)' = Arg(n) /\ launch'[n] = launch[n]
    BY NextArg, <2>1, <2>2
  <2>5. launch'[m] \in {"read", "qemu"}
        /\ (launch'[m] = "qemu" => Passed(m)' = DOMAIN PreRunArgs(m))
    BY NextArg, <2>1, <2>2
  <2> QED
    BY <2>3, <2>4, <2>5 DEF Progress, Working
<1>4. PassedBound'
  <2>1. InPreRun(m)
    BY DEF InPreRun
  <2>2. PtTypeOK
    OBVIOUS
  <2>3. driver'[Arg(m)] = "vfio-pci" /\ Arg(m) \in Devices
    BY <1>0
  <2>4. \A d \in Devices : driver[d] = "vfio-pci" => driver'[d] = "vfio-pci"
    BY DEF PtTypeOK
  <2> SUFFICES ASSUME NEW n \in Machines, launch'[n] # "down", NEW k \in Passed(n)'
               PROVE  PreRunArgs(n)[k] \in Devices /\ driver'[PreRunArgs(n)[k]] = "vfio-pci"
    BY DEF PassedBound
  <2>5. CASE k \in Passed(n) /\ launch[n] # "down"
    BY <2>4, <2>5 DEF PassedBound
  <2>6. CASE n = m /\ k = arg[m]
    BY <2>3, <2>6 DEF Arg
  <2>7. \/ k \in Passed(n) /\ launch[n] # "down"
        \/ n = m /\ k = arg[m]
    BY NextArg, <2>1, <2>2
  <2> QED
    BY <2>5, <2>6, <2>7
<1>5. NotReliedOn'
  <2>1. InPreRun(m)
    BY DEF InPreRun
  <2>2. PtTypeOK
    OBVIOUS
  <2> SUFFICES ASSUME NEW i \in Machines, NEW n \in Machines, Working(i)',
                      launch'[n] # "down", NEW k \in Passed(n)'
               PROVE  PreRunArgs(n)[k] # Arg(i)'
    BY DEF NotReliedOn
  <2>3. i # m /\ Working(i) /\ Arg(i)' = Arg(i) /\ Arg(i) \in Devices
    BY NextArg, <2>1, <2>2 DEF Working, Progress
  <2>4. CASE k \in Passed(n) /\ launch[n] # "down"
    BY <2>3, <2>4 DEF NotReliedOn
  <2>5. CASE n = m /\ k = arg[m]
    <3>1. InPreRun(i) /\ Arg(i) \in DevicesOf(i) /\ Arg(m) \in DevicesOf(m)
      BY OwnDevices, <1>0, <2>1, <2>2, <2>3 DEF Working, InPreRun
    <3>2. Arg(i) # Arg(m)
      BY <3>1, <2>1, <2>3 DEF Alone, Sharing
    <3> QED
      BY <2>5, <3>2, <2>3 DEF Arg
  <2>6. \/ k \in Passed(n) /\ launch[n] # "down"
        \/ n = m /\ k = arg[m]
    BY NextArg, <2>1, <2>2
  <2> QED
    BY <2>4, <2>5, <2>6
<1>6. Unfinished'
  BY DEF Unfinished, Arg
<1>8. ToolProgress'
  BY DEF ToolProgress
<1> QED
  BY <1>1, <1>2, <1>3, <1>4, <1>5, <1>6, <1>8

\* An argument that is no device ends the launch.
LEMMA VfioBindNonexistingKeeps ==
    ASSUME Orderly, PtInv, NEW m \in Machines, VfioBindNonexisting(m)
    PROVE  PtInv'
<1> USE DEF PtInv, VfioBindNonexisting
<1>1. PtTypeOK'
  BY DEF PtTypeOK, InPreRun
<1>2. Alone'
  BY DEF Alone, InPreRun
<1>3. Progress'
  BY DEF Progress, Working, Passed, Arg
<1>4. PassedBound'
  BY DEF PassedBound, Passed
<1>5. NotReliedOn'
  BY DEF NotReliedOn, Working, Passed, Arg
<1>6. Unfinished'
  BY DEF Unfinished, Arg
<1>8. ToolProgress'
  BY DEF ToolProgress
<1> QED
  BY <1>1, <1>2, <1>3, <1>4, <1>5, <1>6, <1>8

\* A device that is not claimed is one nobody relies on.
LEMMA VfioBindReadKeeps ==
    ASSUME Orderly, PtInv, NEW m \in Machines, VfioBindRead(m)
    PROVE  PtInv'
<1> USE DEF PtInv, VfioBindRead, Claimed
<1>1. PtTypeOK'
  BY DEF PtTypeOK, InPreRun
<1>2. Alone'
  BY DEF Alone, InPreRun
<1>3. Progress'
  BY DEF Progress, Working, Passed, Arg
<1>4. PassedBound'
  BY DEF PassedBound, Passed
<1>5. NotReliedOn'
  <2>1. \A n \in Machines : Passed(n)' = Passed(n) /\ Arg(n)' = Arg(n)
    BY DEF Passed, Arg
  <2>2. \A n \in Machines : launch[n] # "down" =>
          \A k \in Passed(n) : PreRunArgs(n)[k] # Arg(m)
    BY DEF PassedBound
  <2> QED
    BY <2>1, <2>2 DEF NotReliedOn, Working, PtTypeOK
<1>6. Unfinished'
  BY DEF Unfinished, Arg
<1>8. ToolProgress'
  BY DEF ToolProgress
<1> QED
  BY <1>1, <1>2, <1>3, <1>4, <1>5, <1>6, <1>8

\* The override comes before the driver is taken away.
LEMMA VfioBindOverrideKeeps ==
    ASSUME Orderly, PtInv, NEW m \in Machines, VfioBindOverride(m)
    PROVE  PtInv'
<1> USE DEF PtInv, VfioBindOverride
<1>1. PtTypeOK'
  BY DEF PtTypeOK, InPreRun
<1>2. Alone'
  BY DEF Alone, InPreRun
<1>3. Progress'
  BY DEF Progress, Working, Passed, Arg, PtTypeOK
<1>4. PassedBound'
  BY DEF PassedBound, Passed
<1>5. NotReliedOn'
  BY DEF NotReliedOn, Working, Passed, Arg
<1>6. Unfinished'
  BY DEF Unfinished, Arg, PtTypeOK
<1>7. ToolProgress'
  <2>1. tool[Arg(m)] = Idle
    BY OwnDevices DEF Alone, Progress, Working, InPreRun
  <2> QED
    BY <2>1 DEF ToolProgress, Idle, PtTypeOK
<1> QED
  BY <1>1, <1>2, <1>3, <1>4, <1>5, <1>6, <1>7

\* The device that loses its driver is one nobody relies on.
LEMMA VfioBindUnbindKeeps ==
    ASSUME Orderly, PtInv, NEW m \in Machines, VfioBindUnbind(m)
    PROVE  PtInv'
<1> USE DEF PtInv, VfioBindUnbind, Unbound
<1>1. PtTypeOK'
  BY DEF PtTypeOK, InPreRun
<1>2. Alone'
  BY DEF Alone, InPreRun
<1>3. Progress'
  BY DEF Progress, Working, Passed, Arg, PtTypeOK
<1>4. PassedBound'
  <2>1. \A n \in Machines : Passed(n)' = Passed(n) /\ (launch'[n] # "down" => launch[n] # "down")
    BY DEF Passed, PtTypeOK
  <2>2. \A n \in Machines : launch[n] # "down" =>
          \A k \in Passed(n) : PreRunArgs(n)[k] # Arg(m)
    BY DEF NotReliedOn, Working
  <2> QED
    BY <2>1, <2>2 DEF PassedBound, PtTypeOK
<1>5. NotReliedOn'
  BY DEF NotReliedOn, Working, Passed, Arg
<1>6. Unfinished'
  BY DEF Unfinished, Arg
<1>7. ToolProgress'
  BY DEF ToolProgress
<1> QED
  BY <1>1, <1>2, <1>3, <1>4, <1>5, <1>6, <1>7

\* With the override in place the probe finds vfio-pci.
LEMMA VfioBindProbeKeeps ==
    ASSUME Orderly, PtInv, NEW m \in Machines, VfioBindProbe(m)
    PROVE  PtInv'
<1> USE DEF PtInv, VfioBindProbe, GoTo, Probed, Matching
<1>0. Arg(m) \in Devices /\ driver'[Arg(m)] = "vfio-pci"
  BY DEF Progress, Working, PtTypeOK
<1>1. PtTypeOK'
  <2>1. Arg(m) \in Devices /\ driver[Arg(m)] \in {"none", "host", "vfio-pci"}
    BY DEF Progress, Working, PtTypeOK
  <2>2. driver' \in [Devices -> {"none", "host", "vfio-pci"}]
    BY <2>1 DEF PtTypeOK
  <2>3. arg[m] + 1 \in Nat
    BY DEF PtTypeOK
  <2> QED
    BY <2>2, <2>3 DEF PtTypeOK, InPreRun
<1>2. Alone'
  BY DEF Alone, InPreRun
<1>3. Progress'
  <2>1. InPreRun(m)
    BY DEF InPreRun
  <2>2. PtTypeOK
    OBVIOUS
  <2>3. \A d \in Devices : driver'[d] = driver[d] \/ driver'[d] = "vfio-pci"
    BY <1>0 DEF PtTypeOK
  <2>4. \A n \in Machines \ {m} :
          Passed(n)' = Passed(n) /\ Arg(n)' = Arg(n) /\ launch'[n] = launch[n]
    BY NextArg, <2>1, <2>2
  <2>5. launch'[m] \in {"read", "qemu"}
        /\ (launch'[m] = "qemu" => Passed(m)' = DOMAIN PreRunArgs(m))
    BY NextArg, <2>1, <2>2
  <2> QED
    BY <2>3, <2>4, <2>5 DEF Progress, Working
<1>4. PassedBound'
  <2>1. InPreRun(m)
    BY DEF InPreRun
  <2>2. PtTypeOK
    OBVIOUS
  <2>3. driver'[Arg(m)] = "vfio-pci" /\ Arg(m) \in Devices
    BY <1>0
  <2>4. \A d \in Devices : driver[d] = "vfio-pci" => driver'[d] = "vfio-pci"
    BY DEF PtTypeOK
  <2> SUFFICES ASSUME NEW n \in Machines, launch'[n] # "down", NEW k \in Passed(n)'
               PROVE  PreRunArgs(n)[k] \in Devices /\ driver'[PreRunArgs(n)[k]] = "vfio-pci"
    BY DEF PassedBound
  <2>5. CASE k \in Passed(n) /\ launch[n] # "down"
    BY <2>4, <2>5 DEF PassedBound
  <2>6. CASE n = m /\ k = arg[m]
    BY <2>3, <2>6 DEF Arg
  <2>7. \/ k \in Passed(n) /\ launch[n] # "down"
        \/ n = m /\ k = arg[m]
    BY NextArg, <2>1, <2>2
  <2> QED
    BY <2>5, <2>6, <2>7
<1>5. NotReliedOn'
  <2>1. InPreRun(m)
    BY DEF InPreRun
  <2>2. PtTypeOK
    OBVIOUS
  <2> SUFFICES ASSUME NEW i \in Machines, NEW n \in Machines, Working(i)',
                      launch'[n] # "down", NEW k \in Passed(n)'
               PROVE  PreRunArgs(n)[k] # Arg(i)'
    BY DEF NotReliedOn
  <2>3. i # m /\ Working(i) /\ Arg(i)' = Arg(i) /\ Arg(i) \in Devices
    BY NextArg, <2>1, <2>2 DEF Working, Progress
  <2>4. CASE k \in Passed(n) /\ launch[n] # "down"
    BY <2>3, <2>4 DEF NotReliedOn
  <2>5. CASE n = m /\ k = arg[m]
    <3>1. InPreRun(i) /\ Arg(i) \in DevicesOf(i) /\ Arg(m) \in DevicesOf(m)
      BY OwnDevices, <1>0, <2>1, <2>2, <2>3 DEF Working, InPreRun
    <3>2. Arg(i) # Arg(m)
      BY <3>1, <2>1, <2>3 DEF Alone, Sharing
    <3> QED
      BY <2>5, <3>2, <2>3 DEF Arg
  <2>6. \/ k \in Passed(n) /\ launch[n] # "down"
        \/ n = m /\ k = arg[m]
    BY NextArg, <2>1, <2>2
  <2> QED
    BY <2>4, <2>5, <2>6
<1>6. Unfinished'
  <2>1. InPreRun(m)
    BY DEF InPreRun
  <2>2. PtTypeOK
    OBVIOUS
  <2>3. driver'[Arg(m)] = "vfio-pci" /\ Arg(m) \in Devices
    BY <1>0
  <2>4. \A d \in Devices \ {Arg(m)} : driver'[d] = driver[d]
    BY DEF PtTypeOK
  <2> SUFFICES ASSUME NEW d \in Devices \ {Arg(m)}, override[d] = "vfio-pci",
                      driver[d] # "vfio-pci", tool[d][3] \notin {"newid", "unbind", "bind"}
               PROVE  \E n \in Machines : launch'[n] \in {"unbind", "probe"} /\ Arg(n)' = d
    BY <2>3, <2>4 DEF Unfinished
  <2>5. PICK n \in Machines : launch[n] \in {"unbind", "probe"} /\ Arg(n) = d
    BY DEF Unfinished
  <2>6. Arg(n)' = Arg(n) /\ launch'[n] = launch[n]
    BY NextArg, <2>1, <2>2, <2>5
  <2> QED
    BY <2>5, <2>6
<1>7. ToolProgress'
  <2>1. tool[Arg(m)] = Idle
    BY OwnDevices DEF Alone, Progress, Working, InPreRun
  <2> QED
    BY <2>1 DEF ToolProgress, Idle, PtTypeOK
<1> QED
  BY <1>1, <1>2, <1>3, <1>4, <1>5, <1>6, <1>7

\* QEMU opens devices that are on vfio-pci and not in use.
LEMMA OnRunKeeps ==
    ASSUME Orderly, PtInv, NEW m \in Machines, OnRun(m)
    PROVE  PtInv'
<1> USE DEF PtInv, OnRun, CanOpen
<1>1. PtTypeOK'
  BY DEF PtTypeOK, InPreRun
<1>2. Alone'
  BY DEF Alone, InPreRun
<1>3. Progress'
  BY DEF Progress, Working, Passed, Arg
<1>4. PassedBound'
  BY DEF PassedBound, Passed
<1>5. NotReliedOn'
  BY DEF NotReliedOn, Working, Passed, Arg
<1>6. Unfinished'
  BY DEF Unfinished, Arg
<1>8. ToolProgress'
  BY DEF ToolProgress
<1> QED
  BY <1>1, <1>2, <1>3, <1>4, <1>5, <1>6, <1>8

\* A guest that ends changes no device.
LEMMA GuestEndsKeeps ==
    ASSUME Orderly, PtInv, NEW m \in Machines, GuestEnds(m)
    PROVE  PtInv'
<1> USE DEF PtInv, GuestEnds
<1>1. PtTypeOK'
  BY DEF PtTypeOK, InPreRun
<1>2. Alone'
  BY DEF Alone, InPreRun
<1>3. Progress'
  BY DEF Progress, Working, Passed, Arg
<1>4. PassedBound'
  BY DEF PassedBound, Passed
<1>5. NotReliedOn'
  BY DEF NotReliedOn, Working, Passed, Arg
<1>6. Unfinished'
  BY DEF Unfinished, Arg
<1>8. ToolProgress'
  BY DEF ToolProgress
<1> QED
  BY <1>1, <1>2, <1>3, <1>4, <1>5, <1>6, <1>8

\* A tool starts on a device at rest.
LEMMA ToolStartKeeps ==
    ASSUME Orderly, PtInv, NEW d \in Devices, NEW cmd \in Tools, NEW x \in {"host", "vfio-pci"},
           ToolStart(d, cmd, x)
    PROVE  PtInv'
<1> USE DEF PtInv, ToolStart, AtRest
<1>1. PtTypeOK'
  BY ToolsType DEF PtTypeOK, InPreRun
<1>2. Alone'
  BY DEF Orderly, Alone, InPreRun
<1>3. Unfinished'
  BY DEF Idle, Unfinished, Arg
<1>4. ToolProgress'
  BY ToolsType DEF Orderly, ToolProgress
<1>5. Progress' /\ PassedBound' /\ NotReliedOn'
  BY DEF Progress, Working, Passed, Arg, PassedBound, NotReliedOn
<1> QED
  BY <1>1, <1>2, <1>3, <1>4, <1>5

\* A tool leaves a claimed device alone.
LEMMA ToolClaimedKeeps ==
    ASSUME Orderly, PtInv, NEW d \in Devices, ToolClaimed(d)
    PROVE  PtInv'
<1> USE DEF PtInv, ToolClaimed, ToolAt
<1>1. PtTypeOK'
  BY DEF Idle, PtTypeOK, InPreRun
<1>2. Alone'
  BY DEF Alone, InPreRun
<1>3. Unfinished'
  BY DEF Unfinished, Arg
<1>4. ToolProgress'
  BY DEF Idle, ToolProgress
<1>5. Progress' /\ PassedBound' /\ NotReliedOn'
  BY DEF Progress, Working, Passed, Arg, PassedBound, NotReliedOn
<1> QED
  BY <1>1, <1>2, <1>3, <1>4, <1>5

\* drv-bind writes the override of a device at rest.
LEMMA DrvBindOverrideKeeps ==
    ASSUME Orderly, PtInv, NEW d \in Devices, DrvBindOverride(d)
    PROVE  PtInv'
<1> USE DEF PtInv, DrvBindOverride, ToolAt, ToolStep
<1>1. PtTypeOK'
  BY DEF PtTypeOK, InPreRun
<1>2. Alone'
  BY DEF Idle, Alone, InPreRun
<1>3. Progress'
  <2>1. \A m \in Machines : Passed(m)' = Passed(m) /\ Arg(m)' = Arg(m)
    BY DEF Passed, Arg
  <2>2. \A m \in Machines : Working(m) => Arg(m) # d
    BY OwnDevices DEF Alone, Progress, Working, InPreRun, Idle
  <2> QED
    BY <2>1, <2>2 DEF Progress, Working, PtTypeOK
<1>4. Unfinished'
  BY DEF Unfinished, Arg, PtTypeOK
<1>5. ToolProgress'
  BY DEF Idle, ToolProgress, PtTypeOK
<1>6. PassedBound' /\ NotReliedOn'
  BY DEF PassedBound, Passed, NotReliedOn, Working, Arg
<1> QED
  BY <1>1, <1>2, <1>3, <1>4, <1>5, <1>6

\* vfio-reset writes the override of a device at rest.
LEMMA VfioResetOverrideKeeps ==
    ASSUME Orderly, PtInv, NEW d \in Devices, VfioResetOverride(d)
    PROVE  PtInv'
<1> USE DEF PtInv, VfioResetOverride, ToolAt, ToolStep
<1>1. PtTypeOK'
  BY DEF PtTypeOK, InPreRun
<1>2. Alone'
  BY DEF Idle, Alone, InPreRun
<1>3. Progress'
  BY DEF Progress, Working, Passed, Arg
<1>4. Unfinished'
  BY DEF Unfinished, Arg, PtTypeOK
<1>5. ToolProgress'
  BY DEF ToolProgress, PtTypeOK
<1>6. PassedBound' /\ NotReliedOn'
  BY DEF PassedBound, Passed, NotReliedOn, Working, Arg
<1> QED
  BY <1>1, <1>2, <1>3, <1>4, <1>5, <1>6

\* new_id binds a device at rest.
LEMMA VfioResetNewIdKeeps ==
    ASSUME Orderly, PtInv, NEW d \in Devices, VfioResetNewId(d)
    PROVE  PtInv'
<1> USE DEF PtInv, VfioResetNewId, ToolAt, ToolStep, Probed, Matching
<1>1. PtTypeOK'
  BY DEF PtTypeOK, InPreRun
<1>2. Alone'
  BY DEF Idle, Alone, InPreRun
<1>3. Progress'
  BY DEF Progress, Working, Passed, Arg
<1>4. PassedBound'
  BY DEF PassedBound, Passed
<1>5. Unfinished'
  BY DEF Unfinished, Arg
<1>6. ToolProgress'
  BY DEF Idle, ToolProgress
<1>7. NotReliedOn'
  BY DEF NotReliedOn, Working, Passed, Arg
<1> QED
  BY <1>1, <1>2, <1>3, <1>4, <1>5, <1>6, <1>7

\* A tool unbinds a device at rest.
LEMMA ToolUnbindKeeps ==
    ASSUME Orderly, PtInv, NEW d \in Devices, ToolUnbind(d)
    PROVE  PtInv'
<1> USE DEF PtInv, ToolUnbind, ToolAt, Unbound
<1>1. PtTypeOK'
  BY DEF Idle, PtTypeOK, InPreRun
<1>2. Alone'
  BY DEF Idle, Alone, InPreRun
<1>3. Progress'
  BY DEF Progress, Working, Passed, Arg
<1>4. PassedBound'
  <2>1. \A m \in Machines : Passed(m)' = Passed(m)
    BY DEF Passed
  <2>2. \A m \in Machines : launch[m] # "down" => d \notin DevicesOf(m)
    BY DEF Alone, Idle
  <2>3. \A m \in Machines : launch[m] # "down" =>
          \A k \in Passed(m) : PreRunArgs(m)[k] # d
    BY OwnDevices, <2>2
  <2> QED
    BY <2>1, <2>3 DEF PassedBound, PtTypeOK
<1>5. Unfinished'
  <2>1. \A m \in Machines : Arg(m)' = Arg(m)
    BY DEF Arg
  <2>2. tool'[d][3] = "bind"
    BY DEF ToolProgress, PtTypeOK
  <2>3. \A e \in Devices \ {d} : driver'[e] = driver[e] /\ tool'[e] = tool[e]
    BY DEF PtTypeOK
  <2> QED
    BY <2>1, <2>2, <2>3 DEF Unfinished
<1>6. ToolProgress'
  BY DEF Idle, ToolProgress, PtTypeOK
<1>7. NotReliedOn'
  BY DEF NotReliedOn, Working, Passed, Arg
<1> QED
  BY <1>1, <1>2, <1>3, <1>4, <1>5, <1>6, <1>7

\* A tool ends with the driver that the override names.
LEMMA ToolBindKeeps ==
    ASSUME Orderly, PtInv, NEW d \in Devices, ToolBind(d)
    PROVE  PtInv'
<1> USE DEF PtInv, ToolBind, ToolAt, BoundTo, Matching
<1>1. PtTypeOK'
  BY DEF Idle, PtTypeOK, InPreRun
<1>2. Alone'
  BY DEF Alone, InPreRun
<1>3. Progress'
  <2>1. \A m \in Machines : Passed(m)' = Passed(m) /\ Arg(m)' = Arg(m)
    BY DEF Passed, Arg
  <2>2. \A m \in Machines : Working(m) => Arg(m) # d
    BY OwnDevices DEF Alone, Progress, Working, InPreRun, Idle
  <2> QED
    BY <2>1, <2>2 DEF Progress, Working, PtTypeOK
<1>4. PassedBound'
  BY DEF PassedBound, Passed
<1>5. Unfinished'
  <2>1. \A m \in Machines : Arg(m)' = Arg(m)
    BY DEF Arg
  <2>2. override[d] = tool[d][2] /\ driver[d] \in {"none", tool[d][2]}
    BY DEF ToolProgress
  <2>3. override[d] = "vfio-pci" => driver'[d] = "vfio-pci"
    BY <2>2 DEF PtTypeOK
  <2>4. \A e \in Devices \ {d} : driver'[e] = driver[e] /\ tool'[e] = tool[e]
    BY DEF PtTypeOK
  <2> QED
    BY <2>1, <2>3, <2>4 DEF Unfinished
<1>6. ToolProgress'
  BY DEF Idle, ToolProgress
<1>7. NotReliedOn'
  BY DEF NotReliedOn, Working, Passed, Arg
<1> QED
  BY <1>1, <1>2, <1>3, <1>4, <1>5, <1>6, <1>7

\* The kernel gives a device without a driver to the one that the override names.
LEMMA KernelProbeKeeps ==
    ASSUME Orderly, PtInv, NEW d \in Devices, KernelProbe(d)
    PROVE  PtInv'
<1> USE DEF PtInv, KernelProbe, Probed, Matching
<1>1. PtTypeOK'
  BY DEF PtTypeOK, InPreRun
<1>2. Progress'
  BY DEF Progress, Working, Passed, Arg
<1>3. PassedBound'
  BY DEF PassedBound, Passed
<1>4. Unfinished'
  BY DEF Unfinished, Arg
<1>5. ToolProgress'
  <2>1. override[d] # "none" => driver'[d] = override[d]
    BY DEF PtTypeOK
  <2>2. \A e \in Devices \ {d} : driver'[e] = driver[e]
    BY DEF PtTypeOK
  <2>3. tool[d][3] = "bind" => driver'[d] \in {"none", tool[d][2]}
    BY <2>1 DEF ToolProgress, Idle
  <2> QED
    BY <2>2, <2>3 DEF ToolProgress
<1>6. Alone' /\ NotReliedOn'
  BY DEF Alone, InPreRun, NotReliedOn, Working, Passed, Arg
<1> QED
  BY <1>1, <1>2, <1>3, <1>4, <1>5, <1>6

-----------------------------------------------------------------------------
\* PtInv is an inductive invariant of the passthrough.
LEMMA PtInductive == Orderly => (PtSpec => []PtInv)
<1> SUFFICES ASSUME Orderly PROVE PtSpec => []PtInv
  OBVIOUS
<1>1. PtInit => PtInv
  BY ArgsDomain DEF PtInit, PtInv, PtTypeOK, Alone, Progress, PassedBound, NotReliedOn,
     Unfinished, ToolProgress, Working, InPreRun, Idle
<1>2. PtInv /\ [PtNext]_ptVars => PtInv'
  <2> SUFFICES ASSUME PtInv, [PtNext]_ptVars PROVE PtInv'
    OBVIOUS
  <2>1. ASSUME NEW m \in Machines, LaunchStep(m) PROVE PtInv'
    <3>1. ~Interrupt(m)
      BY DEF Interrupt, Orderly
    <3> QED
      BY <2>1, <3>1, PreRunKeeps, VfioBindClaimedKeeps, VfioBindNonexistingKeeps,
         VfioBindReadKeeps, VfioBindOverrideKeeps, VfioBindUnbindKeeps,
         VfioBindProbeKeeps, OnRunKeeps, GuestEndsKeeps DEF LaunchStep
  <2>2. ASSUME NEW d \in Devices, ToolNext(d) PROVE PtInv'
    <3>1. ~VfioUnbindOverride(d)
      BY DEF VfioUnbindOverride, PtInv, ToolProgress
    <3> QED
      BY <2>2, <3>1, ToolStartKeeps, ToolClaimedKeeps, DrvBindOverrideKeeps,
         VfioResetOverrideKeeps, VfioResetNewIdKeeps, ToolUnbindKeeps, ToolBindKeeps
         DEF ToolNext
  <2>3. ASSUME NEW d \in Devices, KernelProbe(d) PROVE PtInv'
    BY <2>3, KernelProbeKeeps
  <2>4. CASE HostRestart
    BY <2>4 DEF HostRestart, PtInv, PtTypeOK, Alone, Progress, PassedBound, NotReliedOn,
       Unfinished, ToolProgress, Working, InPreRun, Idle
  <2>5. CASE UNCHANGED ptVars
    <3>1. \A m \in Machines : Passed(m)' = Passed(m) /\ Arg(m)' = Arg(m)
      BY <2>5 DEF ptVars, Passed, Arg
    <3>2. PtTypeOK' /\ Alone' /\ ToolProgress'
      BY <2>5 DEF ptVars, PtInv, PtTypeOK, Alone, ToolProgress, InPreRun
    <3>3. Progress' /\ PassedBound'
      BY <2>5, <3>1 DEF ptVars, PtInv, Progress, PassedBound, Working
    <3>4. NotReliedOn' /\ Unfinished'
      BY <2>5, <3>1 DEF ptVars, PtInv, NotReliedOn, Unfinished, Working
    <3> QED
      BY <3>2, <3>3, <3>4 DEF PtInv
  <2> QED
    BY <2>1, <2>2, <2>3, <2>4, <2>5 DEF PtNext
<1> QED
  BY <1>1, <1>2, PTL DEF PtSpec

\* A machine has its devices on vfio-pci when QEMU starts, for any machines, devices and
\* sharing between them, as long as the launches of machines that share a device do not
\* overlap in pre_run.
THEOREM LaunchFindsDevices == Orderly => (PtSpec => []DevicesReady)
<1>1. PtInv => DevicesReady
  <2> SUFFICES ASSUME PtInv, NEW m \in Machines, launch[m] = "qemu", NEW d \in DevicesOf(m)
               PROVE  driver[d] = "vfio-pci"
    BY DEF DevicesReady
  <2>1. PICK k \in DOMAIN PreRunArgs(m) : PreRunArgs(m)[k] = d
    BY DEF DevicesOf
  <2>2. k \in Passed(m)
    BY DEF PtInv, Progress
  <2> QED
    BY <2>1, <2>2 DEF PtInv, PassedBound
<1> QED
  BY <1>1, PtInductive, PTL

-----------------------------------------------------------------------------
(***************************************************************************)
(* With launches that are killed and with vfio-unbind, an override may     *)
(* stand without its driver for good, and DevicesReady is lost. A guest    *)
(* that runs keeps its devices all the same: vfio-bind takes away only     *)
(* what is not claimed, and what a launch has dealt with stays claimed.    *)
(***************************************************************************)

\* How far vfio-bind is with its argument
Reached ==
    \A m \in Machines :
        /\ Working(m) => Arg(m) \in Devices
        /\ launch[m] \in {"unbind", "probe"} => override[Arg(m)] = "vfio-pci"
        /\ launch[m] \in {"qemu", "running"} => Passed(m) = DOMAIN PreRunArgs(m)

\* What was dealt with is claimed, by the driver or by the override.
PassedClaimed ==
    \A m \in Machines : launch[m] # "down" =>
        \A k \in Passed(m) : PreRunArgs(m)[k] \in Devices /\ Claimed(PreRunArgs(m)[k])

\* A guest has what it opened.
RunningBound ==
    \A m \in Machines : launch[m] = "running" =>
        \A d \in DevicesOf(m) : driver[d] = "vfio-pci"

\* No two guests have one device.
OneGuest ==
    \A m, n \in Machines : launch[m] = "running" /\ launch[n] = "running" =>
        m = n \/ DevicesOf(m) \cap DevicesOf(n) = {}

GuestInv ==
    /\ PtTypeOK /\ Alone /\ Reached /\ PassedClaimed /\ NotReliedOn
    /\ RunningBound /\ OneGuest

\* The device a launch works on is its machine's, and so are those it has passed; those of
\* a guest that runs are passed.
LEMMA GuestDevices ==
    ASSUME GuestInv, NEW m \in Machines
    PROVE  /\ InPreRun(m) /\ Arg(m) \in Devices => Arg(m) \in DevicesOf(m)
           /\ launch[m] # "down" =>
                \A k \in Passed(m) : PreRunArgs(m)[k] \in DevicesOf(m)
           /\ launch[m] \in {"qemu", "running"} =>
                \A d \in DevicesOf(m) : \E k \in Passed(m) : PreRunArgs(m)[k] = d
BY DEF GuestInv, PtTypeOK, PassedClaimed, Arg, DevicesOf, Passed, Reached

\* A launch goes on to the next argument when this one is claimed.
LEMMA Advance ==
    ASSUME GuestInv, NEW m \in Machines, InPreRun(m), Arg(m) \in Devices,
           GoTo(m, arg[m] + 1), UNCHANGED <<override, tool>>,
           driver' \in [Devices -> {"none", "host", "vfio-pci"}],
           \A d \in Devices : driver[d] # "none" => driver'[d] = driver[d],
           driver'[Arg(m)] = "vfio-pci" \/ override[Arg(m)] = "vfio-pci"
    PROVE  GuestInv'
<1> USE DEF GuestInv
<1>1. PtTypeOK'
  BY DEF PtTypeOK, InPreRun, GoTo
<1>2. /\ Passed(m)' = Passed(m) \cup {arg[m]}
      /\ launch'[m] \in {"read", "qemu"}
      /\ launch'[m] = "qemu" => Passed(m)' = DOMAIN PreRunArgs(m)
      /\ \A n \in Machines \ {m} :
             Passed(n)' = Passed(n) /\ Arg(n)' = Arg(n) /\ launch'[n] = launch[n]
  BY NextArg
<1>3. Alone'
  <2>1. \A n \in Machines :
            (InPreRun(n)' => InPreRun(n)) /\ (launch'[n] # "down" => launch[n] # "down")
    BY <1>2 DEF InPreRun
  <2> QED
    BY <2>1 DEF Alone, Sharing
<1>4. Reached'
  BY <1>2 DEF Reached, Working
<1>5. PassedClaimed'
  <2> SUFFICES ASSUME NEW n \in Machines, launch'[n] # "down", NEW k \in Passed(n)'
               PROVE  PreRunArgs(n)[k] \in Devices /\ Claimed(PreRunArgs(n)[k])'
    BY DEF PassedClaimed
  <2>1. CASE k \in Passed(n) /\ launch[n] # "down"
    BY <2>1 DEF PassedClaimed, Claimed
  <2>2. CASE n = m /\ k = arg[m]
    BY <2>2 DEF Arg, Claimed
  <2> QED
    BY <1>2, <2>1, <2>2 DEF InPreRun
<1>6. NotReliedOn'
  <2> SUFFICES ASSUME NEW i \in Machines, NEW n \in Machines, Working(i)',
                      launch'[n] # "down", NEW k \in Passed(n)'
               PROVE  PreRunArgs(n)[k] # Arg(i)'
    BY DEF NotReliedOn
  <2>1. i # m /\ Working(i) /\ Arg(i)' = Arg(i) /\ Arg(i) \in Devices
    BY <1>2 DEF Working, Reached
  <2>2. CASE k \in Passed(n) /\ launch[n] # "down"
    BY <2>1, <2>2 DEF NotReliedOn
  <2>3. CASE n = m /\ k = arg[m]
    <3>1. InPreRun(i) /\ Arg(i) \in DevicesOf(i) /\ Arg(m) \in DevicesOf(m)
      BY GuestDevices, <2>1 DEF Working, InPreRun
    <3>2. Arg(i) # Arg(m)
      BY <3>1, <2>1 DEF Alone, Sharing
    <3> QED
      BY <2>3, <3>2, <2>1 DEF Arg
  <2> QED
    BY <1>2, <2>2, <2>3 DEF InPreRun
<1>7. RunningBound'
  BY <1>2 DEF RunningBound, DevicesOf
<1>8. OneGuest'
  BY <1>2 DEF OneGuest
<1> QED
  BY <1>1, <1>3, <1>4, <1>5, <1>6, <1>7, <1>8

\* vfio-bind decides about a device, and writes its two files. The device it takes the
\* driver from is one that nobody has passed, so no guest's.
LEMMA BindKeeps ==
    ASSUME GuestInv, NEW m \in Machines,
           VfioBindRead(m) \/ VfioBindOverride(m) \/ VfioBindUnbind(m)
    PROVE  GuestInv'
<1> USE DEF GuestInv
<1>1. Arg(m) \in Devices /\ InPreRun(m)
  BY DEF VfioBindRead, VfioBindOverride, VfioBindUnbind, Reached, Working, InPreRun
<1>2. /\ launch' \in [Machines -> {"down", "read", "override", "unbind", "probe", "qemu", "running"}]
      /\ launch'[m] \in {"override", "unbind", "probe"}
      /\ \A n \in Machines \ {m} : launch'[n] = launch[n]
      /\ arg' = arg /\ tool' = tool
  BY DEF VfioBindRead, VfioBindOverride, VfioBindUnbind, PtTypeOK
<1>3. \A n \in Machines : Passed(n)' = Passed(n) /\ Arg(n)' = Arg(n)
  BY <1>2 DEF Passed, Arg
<1>4. \A n \in Machines : launch[n] # "down" => \A k \in Passed(n) : PreRunArgs(n)[k] # Arg(m)
  BY DEF VfioBindRead, VfioBindOverride, VfioBindUnbind, NotReliedOn, Working, PassedClaimed
<1>5. /\ driver' \in [Devices -> {"none", "host", "vfio-pci"}]
      /\ override' \in [Devices -> {"none", "host", "vfio-pci"}]
      /\ \A d \in Devices : d # Arg(m) => driver'[d] = driver[d] /\ override'[d] = override[d]
      /\ \A d \in Devices : override[d] = "vfio-pci" => override'[d] = "vfio-pci"
      /\ launch'[m] \in {"unbind", "probe"} => override'[Arg(m)] = "vfio-pci"
  BY <1>1 DEF VfioBindRead, VfioBindOverride, VfioBindUnbind, Unbound, PtTypeOK, Reached
<1>6. PtTypeOK'
  BY <1>1, <1>2, <1>5 DEF PtTypeOK, InPreRun
<1>7. Alone'
  <2>1. \A n \in Machines :
            (InPreRun(n)' => InPreRun(n)) /\ (launch'[n] # "down" => launch[n] # "down")
    BY <1>1, <1>2 DEF InPreRun
  <2> QED
    BY <1>2, <2>1 DEF Alone, Sharing
<1>8. Reached'
  BY <1>1, <1>2, <1>3, <1>5 DEF Reached, Working
<1>9. PassedClaimed'
  <2> SUFFICES ASSUME NEW n \in Machines, launch'[n] # "down", NEW k \in Passed(n)
               PROVE  PreRunArgs(n)[k] \in Devices /\ Claimed(PreRunArgs(n)[k])'
    BY <1>3 DEF PassedClaimed
  <2>1. launch[n] # "down"
    BY <1>1, <1>2 DEF InPreRun
  <2> QED
    BY <1>4, <1>5, <2>1 DEF PassedClaimed, Claimed
<1>10. NotReliedOn'
  <2> SUFFICES ASSUME NEW i \in Machines, NEW n \in Machines, Working(i)', launch'[n] # "down",
                      NEW k \in Passed(n)
               PROVE  PreRunArgs(n)[k] # Arg(i)
    BY <1>3 DEF NotReliedOn
  <2>1. launch[n] # "down" /\ (i # m => Working(i))
    BY <1>1, <1>2 DEF InPreRun, Working
  <2> QED
    BY <1>4, <2>1 DEF NotReliedOn
<1>11. RunningBound'
  <2> SUFFICES ASSUME NEW n \in Machines, launch'[n] = "running", NEW d \in DevicesOf(n)
               PROVE  driver'[d] = "vfio-pci"
    BY DEF RunningBound, DevicesOf
  <2>1. launch[n] = "running" /\ d # Arg(m) /\ d \in Devices
    BY <1>2, <1>4, GuestDevices DEF DevicesOf
  <2> QED
    BY <1>5, <2>1 DEF RunningBound
<1>12. OneGuest'
  BY <1>2 DEF OneGuest
<1> QED
  BY <1>6, <1>7, <1>8, <1>9, <1>10, <1>11, <1>12

\* A launch that ends, or is killed, leaves the devices as they are.
LEMMA EndKeeps ==
    ASSUME GuestInv, NEW m \in Machines, launch' = [launch EXCEPT ![m] = "down"],
           UNCHANGED <<driver, override, arg, tool>>
    PROVE  GuestInv'
<1> USE DEF GuestInv
<1>1. /\ launch'[m] = "down"
      /\ \A n \in Machines \ {m} : launch'[n] = launch[n]
      /\ \A n \in Machines : Passed(n)' = Passed(n) /\ Arg(n)' = Arg(n)
  BY DEF PtTypeOK, Passed, Arg
<1>2. PtTypeOK' /\ Alone'
  BY DEF PtTypeOK, InPreRun, Alone
<1>3. Reached'
  BY <1>1 DEF Reached, Working
<1>4. PassedClaimed' /\ NotReliedOn'
  BY <1>1 DEF PassedClaimed, Claimed, NotReliedOn, Working
<1>5. RunningBound' /\ OneGuest'
  BY <1>1 DEF RunningBound, OneGuest, DevicesOf
<1> QED
  BY <1>2, <1>3, <1>4, <1>5

\* QEMU opens devices that are on vfio-pci and not in use, or ends.
LEMMA OpenKeeps ==
    ASSUME GuestInv, NEW m \in Machines, OnRun(m)
    PROVE  GuestInv'
<1>1. CASE ~CanOpen(m)
  BY <1>1, EndKeeps DEF OnRun
<1>2. CASE CanOpen(m)
  <2> USE DEF GuestInv
  <2>1. /\ launch[m] = "qemu" /\ launch'[m] = "running"
        /\ \A n \in Machines \ {m} : launch'[n] = launch[n]
        /\ \A n \in Machines : Passed(n)' = Passed(n) /\ Arg(n)' = Arg(n)
        /\ UNCHANGED <<driver, override, tool>>
    BY <1>2 DEF OnRun, PtTypeOK, Passed, Arg
  <2>2. PtTypeOK'
    BY <1>2 DEF OnRun, PtTypeOK, InPreRun
  <2>3. Alone'
    <3>1. \A n \in Machines :
              (InPreRun(n)' => InPreRun(n)) /\ (launch'[n] # "down" => launch[n] # "down")
      BY <2>1 DEF InPreRun
    <3> QED
      BY <2>1, <3>1 DEF Alone, Sharing
  <2>4. Reached'
    BY <2>1 DEF Reached, Working
  <2>5. PassedClaimed' /\ NotReliedOn'
    BY <2>1 DEF PassedClaimed, Claimed, NotReliedOn, Working
  <2>6. RunningBound'
    BY <1>2, <2>1 DEF RunningBound, CanOpen, DevicesOf
  <2>7. \A n \in Machines \ {m} : launch[n] = "running" => DevicesOf(m) \cap DevicesOf(n) = {}
    BY <1>2 DEF CanOpen, Sharing
  <2>8. OneGuest'
    BY <2>1, <2>7 DEF OneGuest
  <2> QED
    BY <2>2, <2>3, <2>4, <2>5, <2>6, <2>8
<1> QED
  BY <1>1, <1>2

\* pre_run starts beside no other work on its devices.
LEMMA StartKeeps ==
    ASSUME Careful, GuestInv, NEW m \in Machines, PreRun(m)
    PROVE  GuestInv'
<1> USE DEF GuestInv, PreRun, GoTo, Undisturbed
<1>1. PtTypeOK'
  BY DEF PtTypeOK, InPreRun
<1>2. Alone'
  BY DEF Alone, InPreRun, Sharing
<1>3. PICK len \in Nat : DOMAIN PreRunArgs(m) = 1..len
  BY ArgsDomain
<1>4. arg'[m] = 1 /\ launch'[m] = IF 1 \in 1..len THEN "read" ELSE "qemu"
  BY <1>3 DEF PtTypeOK
<1>5. Passed(m)' = {} /\ (launch'[m] = "qemu" => DOMAIN PreRunArgs(m) = {})
  BY <1>3, <1>4 DEF Passed
<1>6. \A n \in Machines \ {m} :
        Passed(n)' = Passed(n) /\ Arg(n)' = Arg(n) /\ launch'[n] = launch[n]
  BY DEF PtTypeOK, Passed, Arg
<1>7. Reached'
  <2>1. ~Working(m)' /\ launch'[m] # "running"
    BY <1>4 DEF Working
  <2>2. override' = override
    OBVIOUS
  <2> HIDE DEF PreRun, GoTo, Undisturbed
  <2> QED
    BY <1>4, <1>5, <1>6, <2>1, <2>2 DEF Reached, Working
<1>8. PassedClaimed' /\ NotReliedOn'
  BY <1>4, <1>5, <1>6 DEF PassedClaimed, Claimed, NotReliedOn, Working
<1>9. RunningBound' /\ OneGuest'
  BY <1>4, <1>6 DEF RunningBound, OneGuest, DevicesOf
<1> QED
  BY <1>1, <1>2, <1>7, <1>8, <1>9

\* What happens to a device of machines that are down only touches no launch.
LEMMA RestKeeps ==
    ASSUME GuestInv, NEW d \in Devices, PtTypeOK', UNCHANGED <<launch, arg>>,
           \A m \in Machines : d \in DevicesOf(m) => launch[m] = "down",
           \A e \in Devices : e # d => /\ driver'[e] = driver[e]
                                       /\ override'[e] = override[e]
                                       /\ tool'[e] = tool[e]
    PROVE  GuestInv'
<1> USE DEF GuestInv
<1>1. \A m \in Machines : Passed(m)' = Passed(m) /\ Arg(m)' = Arg(m)
  BY DEF Passed, Arg
<1>2. \A m \in Machines : DevicesOf(m) \subseteq Devices
  BY DEF DevicesOf
<1>3. Alone'
  BY <1>2 DEF Alone, InPreRun
<1>4. Reached'
  <2>1. \A m \in Machines : Working(m) => Arg(m) \in Devices /\ Arg(m) # d
    BY GuestDevices DEF Reached, Working, InPreRun
  <2> QED
    BY <1>1, <2>1 DEF Reached, Working
<1>5. PassedClaimed'
  <2>1. \A m \in Machines : launch[m] # "down" => \A k \in Passed(m) : PreRunArgs(m)[k] # d
    BY GuestDevices
  <2> QED
    BY <1>1, <2>1 DEF PassedClaimed, Claimed
<1>6. NotReliedOn' /\ OneGuest'
  BY <1>1 DEF NotReliedOn, OneGuest, Working
<1>7. RunningBound'
  BY <1>2 DEF RunningBound, DevicesOf
<1> QED
  BY <1>3, <1>4, <1>5, <1>6, <1>7

\* The operator's commands are on devices of machines that are down.
LEMMA ToolKeeps ==
    ASSUME Careful, GuestInv, NEW d \in Devices, ToolNext(d)
    PROVE  GuestInv'
<1> USE DEF GuestInv
<1>1. \A m \in Machines : d \in DevicesOf(m) => launch[m] = "down"
  <2>1. CASE \E cmd \in Tools, x \in {"host", "vfio-pci"} : ToolStart(d, cmd, x)
    BY <2>1 DEF ToolStart, AtRest
  <2>2. CASE tool[d] # Idle
    BY <2>2 DEF Alone
  <2> QED
    BY <2>1, <2>2 DEF ToolNext, ToolClaimed, DrvBindOverride, VfioResetOverride, VfioResetNewId,
       VfioUnbindOverride, ToolUnbind, ToolBind, ToolAt, Idle
<1>2. /\ UNCHANGED <<launch, arg>>
      /\ \A e \in Devices : e # d => /\ driver'[e] = driver[e]
                                     /\ override'[e] = override[e]
                                     /\ tool'[e] = tool[e]
  BY DEF ToolNext, ToolStart, ToolClaimed, DrvBindOverride, VfioResetOverride, VfioResetNewId,
     VfioUnbindOverride, ToolUnbind, ToolBind, ToolStep, Unbound, Probed, BoundTo, PtTypeOK
<1>3. driver' \in [Devices -> {"none", "host", "vfio-pci"}]
  BY DEF ToolNext, ToolStart, ToolClaimed, DrvBindOverride, VfioResetOverride, VfioResetNewId,
     VfioUnbindOverride, ToolUnbind, ToolBind, Unbound, Probed, BoundTo, Matching, PtTypeOK
<1>4. override' \in [Devices -> {"none", "host", "vfio-pci"}]
  BY DEF ToolNext, ToolStart, ToolClaimed, DrvBindOverride, VfioResetOverride, VfioResetNewId,
     VfioUnbindOverride, ToolUnbind, ToolBind, EchoEmpty, PtTypeOK
<1>5. tool' \in [Devices -> {"idle", "drv-bind", "vfio-reset", "vfio-unbind"}
                            \X {"none", "host", "vfio-pci"}
                            \X {"done", "read", "override", "newid", "unbind", "bind"}]
  BY ToolsType DEF ToolNext, ToolStart, ToolClaimed, DrvBindOverride, VfioResetOverride, VfioResetNewId,
     VfioUnbindOverride, ToolUnbind, ToolBind, ToolStep, Idle, PtTypeOK
<1>6. PtTypeOK'
  BY <1>2, <1>3, <1>4, <1>5 DEF PtTypeOK, InPreRun
<1> QED
  BY <1>1, <1>2, <1>6, RestKeeps

\* The kernel probes what has no driver.
LEMMA ProbeKeeps ==
    ASSUME GuestInv, NEW d \in Devices, KernelProbe(d)
    PROVE  GuestInv'
<1> USE DEF GuestInv, KernelProbe, Probed, Matching
<1>1. PtTypeOK'
  BY DEF PtTypeOK, InPreRun
<1>2. \A m \in Machines : Passed(m)' = Passed(m) /\ Arg(m)' = Arg(m)
  BY DEF Passed, Arg
<1>3. \A e \in Devices : driver[e] = "vfio-pci" => driver'[e] = "vfio-pci"
  BY DEF PtTypeOK
<1>4. Alone' /\ Reached'
  BY <1>2 DEF Alone, InPreRun, Reached, Working
<1>5. PassedClaimed' /\ NotReliedOn'
  BY <1>2, <1>3 DEF PassedClaimed, Claimed, NotReliedOn, Working
<1>6. RunningBound' /\ OneGuest'
  BY <1>3 DEF RunningBound, OneGuest, DevicesOf
<1> QED
  BY <1>1, <1>4, <1>5, <1>6

\* GuestInv is an inductive invariant for a careful operator, kills included.
LEMMA GuestInductive == Careful => (PtSpec => []GuestInv)
<1> SUFFICES ASSUME Careful PROVE PtSpec => []GuestInv
  OBVIOUS
<1>1. PtInit => GuestInv
  BY DEF PtInit, GuestInv, PtTypeOK, Alone, Reached, PassedClaimed, NotReliedOn,
     RunningBound, OneGuest, Working, InPreRun, Idle
<1>2. GuestInv /\ [PtNext]_ptVars => GuestInv'
  <2> SUFFICES ASSUME GuestInv, [PtNext]_ptVars PROVE GuestInv'
    OBVIOUS
  <2>1. ASSUME NEW m \in Machines, LaunchStep(m) PROVE GuestInv'
    <3>1. CASE PreRun(m)
      BY <3>1, StartKeeps
    <3>2. CASE VfioBindClaimed(m)
      BY <3>2, Advance DEF VfioBindClaimed, Claimed, InPreRun, GuestInv, PtTypeOK
    <3>3. CASE VfioBindRead(m) \/ VfioBindOverride(m) \/ VfioBindUnbind(m)
      BY <3>3, BindKeeps
    <3>4. CASE VfioBindProbe(m)
      <4>1. InPreRun(m) /\ Arg(m) \in Devices /\ override[Arg(m)] = "vfio-pci"
        BY <3>4 DEF VfioBindProbe, InPreRun, GuestInv, Reached, Working
      <4>2. /\ driver' \in [Devices -> {"none", "host", "vfio-pci"}]
            /\ \A d \in Devices : driver[d] # "none" => driver'[d] = driver[d]
        BY <3>4, <4>1 DEF VfioBindProbe, Probed, Matching, GuestInv, PtTypeOK
      <4> QED
        BY <3>4, <4>1, <4>2, Advance DEF VfioBindProbe
    <3>5. CASE VfioBindNonexisting(m) \/ GuestEnds(m) \/ Interrupt(m)
      BY <3>5, EndKeeps DEF VfioBindNonexisting, GuestEnds, Interrupt
    <3>6. CASE OnRun(m)
      BY <3>6, OpenKeeps
    <3> QED
      BY <2>1, <3>1, <3>2, <3>3, <3>4, <3>5, <3>6 DEF LaunchStep
  <2>2. ASSUME NEW d \in Devices, ToolNext(d) PROVE GuestInv'
    BY <2>2, ToolKeeps
  <2>3. ASSUME NEW d \in Devices, KernelProbe(d) PROVE GuestInv'
    BY <2>3, ProbeKeeps
  <2>4. CASE HostRestart
    BY <2>4 DEF HostRestart, GuestInv, PtTypeOK, Alone, Reached, PassedClaimed, NotReliedOn,
       RunningBound, OneGuest, Working, InPreRun, Idle
  <2>5. CASE UNCHANGED ptVars
    <3>1. \A m \in Machines : Passed(m)' = Passed(m) /\ Arg(m)' = Arg(m)
      BY <2>5 DEF ptVars, Passed, Arg
    <3>2. PtTypeOK' /\ Alone' /\ OneGuest' /\ RunningBound'
      BY <2>5 DEF ptVars, GuestInv, PtTypeOK, Alone, OneGuest, RunningBound, InPreRun
    <3>3. Reached' /\ PassedClaimed' /\ NotReliedOn'
      BY <2>5, <3>1 DEF ptVars, GuestInv, Reached, PassedClaimed, Claimed, NotReliedOn, Working
    <3> QED
      BY <3>2, <3>3 DEF GuestInv
  <2> QED
    BY <2>1, <2>2, <2>3, <2>4, <2>5 DEF PtNext
<1> QED
  BY <1>1, <1>2, PTL DEF PtSpec

\* Every variable of the passthrough keeps its type, and a launch in pre_run is at one
\* of its arguments.
THEOREM PtTypeCorrect == Careful => (PtSpec => []PtTypeOK)
BY GuestInductive, PTL DEF GuestInv

\* A guest keeps its devices while it runs, and no two guests have one, whatever is
\* launched, fails or is killed beside it and whichever commands the operator uses, as
\* long as he keeps commands and launches on one device apart.
THEOREM RunningKeepsDevices == Careful => (PtSpec => []GuestKeepsDevices)
<1>1. GuestInv => GuestKeepsDevices
  BY DEF GuestInv, GuestKeepsDevices, RunningBound, OneGuest, Sharing
<1> QED
  BY <1>1, GuestInductive, PTL
=============================================================================
