---------------------------- MODULE UsbEnumProofs ----------------------------
(***************************************************************************)
(* Proof about the enumeration of USB, for every tree of controllers, hubs *)
(* and ports, every device at them, and any number of faults: addresses,   *)
(* pipes and devices that work are kept apart (EnumerationSafe). First the *)
(* types and the inductive invariant, in parts.                            *)
(***************************************************************************)
EXTENDS UsbEnum, SequenceTheorems, FiniteSetTheorems, WellFoundedInduction, TLAPS

After == {"addr", "send", "settle", "describe", "kbd", "mouse", "disk", "hub", "wait"}
PipeTypes == {"control", "bulk", "int"}
CntlSet == [st : {"off", "ports", "enum", "tick", "run", "freed"}, lock : BOOLEAN, maxaddr : Nat,
            free : Seq(Nat \ {0}), types : Seq(PipeTypes), sched : SUBSET Nat, stale : SUBSET Nat,
            freed : SUBSET Nat, stuck : BOOLEAN]
ThreadSet == [pc : {"off", "detect", "lock", "end"} \union After, pipe : Nat,
              held : SUBSET (Nat \ {0}), ok : BOOLEAN]
DeviceSet == [seen : {"rest", "ehci"}, on : BOOLEAN, addr : Nat, stuck : BOOLEAN]
Hubs == Cntls \union Ports
HidKinds == {"kbd", "mouse"}

EnumTypeOK ==
    /\ machine \in Machines
    /\ cntl \in [Cntls -> CntlSet]
    /\ hubs \in [Hubs -> [threads : Nat, devcount : Nat]]
    /\ th \in [Ports -> ThreadSet]
    /\ dev \in [DOMAIN machine.class -> DeviceSet]
    /\ pending \in Nat
    /\ DOMAIN hid = HidKinds
    /\ lost \in BOOLEAN /\ faults \in Nat

\* The connector, the hub and the controller of a port.
At(p) == machine.at[p]
Up(p) == machine.hub[p]
Ctl(p) == machine.cntl[p]

\* The thread has been started and has not ended; it has the lock; the device of
\* the port is one that answers or has; the port is the one that sees it.
Active(p) == th[p].pc \notin {"off", "end"}
Setting(p) == th[p].pc \in {"addr", "send", "settle"}
Busy(p) == th[p].pc \in After \/ th[p].ok
SeenAs(p) == IF Kind(p) = "ehci" /\ ~OnHub(p) THEN "ehci" ELSE "rest"
Seen(p) == dev[At(p)].seen = SeenAs(p)
ActiveOf(h) == {p \in PortsOf(h) : Active(p)}

\* Threads run below hubs that wait for them, and the counts miss none.
HubsRight ==
    /\ \A p \in Ports : th[p].pc # "off" /\ OnHub(p) => th[Up(p)].pc \in {"wait", "end"}
    /\ \A p \in Ports : Active(p) /\ OnHub(p) => th[Up(p)].pc = "wait"
    /\ \A p \in Ports : Active(p) => cntl[Ctl(p)].st = "enum"
    /\ \A p \in Ports : th[p].pc # "off" => cntl[Ctl(p)].st \in {"enum", "tick", "run", "freed"}
    /\ \A h \in Hubs : Cardinality(ActiveOf(h)) <= hubs[h].threads
    /\ \A p \in Ports : th[p].ok => hubs[Up(p)].devcount > 0
    /\ \A p \in Ports : th[p].ok => th[p].pc = "end" /\ cntl[Ctl(p)].st # "freed"
    /\ \A p \in Ports : th[p].ok /\ OnHub(p) => th[Up(p)].pc = "wait" \/ th[Up(p)].ok

\* The ports of companions are looked at after those of all EHCI controllers.
EhciOff == {c \in Cntls : machine.kind[c] = "ehci" /\ cntl[c].st = "off"}
PendingRight ==
    /\ Cardinality(EhciOff) <= pending
    /\ \A p \in Ports : th[p].pc # "off" /\ Kind(p) \in {"uhci", "ohci"} => pending = 0

\* resetlock belongs to the one thread that gives an address.
LockRight ==
    /\ \A p \in Ports : Setting(p) => cntl[Ctl(p)].lock
    /\ \A p, q \in Ports : Setting(p) /\ Setting(q) /\ Ctl(p) = Ctl(q) => p = q

\* Of two ports with one connector only one sees the device; what is set up is enabled.
DevicesRight ==
    /\ \A p \in Ports : th[p].pc = "lock" \/ Busy(p) => Seen(p) /\ Class(p) # "none"
    /\ \A p \in Ports : Kind(p) = "ehci" /\ ~OnHub(p) =>
          (Active(p) \/ (th[p].pc = "off" /\ cntl[Ctl(p)].st \in {"ports", "enum"}) => Seen(p))
    /\ \A p \in Ports : Busy(p) => dev[At(p)].on
    /\ \A d \in DOMAIN machine.class : dev[d].on => \E p \in Ports : At(p) = d /\ th[p].pc # "off"

\* The device of p answers on its bus, and is not one that could not be disabled: it
\* has an address below the next, unless its thread has the lock, and of its own.
Speaks(p) == Seen(p) /\ dev[At(p)].on /\ ~dev[At(p)].stuck
AddressRight ==
    /\ \A p \in Ports : Speaks(p) =>
          /\ dev[At(p)].addr <= cntl[Ctl(p)].maxaddr
             \/ (th[p].pc = "settle" /\ dev[At(p)].addr = cntl[Ctl(p)].maxaddr + 1)
          /\ dev[At(p)].addr = 0 => th[p].pc \in {"addr", "send"}
    /\ \A p, q \in Ports : At(p) # At(q) /\ Ctl(p) = Ctl(q) /\ Speaks(p) /\ Speaks(q)
          => dev[At(p)].addr # dev[At(q)].addr

\* A pipe is on the freelist once, or one thread or driver has it, or it was given back.
PipesOf(t) == t.held \union ({t.pipe} \ {0})
FreeIds(k) == {k.free[i] : i \in DOMAIN k.free}
Made(k) == 1 .. Len(k.types)
KRight(k) ==
    /\ \A i, j \in DOMAIN k.free : k.free[i] = k.free[j] => i = j
    /\ FreeIds(k) \subseteq Made(k)
    /\ k.sched \subseteq Made(k)
Apart(k, used) == used \subseteq Made(k) /\ used \intersect FreeIds(k) = {}
PipesRight ==
    /\ \A c \in Cntls : KRight(cntl[c])
    /\ \A p \in Ports : /\ Apart(cntl[Ctl(p)], PipesOf(th[p]))
                        /\ th[p].pc # "end" => th[p].held = {}
                        /\ th[p].pc \in {"off", "detect", "lock", "addr", "end"} => th[p].pipe = 0
    /\ \A p, q \in Ports : p # q /\ Ctl(p) = Ctl(q) => PipesOf(th[p]) \intersect PipesOf(th[q]) = {}
ReleaseRight ==
    \A c \in Cntls :
        /\ cntl[c].st \in {"off", "ports", "enum", "tick"} => cntl[c].freed = {}
        /\ cntl[c].st = "tick" /\ machine.kind[c] # "ohci" => Freeable(c) \intersect cntl[c].sched = {}
        /\ 0 \notin cntl[c].freed
        /\ cntl[c].freed \intersect cntl[c].sched = {}
        /\ \A p \in Ports : Ctl(p) = c => PipesOf(th[p]) \intersect cntl[c].freed = {}
        /\ ~cntl[c].stuck => cntl[c].freed \intersect cntl[c].stale = {}

\* The pipes that are polled belong to devices that work.
HidRight == \A n \in HidKinds : hid[n] # NoPipe =>
    \E p \in Ports : th[p].ok /\ Ctl(p) = hid[n][1] /\ hid[n][2] \in th[p].held

EnumInv == /\ EnumTypeOK /\ HubsRight /\ PendingRight /\ LockRight /\ DevicesRight
           /\ AddressRight /\ PipesRight /\ ReleaseRight /\ HidRight

-----------------------------------------------------------------------------
\* What EnumAssumption says of the machine.
WiresRight ==
    /\ IsFiniteSet(Cntls) /\ IsFiniteSet(Ports) /\ Cntls \intersect Ports = {}
    /\ \A c \in Cntls : machine.kind[c] \in {"uhci", "ohci", "ehci", "xhci"}
    /\ \A p \in Ports : /\ Ctl(p) \in Cntls /\ At(p) \in DOMAIN machine.class
                        /\ Kind(p) \in {"uhci", "ohci", "ehci", "xhci"}
                        /\ Up(p) \in Hubs
                        /\ ~OnHub(p) => Up(p) = Ctl(p)
                        /\ OnHub(p) => Ctl(Up(p)) = Ctl(p)
    /\ \A p, q \in Ports : p # q /\ At(p) = At(q) =>
          /\ ~OnHub(p) /\ ~OnHub(q)
          /\ \/ Kind(p) = "ehci" /\ Kind(q) \in {"uhci", "ohci"}
             \/ Kind(q) = "ehci" /\ Kind(p) \in {"uhci", "ohci"}
LEMMA Wiring == ASSUME machine \in Machines PROVE WiresRight
<1>1. Wired(machine)
  BY EnumAssumption
<1> QED
  BY <1>1 DEF Wired, WiresRight, Cntls, Ports, Ctl, At, Up, Kind, OnHub, Hubs

\* Above every set of ports there is one that is not in it.
LEMMA Tree == ASSUME machine \in Machines, NEW some, some \subseteq Ports, some # {}
              PROVE  \E p \in some : Up(p) \notin some
<1>1. Wired(machine)
  BY EnumAssumption
<1> QED
  BY <1>1 DEF Wired, Ports, Up

\* Of two ports with one connector one sees the device.
LEMMA OneSees ==
    ASSUME WiresRight, NEW p \in Ports, NEW q \in Ports, p # q, At(p) = At(q), Seen(p)
    PROVE  ~Seen(q)
  BY DEF WiresRight, Seen, SeenAs

LEMMA EnumSafe == EnumInv => EnumerationSafe
<1> SUFFICES ASSUME EnumInv PROVE EnumerationSafe
  OBVIOUS
<1>1. WiresRight
  BY Wiring DEF EnumInv, EnumTypeOK
<1>2. AddressesUnique
  <2>1. ASSUME NEW p \in Ports, OnBus(p) PROVE Seen(p) /\ dev[At(p)].on
    BY <2>1 DEF OnBus, Visible, Seen, SeenAs, At
  <2> QED
    BY <2>1 DEF AddressesUnique, EnumInv, AddressRight, Speaks, At, Ctl
<1>3. ReleasedSafely
  <2> SUFFICES ASSUME NEW c \in Cntls
               PROVE  /\ cntl[c].freed \intersect (cntl[c].sched \union InUse(c)) = {}
                      /\ ~cntl[c].stuck => cntl[c].freed \intersect cntl[c].stale = {}
                      /\ FreeIds(cntl[c]) \intersect InUse(c) = {}
    BY DEF ReleasedSafely, FreeIds
  <2>1. ASSUME NEW x \in InUse(c) PROVE x = 0 \/ \E p \in Ports : Ctl(p) = c /\ x \in PipesOf(th[p])
    BY <2>1 DEF InUse, PipesOf, Ctl
  <2>2. 0 \notin FreeIds(cntl[c]) /\ 0 \notin cntl[c].freed
    BY DEF EnumInv, EnumTypeOK, CntlSet, FreeIds, ReleaseRight
  <2> QED
    BY <2>1, <2>2 DEF EnumInv, ReleaseRight, PipesRight, Apart
<1>4. DevicesKept
  <2>1. ASSUME NEW p \in Ports, th[p].ok
        PROVE  /\ OnBus(p) /\ cntl[Ctl(p)].st # "freed"
               /\ OnHub(p) /\ th[Up(p)].pc = "end" => th[Up(p)].ok
    <3>1. Seen(p) /\ Class(p) # "none" /\ dev[At(p)].on
      BY <2>1 DEF EnumInv, DevicesRight, Busy
    <3>2. OnHub(p) => Up(p) \in Ports /\ Busy(Up(p))
      BY <2>1 DEF EnumInv, HubsRight, Busy, OnHub, Up, After
    <3>3. OnHub(p) => dev[At(Up(p))].on
      BY <3>2 DEF EnumInv, DevicesRight
    <3>4. OnBus(p)
      BY <3>1, <3>3 DEF OnBus, Visible, Seen, SeenAs, At, Up
    <3> QED
      BY <2>1, <3>4 DEF EnumInv, HubsRight
  <2> QED
    BY <2>1 DEF DevicesKept, Ctl, Up, EnumInv, HidRight, EnumTypeOK
<1> QED
  BY <1>2, <1>3, <1>4 DEF EnumerationSafe
-----------------------------------------------------------------------------
(***************************************************************************)
(* The freelists. From k to j, and from the pipes `used` to `kept`, a      *)
(* thread takes and gives back nothing but what is free, its own or new.   *)
(***************************************************************************)
Whole(k, used) == k \in CntlSet /\ KRight(k) /\ Apart(k, used)
Takes(k, used, j, kept) ==
    /\ Whole(j, kept)
    /\ j.st = k.st /\ j.lock = k.lock /\ j.maxaddr = k.maxaddr
    /\ j.freed = k.freed /\ j.stale = k.stale /\ j.stuck = k.stuck
    /\ Len(k.types) <= Len(j.types)
    /\ kept \union FreeIds(j) \subseteq used \union FreeIds(k) \union (Made(j) \ Made(k))

LEMMA LensOf == ASSUME NEW k \in CntlSet
                PROVE  /\ Len(k.types) \in Nat /\ Len(k.free) \in Nat
                       /\ DOMAIN k.free = 1 .. Len(k.free) /\ DOMAIN k.types = 1 .. Len(k.types)
                       /\ FreeIds(k) \subseteq Nat \ {0}
  BY LenProperties DEF CntlSet, FreeIds

LEMMA TakesNothing == ASSUME NEW k, NEW used, Whole(k, used) PROVE Takes(k, used, k, used)
  BY LensOf DEF Takes, Whole

LEMMA TakesAgain ==
    ASSUME NEW k, NEW used, NEW j, NEW kept, NEW i, NEW left, k \in CntlSet,
           Takes(k, used, j, kept), Takes(j, kept, i, left)
    PROVE  Takes(k, used, i, left)
<1>1. Len(k.types) \in Nat /\ Len(j.types) \in Nat /\ Len(i.types) \in Nat
  BY LensOf DEF Takes, Whole
<1>2. Made(k) \subseteq Made(j) /\ Made(j) \subseteq Made(i)
  BY <1>1 DEF Takes, Made
<1> QED
  BY <1>1, <1>2 DEF Takes

LEMMA GivesBack ==
    ASSUME NEW k, NEW used, NEW id, Whole(k, used), id \in used \union {0}
    PROVE  Takes(k, used, AddFree(k, id), used \ {id})
<1>0. /\ k.free \in Seq(Nat \ {0}) /\ Len(k.free) \in Nat /\ DOMAIN k.free = 1 .. Len(k.free)
      /\ Len(k.types) \in Nat /\ Made(k) \subseteq Nat /\ 0 \notin Made(k)
  BY LensOf DEF Whole, CntlSet, Made
<1>00. Len(k.free) \in Nat
  BY <1>0
<1>01. DOMAIN k.free = 1 .. Len(k.free)
  BY <1>0
<1>1. CASE id = 0
  <2>1. used \ {id} = used
    BY <1>0, <1>1 DEF Whole, Apart
  <2> QED
    BY <1>1, <2>1, TakesNothing DEF AddFree
<1>2. CASE id # 0
  <2> DEFINE f == <<id>> \o k.free
             j == AddFree(k, id)
  <2>1. id \in used /\ id \in Made(k) /\ id \in Nat \ {0} /\ id \notin FreeIds(k)
    BY <1>0, <1>2 DEF Whole, Apart
  <2>2. /\ f \in Seq(Nat \ {0}) /\ Len(f) = Len(k.free) + 1
        /\ \A i \in 1 .. Len(k.free) + 1 : f[i] = IF i = 1 THEN id ELSE k.free[i - 1]
    <3>1. <<id>> \in Seq(Nat \ {0}) /\ Len(<<id>>) = 1 /\ <<id>>[1] = id
      BY <2>1
    <3> QED
      BY <1>0, <3>1, ConcatProperties
  <2>3. j = [k EXCEPT !.free = f]
    BY <1>2 DEF AddFree
  <2>4. j \in CntlSet /\ j.free = f /\ j.types = k.types /\ j.sched = k.sched
        /\ j.st = k.st /\ j.lock = k.lock /\ j.maxaddr = k.maxaddr
        /\ j.freed = k.freed /\ j.stale = k.stale /\ j.stuck = k.stuck
    <3> HIDE DEF f, j
    <3> QED
      BY <2>2, <2>3 DEF CntlSet, Whole
  <2> HIDE DEF f, j
  <2>5. DOMAIN f = 1 .. Len(k.free) + 1
    BY <1>0, <2>2
  <2>51. f[1] = id /\ 1 \in DOMAIN f
    <3>1. 1 \in 1 .. Len(k.free) + 1
      BY <1>00
    <3> QED
      BY <2>2, <2>5, <3>1
  <2>52. ASSUME NEW i \in DOMAIN f, i # 1 PROVE f[i] = k.free[i - 1] /\ i - 1 \in DOMAIN k.free
    <3>1. i \in 1 .. Len(k.free) + 1
      BY <2>5
    <3>2. i - 1 \in 1 .. Len(k.free)
      BY <1>00, <2>52, <3>1
    <3> QED
      BY <1>01, <2>2, <2>52, <3>1, <3>2
  <2>53. ASSUME NEW i \in DOMAIN k.free PROVE k.free[i] = f[i + 1] /\ i + 1 \in DOMAIN f
    <3>1. i \in 1 .. Len(k.free)
      BY <1>01
    <3>2. i + 1 \in 1 .. Len(k.free) + 1 /\ i + 1 # 1 /\ (i + 1) - 1 = i
      BY <1>00, <3>1
    <3> QED
      BY <2>2, <2>5, <3>2
  <2>6. FreeIds(j) = FreeIds(k) \union {id}
    <3>1. ASSUME NEW i \in DOMAIN f PROVE f[i] = id \/ f[i] \in FreeIds(k)
      BY <2>51, <2>52 DEF FreeIds
    <3>2. ASSUME NEW i \in DOMAIN k.free PROVE k.free[i] \in FreeIds(j)
      BY <2>4, <2>53 DEF FreeIds
    <3> QED
      BY <2>4, <2>51, <3>1, <3>2 DEF FreeIds
  <2>7. ASSUME NEW a \in DOMAIN f, NEW b \in DOMAIN f, f[a] = f[b] PROVE a = b
    <3>1. ASSUME NEW i \in DOMAIN f, i # 1 PROVE f[i] # id
      BY <2>1, <2>52, <3>1 DEF FreeIds
    <3>2. CASE a = 1 \/ b = 1
      BY <2>7, <2>51, <3>1, <3>2
    <3>3. CASE a # 1 /\ b # 1
      <4>1. a - 1 = b - 1
        BY <2>7, <2>52, <3>3 DEF Whole, KRight
      <4>2. a \in Int /\ b \in Int
        BY <2>5
      <4> QED
        BY <4>1, <4>2
    <3> QED
      BY <3>2, <3>3
  <2>8. KRight(j)
    BY <2>1, <2>4, <2>6, <2>7 DEF KRight, Whole, Made
  <2>9. Apart(j, used \ {id})
    BY <2>4, <2>6 DEF Apart, Whole, Made
  <2>10. Takes(k, used, j, used \ {id})
    BY <1>0, <2>1, <2>4, <2>6, <2>8, <2>9 DEF Takes, Whole
  <2> QED
    BY <2>10 DEF j
<1> QED
  BY <1>1, <1>2

LessThan == {ss \in Nat \X Nat : ss[1] < ss[2]}
LEMMA LeastNat == ASSUME NEW T, T \subseteq Nat, T # {} PROVE \E x \in T : \A y \in T : x <= y
<1>1. IsWellFoundedOn(LessThan, Nat)
  BY NatLessThanWellFounded DEF OpToRel, LessThan
<1>2. ASSUME NEW x \in Nat, NEW y \in Nat, <<y, x>> \notin LessThan PROVE x <= y
  <2>1. <<y, x>> \in Nat \X Nat /\ ~(y < x)
    BY <1>2 DEF LessThan
  <2> QED
    BY <2>1
<1>3. \E x \in T : \A y \in T : <<y, x>> \notin LessThan
  BY <1>1, WFMin
<1> QED
  BY <1>2, <1>3

\* What is left of a freelist when the pipe at i is taken.
Without(f, i) == SubSeq(f, 1, i - 1) \o SubSeq(f, i + 1, Len(f))
LEMMA LeftOver ==
    ASSUME NEW f \in Seq(Nat \ {0}), NEW i \in 1 .. Len(f)
    PROVE  /\ Without(f, i) \in Seq(Nat \ {0}) /\ Len(Without(f, i)) = Len(f) - 1
           /\ \A n \in 1 .. Len(f) - 1 : Without(f, i)[n] = IF n < i THEN f[n] ELSE f[n + 1]
<1> DEFINE a == SubSeq(f, 1, i - 1)
           b == SubSeq(f, i + 1, Len(f))
<1>0. Len(f) \in Nat /\ \A n \in 1 .. Len(f) : f[n] \in Nat \ {0}
  BY LenProperties
<1>1. a \in Seq(Nat \ {0}) /\ Len(a) = i - 1 /\ \A n \in 1 .. i - 1 : a[n] = f[n]
  <2>1. \A n \in 1 .. i - 1 : f[n] \in Nat \ {0}
    BY <1>0
  <2>2. /\ SubSeq(f, 1, i - 1) \in Seq(Nat \ {0})
        /\ Len(SubSeq(f, 1, i - 1)) = IF 1 <= i - 1 THEN (i - 1) - 1 + 1 ELSE 0
        /\ \A n \in 1 .. (i - 1) - 1 + 1 : SubSeq(f, 1, i - 1)[n] = f[1 + n - 1]
    BY <1>0, <2>1, SubSeqProperties
  <2> QED
    BY <1>0, <2>2
<1>2. b \in Seq(Nat \ {0}) /\ Len(b) = Len(f) - i /\ \A n \in 1 .. Len(f) - i : b[n] = f[i + n]
  <2>1. \A n \in i + 1 .. Len(f) : f[n] \in Nat \ {0}
    BY <1>0
  <2>2. /\ SubSeq(f, i + 1, Len(f)) \in Seq(Nat \ {0})
        /\ Len(SubSeq(f, i + 1, Len(f))) = IF i + 1 <= Len(f) THEN Len(f) - (i + 1) + 1 ELSE 0
        /\ \A n \in 1 .. Len(f) - (i + 1) + 1 : SubSeq(f, i + 1, Len(f))[n] = f[(i + 1) + n - 1]
    <3>1. i + 1 \in Int /\ Len(f) \in Int
      BY <1>0
    <3> QED
      BY <2>1, <3>1, SubSeqProperties
  <2> QED
    BY <1>0, <2>2
<1> HIDE DEF a, b
<1>3. /\ a \o b \in Seq(Nat \ {0}) /\ Len(a \o b) = Len(a) + Len(b)
      /\ \A n \in 1 .. Len(a) + Len(b) : (a \o b)[n] = IF n <= Len(a) THEN a[n] ELSE b[n - Len(a)]
  BY <1>1, <1>2, ConcatProperties
<1>4. Without(f, i) = a \o b
  BY DEF Without, a, b
<1>5. ASSUME NEW n \in 1 .. Len(f) - 1 PROVE (a \o b)[n] = IF n < i THEN f[n] ELSE f[n + 1]
  <2>1. CASE n < i
    BY <1>0, <1>1, <1>2, <1>3, <2>1
  <2>2. CASE n >= i
    <3>0. n \in 1 .. Len(a) + Len(b) /\ ~(n <= Len(a)) /\ n - Len(a) = n - (i - 1)
      BY <1>0, <1>1, <1>2, <2>2
    <3>1. (a \o b)[n] = b[n - (i - 1)]
      BY <1>3, <3>0
    <3>2. n - (i - 1) \in 1 .. Len(f) - i
      BY <1>0, <2>2
    <3>3. b[n - (i - 1)] = f[i + (n - (i - 1))]
      BY <1>2, <3>2
    <3>4. i + (n - (i - 1)) = n + 1
      BY <1>0
    <3> QED
      BY <1>0, <2>2, <3>1, <3>3, <3>4
  <2>3. n < i \/ n >= i
    BY <1>0
  <2> QED
    BY <2>1, <2>2, <2>3
<1>6. Len(a) + Len(b) = Len(f) - 1
  BY <1>0, <1>1, <1>2
<1> QED
  BY <1>3, <1>4, <1>5, <1>6

LEMMA FirstOf == ASSUME NEW k \in CntlSet, NEW type, FreeOf(k, type) # {}
                 PROVE  First(FreeOf(k, type)) \in DOMAIN k.free
<1> DEFINE s == FreeOf(k, type)
<1>1. s \subseteq Nat /\ s \subseteq DOMAIN k.free
  BY LensOf DEF FreeOf
<1> HIDE DEF s
<1>2. \E x \in s : \A y \in s : x <= y
  BY <1>1, LeastNat DEF s
<1>3. First(s) \in s
  BY <1>2 DEF First
<1> QED
  BY <1>1, <1>3 DEF s

LEMMA TakesFree ==
    ASSUME NEW k, NEW used, Whole(k, used), NEW i \in DOMAIN k.free
    PROVE  LET j == [k EXCEPT !.free = Without(k.free, i)]
           IN  /\ Takes(k, used, j, used \union {k.free[i]})
               /\ k.free[i] \notin used /\ k.free[i] \in Nat \ {0}
<1> DEFINE f == Without(k.free, i)
           j == [k EXCEPT !.free = f]
           id == k.free[i]
<1>0. /\ k.free \in Seq(Nat \ {0}) /\ DOMAIN k.free = 1 .. Len(k.free)
      /\ k \in CntlSet /\ KRight(k) /\ Apart(k, used)
  BY LensOf DEF Whole, CntlSet
<1>00. Len(k.free) \in Nat
  BY <1>0
<1>000. i \in 1 .. Len(k.free)
  BY <1>0
<1>1. /\ f \in Seq(Nat \ {0}) /\ Len(f) = Len(k.free) - 1
      /\ \A n \in 1 .. Len(k.free) - 1 : f[n] = IF n < i THEN k.free[n] ELSE k.free[n + 1]
  BY <1>0, <1>000, LeftOver
<1>2. id \in FreeIds(k) /\ id \notin used /\ id \in Made(k) /\ id \in Nat \ {0}
  BY <1>0, LensOf DEF FreeIds, Apart, KRight
<1> HIDE DEF f
<1>3. j \in CntlSet /\ j.free = f /\ j.types = k.types /\ j.sched = k.sched
      /\ j.st = k.st /\ j.lock = k.lock /\ j.maxaddr = k.maxaddr
      /\ j.freed = k.freed /\ j.stale = k.stale /\ j.stuck = k.stuck
  BY <1>0, <1>1 DEF CntlSet
<1> HIDE DEF j, id
<1>4. DOMAIN f = 1 .. Len(k.free) - 1
  BY <1>00, <1>1
<1>5. ASSUME NEW n \in DOMAIN f
      PROVE  \E o \in DOMAIN k.free : o # i /\ f[n] = k.free[o] /\ o = IF n < i THEN n ELSE n + 1
  <2>1. CASE n < i
    <3>1. n \in 1 .. Len(k.free) /\ n # i /\ n \in 1 .. Len(k.free) - 1
      BY <1>00, <1>000, <1>4, <2>1
    <3> QED
      BY <1>0, <1>1, <2>1, <3>1
  <2>2. CASE n >= i
    <3>1. n + 1 \in 1 .. Len(k.free) /\ n + 1 # i /\ n \in 1 .. Len(k.free) - 1 /\ ~(n < i)
      BY <1>00, <1>000, <1>4, <2>2
    <3> QED
      BY <1>0, <1>1, <3>1
  <2>3. n < i \/ n >= i
    BY <1>000, <1>4
  <2> QED
    BY <2>1, <2>2, <2>3
<1>6. FreeIds(j) \subseteq FreeIds(k) \ {id}
  <2>1. ASSUME NEW n \in DOMAIN f PROVE f[n] \in FreeIds(k) \ {id}
    <3>1. PICK o \in DOMAIN k.free : o # i /\ f[n] = k.free[o]
      BY <1>5
    <3> QED
      BY <1>0, <3>1 DEF FreeIds, KRight, id
  <2> QED
    BY <1>3, <2>1 DEF FreeIds
<1>7. ASSUME NEW a \in DOMAIN f, NEW b \in DOMAIN f, f[a] = f[b] PROVE a = b
  <2>1. PICK o \in DOMAIN k.free : f[a] = k.free[o] /\ o = IF a < i THEN a ELSE a + 1
    BY <1>5
  <2>2. PICK q \in DOMAIN k.free : f[b] = k.free[q] /\ q = IF b < i THEN b ELSE b + 1
    BY <1>5
  <2>3. o = q
    BY <1>0, <1>7, <2>1, <2>2 DEF KRight
  <2>4. a \in Int /\ b \in Int /\ i \in Int
    BY <1>000, <1>4
  <2> QED
    BY <2>1, <2>2, <2>3, <2>4
<1>8. KRight(j)
  BY <1>0, <1>3, <1>6, <1>7 DEF KRight, Made
<1>9. Apart(j, used \union {id})
  BY <1>0, <1>2, <1>3, <1>6 DEF Apart, Made
<1>10. Len(k.types) <= Len(j.types)
  BY <1>0, <1>3, LensOf
<1>11. Takes(k, used, j, used \union {id})
  BY <1>2, <1>3, <1>6, <1>8, <1>9, <1>10 DEF Takes, Whole
<1> QED
  BY <1>2, <1>11 DEF j, id, f

LEMMA TakesNew ==
    ASSUME NEW k, NEW used, Whole(k, used), NEW kind, NEW type \in PipeTypes
    PROVE  LET a == NewPipe(kind, k, type)
           IN  /\ Takes(k, used, a.k, used \union {a.id})
               /\ a.id \notin used /\ a.id \in Nat \ {0}
<1> DEFINE id == Len(k.types) + 1
           t == Append(k.types, type)
           s == IF Pipes(kind).linked THEN k.sched \union {id} ELSE k.sched
           j == [k EXCEPT !.types = t, !.sched = s]
<1>0. k \in CntlSet /\ KRight(k) /\ Apart(k, used) /\ Len(k.types) \in Nat
  BY LensOf DEF Whole
<1>1. t \in Seq(PipeTypes) /\ Len(t) = Len(k.types) + 1
  <2>1. k.types \in Seq(PipeTypes)
    BY <1>0 DEF CntlSet
  <2> QED
    BY <2>1, AppendProperties
<1>2. id \in Nat \ {0} /\ Made(k) \subseteq Nat /\ id \notin Made(k) /\ s \subseteq Made(k) \union {id}
  BY <1>0 DEF Made, KRight
<1>3. id \notin used /\ id \notin FreeIds(k)
  BY <1>0, <1>2 DEF Apart, KRight
<1>4. NewPipe(kind, k, type) = [id |-> id, k |-> j]
  BY DEF NewPipe
<1> HIDE DEF t, s
<1>5. j \in CntlSet /\ j.free = k.free /\ j.types = t /\ j.sched = s
      /\ j.st = k.st /\ j.lock = k.lock /\ j.maxaddr = k.maxaddr
      /\ j.freed = k.freed /\ j.stale = k.stale /\ j.stuck = k.stuck
  <2>1. s \in SUBSET Nat
    BY <1>2
  <2>2. [k EXCEPT !.types = t] \in CntlSet
    BY <1>0, <1>1 DEF CntlSet
  <2>3. j = [[k EXCEPT !.types = t] EXCEPT !.sched = s]
    BY <1>0 DEF CntlSet
  <2> QED
    BY <1>0, <2>1, <2>2, <2>3 DEF CntlSet
<1> HIDE DEF j
<1>6. Made(j) = Made(k) \union {id}
  BY <1>0, <1>1, <1>5 DEF Made
<1>7. FreeIds(j) = FreeIds(k)
  BY <1>5 DEF FreeIds
<1>8. KRight(j) /\ Apart(j, used \union {id})
  BY <1>0, <1>2, <1>3, <1>5, <1>6, <1>7 DEF KRight, Apart
<1>9. Takes(k, used, j, used \union {id})
  BY <1>0, <1>1, <1>2, <1>5, <1>6, <1>7, <1>8 DEF Takes, Whole
<1> QED
  BY <1>2, <1>3, <1>4, <1>9

LEMMA TakesPipe ==
    ASSUME NEW k, NEW used, Whole(k, used), NEW kind, NEW type \in PipeTypes
    PROVE  LET a == AllocPipe(kind, k, type)
           IN  /\ Takes(k, used, a.k, used \union {a.id})
               /\ a.id \notin used /\ a.id \in Nat \ {0}
<1>1. CASE Reuses(kind, k, type)
  <2> DEFINE i == First(FreeOf(k, type))
  <2>1. i \in DOMAIN k.free
    BY <1>1, FirstOf DEF Whole, Reuses
  <2> HIDE DEF i
  <2>2. AllocPipe(kind, k, type) = [id |-> k.free[i], k |-> [k EXCEPT !.free = Without(k.free, i)]]
    BY <1>1 DEF AllocPipe, Without, i, Whole, CntlSet
  <2> QED
    BY <2>1, <2>2, TakesFree
<1>2. CASE ~Reuses(kind, k, type)
  <2>1. AllocPipe(kind, k, type) = NewPipe(kind, k, type)
    BY <1>2 DEF AllocPipe
  <2> QED
    BY <2>1, TakesNew
<1> QED
  BY <1>1, <1>2

LEMMA TakesAnother ==
    ASSUME NEW k, NEW id \in Nat, Whole(k, {id} \ {0}), NEW kind
    PROVE  LET a == ReallocPipe(kind, k, id)
           IN  Takes(k, {id} \ {0}, a.k, {a.id} \ {0}) /\ a.id \in Nat
<1>1. CASE kind = "xhci"
  BY <1>1, TakesNothing DEF ReallocPipe
<1>2. CASE kind # "xhci"
  <2> DEFINE f == AddFree(k, id)
             a == AllocPipe(kind, f, "control")
  <2>1. Takes(k, {id} \ {0}, f, {})
    <3>1. Takes(k, {id} \ {0}, AddFree(k, id), ({id} \ {0}) \ {id}) /\ ({id} \ {0}) \ {id} = {}
      BY GivesBack
    <3> QED
      BY <3>1
  <2>2. Whole(f, {}) /\ k \in CntlSet
    BY <2>1 DEF Takes, Whole
  <2> HIDE DEF f
  <2>3. Takes(f, {}, a.k, {} \union {a.id}) /\ a.id \in Nat \ {0}
    <3>1. "control" \in PipeTypes
      BY DEF PipeTypes
    <3> QED
      BY <2>2, <3>1, TakesPipe
  <2>4. {} \union {a.id} = {a.id} \ {0}
    BY <2>3
  <2>5. ReallocPipe(kind, k, id) = a
    BY <1>2 DEF ReallocPipe, f
  <2> HIDE DEF a
  <2>6. Takes(k, {id} \ {0}, a.k, {a.id} \ {0})
    BY <2>1, <2>2, <2>3, <2>4, TakesAgain
  <2> QED
    BY <2>3, <2>5, <2>6
<1> QED
  BY <1>1, <1>2

-----------------------------------------------------------------------------
(***************************************************************************)
(* A step of the thread of port p, which goes on as r and leaves its       *)
(* controller as k: what it may do to the hubs, the lock, the devices,     *)
(* their addresses, the pipes and the variables of keyboard and mouse.     *)
(***************************************************************************)
HubEffect(p, r) ==
    /\ r.pc \notin {"off", "detect", "wait"}
    /\ th[p].pc = "wait" => r.pc = "end" /\ hubs[p].threads = 0 /\ (r.ok \/ hubs[p].devcount = 0)
    /\ r.pc # "end" => hubs' = hubs /\ ~r.ok
    /\ r.pc = "end" => \E n \in Nat :
          /\ hubs' = [hubs EXCEPT ![Up(p)] = [threads |-> @.threads - 1, devcount |-> @.devcount + n]]
          /\ r.ok => n > 0
LockEffect(p, r, k) ==
    /\ r.pc \in {"addr", "send", "settle"} => k.lock /\ (Setting(p) \/ ~cntl[Ctl(p)].lock)
    /\ cntl[Ctl(p)].lock /\ ~k.lock => Setting(p)
SameDevice(d) == dev'[d].seen = dev[d].seen /\ dev'[d].on = dev[d].on /\ dev'[d].stuck = dev[d].stuck
DevEffect(p, r) ==
    /\ dev' \in [DOMAIN machine.class -> DeviceSet]
    /\ \A d \in DOMAIN machine.class : d # At(p) => SameDevice(d)
    /\ Seen(p) \/ dev'[At(p)] = dev[At(p)]
    /\ \/ dev'[At(p)].seen = dev[At(p)].seen
       \/ r.pc = "end" /\ ~r.ok /\ ~dev'[At(p)].on /\ dev'[At(p)].seen # SeenAs(p)
    /\ r.pc = "lock" \/ r.pc \in After \/ r.ok => Seen(p) /\ Class(p) # "none"
    /\ r.pc \in After \/ r.ok => dev'[At(p)].on
Silent(p) == ~dev'[At(p)].on \/ dev'[At(p)].stuck
AddrEffect(p, r, k) ==
    /\ \A q \in Ports : q # p /\ Speaks(q) => dev'[At(q)].addr = dev[At(q)].addr
    /\ \/ k.maxaddr = cntl[Ctl(p)].maxaddr
       \/ k.maxaddr = cntl[Ctl(p)].maxaddr + 1 /\ th[p].pc = "settle"
    /\ \/ Silent(p)
       \/ /\ dev'[At(p)] = dev[At(p)]
          /\ th[p].pc = "settle" => k.maxaddr = cntl[Ctl(p)].maxaddr + 1
          /\ th[p].pc \in {"addr", "send"} => r.pc \in {"addr", "send"} \/ dev[At(p)].addr # 0
       \/ /\ r.pc = "addr" /\ dev'[At(p)].addr = 0 /\ ~cntl[Ctl(p)].lock
          /\ k.maxaddr = cntl[Ctl(p)].maxaddr
       \/ /\ th[p].pc = "send" /\ r.pc = "settle" /\ k.maxaddr = cntl[Ctl(p)].maxaddr
          /\ dev'[At(p)].addr = k.maxaddr + 1
PipeEffect(p, r, k) ==
    /\ KRight(k) /\ Apart(k, PipesOf(r))
    /\ Len(cntl[Ctl(p)].types) <= Len(k.types)
    /\ PipesOf(r) \union FreeIds(k) \subseteq
          PipesOf(th[p]) \union FreeIds(cntl[Ctl(p)]) \union (Made(k) \ Made(cntl[Ctl(p)]))
    /\ r.pc # "end" => r.held = {}
    /\ r.pc \in {"detect", "lock", "addr", "end"} => r.pipe = 0
SameState(k, j) == j.st = k.st /\ j.freed = k.freed /\ j.stale = k.stale /\ j.stuck = k.stuck
HidEffect(p, r) ==
    /\ DOMAIN hid' = HidKinds
    /\ \A n \in HidKinds : \/ hid'[n] = hid[n] \/ hid'[n] = NoPipe
                           \/ r.ok /\ hid'[n][1] = Ctl(p) /\ hid'[n][2] \in r.held
PortStep(p, r, k) ==
    /\ th' = [th EXCEPT ![p] = r] /\ cntl' = [cntl EXCEPT ![Ctl(p)] = k]
    /\ UNCHANGED <<machine, pending>> /\ lost' \in BOOLEAN /\ faults' \in Nat
    /\ r \in ThreadSet /\ k \in CntlSet /\ Active(p) /\ SameState(cntl[Ctl(p)], k)
    /\ HubEffect(p, r) /\ LockEffect(p, r, k) /\ DevEffect(p, r) /\ AddrEffect(p, r, k)
    /\ PipeEffect(p, r, k) /\ HidEffect(p, r)

\* What does not change with the machine.
SameMachine ==
    /\ Ports' = Ports /\ Cntls' = Cntls /\ Hubs' = Hubs
    /\ \A p \in Ports : /\ At(p)' = At(p) /\ Ctl(p)' = Ctl(p) /\ Up(p)' = Up(p) /\ Kind(p)' = Kind(p)
                        /\ OnHub(p)' = OnHub(p) /\ SeenAs(p)' = SeenAs(p) /\ Class(p)' = Class(p)
    /\ \A h \in Hubs : PortsOf(h)' = PortsOf(h)
LEMMA Stays == machine' = machine => SameMachine
  BY DEF SameMachine, Ports, Cntls, Hubs, At, Ctl, Up, Kind, OnHub, SeenAs, Class, PortsOf

\* The other threads and controllers are as they were.
OthersAs(p, r, k) ==
    /\ th' \in [Ports -> ThreadSet] /\ th'[p] = r /\ \A q \in Ports : q # p => th'[q] = th[q]
    /\ cntl' \in [Cntls -> CntlSet] /\ cntl'[Ctl(p)] = k /\ \A c \in Cntls : c # Ctl(p) => cntl'[c] = cntl[c]
LEMMA Others ==
    ASSUME EnumInv, NEW p \in Ports, NEW r, NEW k, PortStep(p, r, k)
    PROVE  OthersAs(p, r, k) /\ SameMachine /\ WiresRight /\ WiresRight'
<1>1. WiresRight /\ Ctl(p) \in Cntls
  BY Wiring DEF EnumInv, EnumTypeOK, WiresRight
<1>2. th \in [Ports -> ThreadSet] /\ cntl \in [Cntls -> CntlSet] /\ r \in ThreadSet /\ k \in CntlSet
      /\ th' = [th EXCEPT ![p] = r] /\ cntl' = [cntl EXCEPT ![Ctl(p)] = k]
  BY DEF EnumInv, EnumTypeOK, PortStep
<1>3. OthersAs(p, r, k)
  BY <1>1, <1>2 DEF OthersAs
<1>4. machine' = machine
  BY DEF PortStep
<1>5. WiresRight'
  BY <1>4, Wiring DEF EnumInv, EnumTypeOK, WiresRight, Ports, Cntls, Hubs, At, Ctl, Up, Kind, OnHub
<1> QED
  BY <1>1, <1>3, <1>4, <1>5, Stays

LEMMA StepPending == ASSUME EnumInv, NEW p \in Ports, NEW r, NEW k, PortStep(p, r, k) PROVE PendingRight'
<1>1. OthersAs(p, r, k) /\ SameMachine /\ WiresRight
  BY Others
<1>2. pending' = pending /\ machine' = machine /\ k.st = cntl[Ctl(p)].st /\ th[p].pc # "off"
  BY DEF PortStep, SameState, Active
<1>3. EhciOff' = EhciOff
  BY <1>1, <1>2 DEF EhciOff, OthersAs, Cntls
<1>4. ASSUME NEW q \in Ports, th'[q].pc # "off" PROVE th[q].pc # "off"
  BY <1>1, <1>2, <1>4 DEF OthersAs
<1> QED
  BY <1>1, <1>2, <1>3, <1>4 DEF EnumInv, PendingRight, SameMachine

LEMMA StepLock == ASSUME EnumInv, NEW p \in Ports, NEW r, NEW k, PortStep(p, r, k) PROVE LockRight'
<1>1. OthersAs(p, r, k) /\ SameMachine /\ WiresRight
  BY Others
<1>2. LockEffect(p, r, k)
  BY DEF PortStep
<1>3. ASSUME NEW q \in Ports, q # p PROVE Setting(q)' <=> Setting(q)
  BY <1>1, <1>3 DEF OthersAs, Setting
<1>4. Setting(p)' <=> r.pc \in {"addr", "send", "settle"}
  BY <1>1 DEF OthersAs, Setting
<1>5. ASSUME NEW q \in Ports, Setting(q)' PROVE cntl'[Ctl(q)].lock
  <2>1. CASE q = p
    BY <1>1, <1>2, <1>4, <1>5, <2>1 DEF LockEffect, OthersAs
  <2>2. CASE q # p /\ Ctl(q) = Ctl(p)
    <3>1. Setting(q) /\ cntl[Ctl(p)].lock /\ ~Setting(p)
      BY <1>3, <1>5, <2>2 DEF EnumInv, LockRight
    <3> QED
      BY <1>1, <1>2, <2>2, <3>1 DEF LockEffect, OthersAs
  <2>3. CASE Ctl(q) # Ctl(p)
    <3>1. Setting(q) /\ Ctl(q) \in Cntls
      BY <1>1, <1>3, <1>5, <2>3 DEF WiresRight
    <3> QED
      BY <1>1, <2>3, <3>1 DEF OthersAs, EnumInv, LockRight
  <2> QED
    BY <2>1, <2>2, <2>3
<1>6. ASSUME NEW q \in Ports, q # p, Setting(q), Setting(p)', Ctl(q) = Ctl(p) PROVE FALSE
  BY <1>2, <1>4, <1>6 DEF LockEffect, EnumInv, LockRight
<1> QED
  BY <1>1, <1>3, <1>5, <1>6 DEF EnumInv, LockRight, SameMachine

LEMMA StepHid == ASSUME EnumInv, NEW p \in Ports, NEW r, NEW k, PortStep(p, r, k) PROVE HidRight'
<1>1. OthersAs(p, r, k) /\ SameMachine
  BY Others
<1>2. HidEffect(p, r) /\ Active(p)
  BY DEF PortStep
<1>3. ASSUME NEW q \in Ports, th[q].ok PROVE q # p
  BY <1>2, <1>3 DEF Active, EnumInv, HubsRight
<1>4. ASSUME NEW n \in HidKinds, hid'[n] # NoPipe
      PROVE  \E q \in Ports : th'[q].ok /\ Ctl(q) = hid'[n][1] /\ hid'[n][2] \in th'[q].held
  <2>1. CASE hid'[n] = hid[n]
    <3>1. PICK q \in Ports : th[q].ok /\ Ctl(q) = hid[n][1] /\ hid[n][2] \in th[q].held
      BY <1>4, <2>1 DEF EnumInv, HidRight
    <3> QED
      BY <1>1, <1>3, <2>1, <3>1 DEF OthersAs
  <2>2. CASE r.ok /\ hid'[n][1] = Ctl(p) /\ hid'[n][2] \in r.held
    BY <1>1, <2>2 DEF OthersAs
  <2> QED
    BY <1>2, <1>4, <2>1, <2>2 DEF HidEffect
<1> QED
  BY <1>1, <1>4 DEF HidRight, SameMachine

LEMMA StepDevices == ASSUME EnumInv, NEW p \in Ports, NEW r, NEW k, PortStep(p, r, k) PROVE DevicesRight'
<1>1. OthersAs(p, r, k) /\ SameMachine /\ WiresRight
  BY Others
<1>2. DevEffect(p, r) /\ Active(p) /\ k.st = cntl[Ctl(p)].st /\ HubEffect(p, r) /\ machine' = machine
  BY DEF PortStep, SameState
<1>3. At(p) \in DOMAIN machine.class /\ Ctl(p) \in Cntls
  BY <1>1 DEF WiresRight
\* The other port of the connector: neither enabled nor seen, before and afterwards.
<1>4. ASSUME NEW q \in Ports, q # p PROVE Seen(q) => dev'[At(q)].seen = dev[At(q)].seen /\ dev'[At(q)].on = dev[At(q)].on
  <2>1. CASE At(q) # At(p)
    BY <1>1, <1>2, <2>1 DEF DevEffect, SameDevice, WiresRight
  <2>2. CASE At(q) = At(p)
    BY <1>1, <1>2, <1>4, <2>2, OneSees DEF DevEffect
  <2> QED
    BY <2>1, <2>2
<1>5. ASSUME NEW q \in Ports, q # p
      PROVE  /\ th'[q].pc = "lock" \/ Busy(q)' => Seen(q)' /\ Class(q) # "none"
             /\ Busy(q)' => dev'[At(q)].on
             /\ Kind(q) = "ehci" /\ ~OnHub(q) =>
                  (Active(q)' \/ (th'[q].pc = "off" /\ cntl'[Ctl(q)].st \in {"ports", "enum"}) => Seen(q)')
  <2>1. th'[q] = th[q] /\ Ctl(q) \in Cntls /\ cntl'[Ctl(q)].st = cntl[Ctl(q)].st
    BY <1>1, <1>2, <1>5 DEF OthersAs, WiresRight
  <2>2. (Busy(q)' <=> Busy(q)) /\ (Active(q)' <=> Active(q))
    BY <2>1 DEF Busy, Active
  <2>3. Seen(q) => Seen(q)'
    BY <1>1, <1>4, <1>5 DEF Seen, SameMachine
  <2> QED
    BY <1>4, <1>5, <2>1, <2>2, <2>3 DEF EnumInv, DevicesRight
<1>6. /\ th'[p].pc = "lock" \/ Busy(p)' => Seen(p)' /\ Class(p) # "none"
      /\ Busy(p)' => dev'[At(p)].on
      /\ Kind(p) = "ehci" /\ ~OnHub(p) =>
           (Active(p)' \/ (th'[p].pc = "off" /\ cntl'[Ctl(p)].st \in {"ports", "enum"}) => Seen(p)')
  <2>1. th'[p] = r /\ (Busy(p)' <=> r.pc \in After \/ r.ok) /\ (Active(p)' <=> r.pc # "end" /\ r.pc # "off")
    BY <1>1 DEF OthersAs, Busy, Active
  <2>2. r.pc # "end" \/ r.ok => dev'[At(p)].seen = dev[At(p)].seen
    BY <1>2 DEF DevEffect
  <2>3. (r.pc # "end" \/ r.ok) /\ Seen(p) => Seen(p)'
    BY <1>1, <2>2 DEF Seen, SameMachine
  <2>4. "end" \notin After
    BY DEF After
  <2>5. r.pc # "off"
    BY <1>2 DEF HubEffect
  <2>6. Kind(p) = "ehci" /\ ~OnHub(p) => Seen(p)
    BY <1>2 DEF EnumInv, DevicesRight
  <2> QED
    BY <1>2, <2>1, <2>3, <2>4, <2>5, <2>6 DEF DevEffect
<1>7. ASSUME NEW d \in DOMAIN machine.class, dev'[d].on PROVE \E q \in Ports : At(q) = d /\ th'[q].pc # "off"
  <2>1. CASE d = At(p)
    BY <1>1, <1>2, <2>1 DEF OthersAs, HubEffect
  <2>2. CASE d # At(p)
    <3>1. dev[d].on
      BY <1>2, <1>7, <2>2 DEF DevEffect, SameDevice
    <3>2. PICK q \in Ports : At(q) = d /\ th[q].pc # "off"
      BY <3>1 DEF EnumInv, DevicesRight
    <3> QED
      BY <1>1, <2>2, <3>2 DEF OthersAs
  <2> QED
    BY <2>1, <2>2
<1>8. \A q \in Ports :
      /\ th'[q].pc = "lock" \/ Busy(q)' => Seen(q)' /\ Class(q) # "none"
      /\ Busy(q)' => dev'[At(q)].on
      /\ Kind(q) = "ehci" /\ ~OnHub(q) =>
           (Active(q)' \/ (th'[q].pc = "off" /\ cntl'[Ctl(q)].st \in {"ports", "enum"}) => Seen(q)')
  BY <1>5, <1>6
<1> QED
  BY <1>1, <1>2, <1>7, <1>8 DEF DevicesRight, SameMachine

LEMMA StepAddress == ASSUME EnumInv, NEW p \in Ports, NEW r, NEW k, PortStep(p, r, k) PROVE AddressRight'
<1>1. OthersAs(p, r, k) /\ SameMachine /\ WiresRight
  BY Others
<1>2. DevEffect(p, r) /\ AddrEffect(p, r, k) /\ Active(p)
  BY DEF PortStep
<1>3. \A q \in Ports : At(q) \in DOMAIN machine.class /\ Ctl(q) \in Cntls
  BY <1>1 DEF WiresRight
<1>4. /\ dev \in [DOMAIN machine.class -> DeviceSet] /\ dev' \in [DOMAIN machine.class -> DeviceSet]
      /\ cntl \in [Cntls -> CntlSet] /\ k \in CntlSet
  BY <1>2 DEF EnumInv, EnumTypeOK, DevEffect, PortStep
<1>5. ASSUME NEW q \in Ports
      PROVE  /\ dev[At(q)].addr \in Nat /\ dev'[At(q)].addr \in Nat
             /\ cntl[Ctl(q)].maxaddr \in Nat /\ k.maxaddr \in Nat
  BY <1>3, <1>4 DEF DeviceSet, CntlSet
\* The others: as they were, or silent.
<1>6. ASSUME NEW q \in Ports, q # p, Speaks(q)' PROVE Speaks(q) /\ dev'[At(q)].addr = dev[At(q)].addr
  <2>1. CASE At(q) # At(p)
    <3>1. SameDevice(At(q))
      BY <1>2, <1>3, <2>1 DEF DevEffect
    <3>2. Speaks(q)
      BY <1>1, <1>6, <3>1 DEF Speaks, Seen, SameDevice, SameMachine
    <3> QED
      BY <1>2, <1>6, <3>2 DEF AddrEffect
  <2>2. CASE At(q) = At(p)
    <3>1. Seen(q)' /\ dev'[At(p)].on /\ ~dev'[At(p)].stuck
      BY <1>1, <1>6, <2>2 DEF Speaks, SameMachine
    <3>2. dev'[At(q)].seen = SeenAs(q)
      BY <1>1, <3>1 DEF Seen, SameMachine
    <3>3. dev'[At(p)].seen = dev[At(p)].seen
      BY <1>2, <3>1 DEF DevEffect
    <3>4. Seen(q)
      BY <2>2, <3>2, <3>3 DEF Seen
    <3>5. ~Seen(p)
      BY <1>1, <1>6, <2>2, <3>4, OneSees
    <3>6. dev'[At(p)] = dev[At(p)]
      BY <1>2, <3>5 DEF DevEffect
    <3>7. Speaks(q)
      BY <2>2, <3>1, <3>4, <3>6 DEF Speaks
    <3> QED
      BY <2>2, <3>6, <3>7
  <2> QED
    BY <2>1, <2>2
<1>7. ASSUME NEW q \in Ports, q # p, Speaks(q)'
      PROVE  /\ \/ dev'[At(q)].addr <= cntl'[Ctl(q)].maxaddr
                \/ th'[q].pc = "settle" /\ dev'[At(q)].addr = cntl'[Ctl(q)].maxaddr + 1
             /\ dev'[At(q)].addr = 0 => th'[q].pc \in {"addr", "send"}
  <2>1. Speaks(q) /\ dev'[At(q)].addr = dev[At(q)].addr /\ th'[q] = th[q]
    BY <1>1, <1>6, <1>7 DEF OthersAs
  <2>2. /\ \/ dev[At(q)].addr <= cntl[Ctl(q)].maxaddr
           \/ th[q].pc = "settle" /\ dev[At(q)].addr = cntl[Ctl(q)].maxaddr + 1
        /\ dev[At(q)].addr = 0 => th[q].pc \in {"addr", "send"}
    BY <2>1 DEF EnumInv, AddressRight
  <2>3. CASE Ctl(q) # Ctl(p)
    <3>1. cntl'[Ctl(q)] = cntl[Ctl(q)]
      BY <1>1, <1>3, <2>3 DEF OthersAs
    <3> QED
      BY <2>1, <2>2, <3>1
  <2>4. CASE Ctl(q) = Ctl(p)
    <3>1. cntl'[Ctl(q)] = k
      BY <1>1, <2>4 DEF OthersAs
    <3>2. th[q].pc = "settle" => th[p].pc # "settle"
      BY <1>7, <2>4 DEF EnumInv, LockRight, Setting
    <3>3. /\ k.maxaddr = cntl[Ctl(q)].maxaddr \/ k.maxaddr = cntl[Ctl(q)].maxaddr + 1
          /\ th[q].pc = "settle" => k.maxaddr = cntl[Ctl(q)].maxaddr
      BY <1>2, <2>4, <3>2 DEF AddrEffect
    <3>4. dev[At(q)].addr <= cntl[Ctl(q)].maxaddr => dev[At(q)].addr <= k.maxaddr
      BY <1>5, <3>3
    <3> QED
      BY <2>1, <2>2, <3>1, <3>3, <3>4
  <2> QED
    BY <2>3, <2>4
<1>8. ASSUME Speaks(p)'
      PROVE  /\ ~Silent(p) /\ dev'[At(p)].seen = SeenAs(p)
             /\ (dev'[At(p)] = dev[At(p)] => Speaks(p))
  BY <1>1, <1>8 DEF Speaks, Seen, Silent, SameMachine
<1>9. ASSUME Speaks(p)'
      PROVE  /\ \/ dev'[At(p)].addr <= k.maxaddr
                \/ r.pc = "settle" /\ dev'[At(p)].addr = k.maxaddr + 1
             /\ dev'[At(p)].addr = 0 => r.pc \in {"addr", "send"}
  <2>1. CASE /\ dev'[At(p)] = dev[At(p)]
             /\ th[p].pc = "settle" => k.maxaddr = cntl[Ctl(p)].maxaddr + 1
             /\ th[p].pc \in {"addr", "send"} => r.pc \in {"addr", "send"} \/ dev[At(p)].addr # 0
    <3>1. /\ \/ dev[At(p)].addr <= cntl[Ctl(p)].maxaddr
             \/ th[p].pc = "settle" /\ dev[At(p)].addr = cntl[Ctl(p)].maxaddr + 1
          /\ dev[At(p)].addr = 0 => th[p].pc \in {"addr", "send"}
      BY <1>8, <1>9, <2>1 DEF EnumInv, AddressRight
    <3>2. k.maxaddr = cntl[Ctl(p)].maxaddr \/ k.maxaddr = cntl[Ctl(p)].maxaddr + 1
      BY <1>2 DEF AddrEffect
    <3> QED
      BY <1>5, <2>1, <3>1, <3>2
  <2>2. CASE r.pc = "addr" /\ dev'[At(p)].addr = 0
    BY <1>5, <2>2
  <2>3. CASE r.pc = "settle" /\ dev'[At(p)].addr = k.maxaddr + 1
    BY <1>5, <2>3
  <2> QED
    BY <1>2, <1>8, <1>9, <2>1, <2>2, <2>3 DEF AddrEffect
<1>10. ASSUME NEW q \in Ports, At(q) # At(p), Ctl(q) = Ctl(p), Speaks(p)', Speaks(q)'
       PROVE  dev'[At(p)].addr # dev'[At(q)].addr
  <2>1. Speaks(q) /\ dev'[At(q)].addr = dev[At(q)].addr
    BY <1>6, <1>10
  <2>2. CASE dev'[At(p)] = dev[At(p)]
    BY <1>8, <1>10, <2>1, <2>2 DEF EnumInv, AddressRight
  <2>3. CASE dev'[At(p)].addr = 0 /\ ~cntl[Ctl(p)].lock
    <3>1. ~Setting(q)
      BY <1>10, <2>3 DEF EnumInv, LockRight
    <3> QED
      BY <2>1, <2>3, <3>1 DEF EnumInv, AddressRight, Setting
  <2>4. CASE /\ th[p].pc = "send" /\ k.maxaddr = cntl[Ctl(p)].maxaddr
             /\ dev'[At(p)].addr = k.maxaddr + 1
    <3>1. th[q].pc # "settle"
      BY <1>10, <2>4 DEF EnumInv, LockRight, Setting
    <3>2. dev[At(q)].addr <= k.maxaddr
      BY <1>10, <2>1, <2>4, <3>1 DEF EnumInv, AddressRight
    <3> QED
      BY <1>5, <2>1, <2>4, <3>2
  <2> QED
    BY <1>2, <1>8, <1>10, <2>2, <2>3, <2>4 DEF AddrEffect
<1>11. ASSUME NEW q \in Ports, NEW s \in Ports, q # p, s # p, At(q) # At(s), Ctl(q) = Ctl(s), Speaks(q)', Speaks(s)'
       PROVE  dev'[At(q)].addr # dev'[At(s)].addr
  BY <1>6, <1>11 DEF EnumInv, AddressRight
<1>12. \A q \in Ports : Speaks(q)' =>
       /\ \/ dev'[At(q)].addr <= cntl'[Ctl(q)].maxaddr
          \/ th'[q].pc = "settle" /\ dev'[At(q)].addr = cntl'[Ctl(q)].maxaddr + 1
       /\ dev'[At(q)].addr = 0 => th'[q].pc \in {"addr", "send"}
  BY <1>1, <1>7, <1>9 DEF OthersAs
<1>13. \A q, s \in Ports : At(q) # At(s) /\ Ctl(q) = Ctl(s) /\ Speaks(q)' /\ Speaks(s)'
          => dev'[At(q)].addr # dev'[At(s)].addr
  BY <1>10, <1>11
<1> QED
  BY <1>1, <1>12, <1>13 DEF AddressRight, SameMachine

LEMMA StepPipes == ASSUME EnumInv, NEW p \in Ports, NEW r, NEW k, PortStep(p, r, k) PROVE PipesRight'
<1>1. OthersAs(p, r, k) /\ SameMachine /\ WiresRight
  BY Others
<1>2. PipeEffect(p, r, k) /\ HubEffect(p, r) /\ k \in CntlSet
  BY DEF PortStep
<1>3. /\ Ctl(p) \in Cntls /\ cntl[Ctl(p)] \in CntlSet /\ KRight(cntl[Ctl(p)])
      /\ Apart(cntl[Ctl(p)], PipesOf(th[p]))
  BY <1>1 DEF WiresRight, EnumInv, EnumTypeOK, PipesRight
<1>4. Made(cntl[Ctl(p)]) \subseteq Made(k)
  BY <1>2, <1>3, LensOf DEF PipeEffect, Made
<1>5. ASSUME NEW q \in Ports, q # p, Ctl(q) = Ctl(p)
      PROVE  PipesOf(th[q]) \intersect PipesOf(r) = {} /\ Apart(k, PipesOf(th[q]))
  <2>1. /\ Apart(cntl[Ctl(p)], PipesOf(th[q])) /\ PipesOf(th[q]) \intersect PipesOf(th[p]) = {}
    BY <1>5 DEF EnumInv, PipesRight
  <2> QED
    BY <1>2, <1>4, <2>1 DEF PipeEffect, Apart
<1>6. ASSUME NEW q \in Ports
      PROVE  /\ Apart(cntl'[Ctl(q)], PipesOf(th'[q]))
             /\ th'[q].pc # "end" => th'[q].held = {}
             /\ th'[q].pc \in {"off", "detect", "lock", "addr", "end"} => th'[q].pipe = 0
  <2>1. CASE q = p
    BY <1>1, <1>2, <2>1 DEF OthersAs, PipeEffect, HubEffect, Active
  <2>2. CASE q # p
    <3>1. th'[q] = th[q] /\ (Active(q)' <=> Active(q)) /\ Ctl(q) \in Cntls
      BY <1>1, <2>2 DEF OthersAs, Active, WiresRight
    <3>2. Apart(cntl'[Ctl(q)], PipesOf(th[q]))
      BY <1>1, <1>5, <2>2, <3>1 DEF OthersAs, EnumInv, PipesRight
    <3> QED
      BY <3>1, <3>2 DEF EnumInv, PipesRight
  <2> QED
    BY <2>1, <2>2
<1>7. ASSUME NEW q \in Ports, NEW s \in Ports, q # s, Ctl(q) = Ctl(s)
      PROVE  PipesOf(th'[q]) \intersect PipesOf(th'[s]) = {}
  BY <1>1, <1>5, <1>7 DEF OthersAs, EnumInv, PipesRight
<1>8. ASSUME NEW c \in Cntls PROVE KRight(cntl'[c])
  BY <1>1, <1>2 DEF OthersAs, PipeEffect, EnumInv, PipesRight
<1>9. \A q \in Ports : /\ Apart(cntl'[Ctl(q)], PipesOf(th'[q]))
                       /\ th'[q].pc # "end" => th'[q].held = {}
                       /\ th'[q].pc \in {"off", "detect", "lock", "addr", "end"} => th'[q].pipe = 0
  BY <1>6
<1>10. \A q \in Ports : PipesOf(th[q])' = PipesOf(th'[q]) /\ KRight(cntl[Ctl(q)])' = KRight(cntl'[Ctl(q)'])
                        /\ Apart(cntl[Ctl(q)], PipesOf(th[q]))' = Apart(cntl'[Ctl(q)'], PipesOf(th'[q]))
  BY DEF PipesOf, KRight, Apart, Made, FreeIds
<1>11. \A c : KRight(cntl[c])' = KRight(cntl'[c])
  BY DEF KRight, Made, FreeIds
<1> QED
  BY <1>1, <1>7, <1>8, <1>9, <1>10, <1>11 DEF PipesRight, SameMachine

LEMMA StepRelease == ASSUME EnumInv, NEW p \in Ports, NEW r, NEW k, PortStep(p, r, k) PROVE ReleaseRight'
<1>1. OthersAs(p, r, k) /\ SameMachine /\ WiresRight
  BY Others
<1>2. SameState(cntl[Ctl(p)], k) /\ machine' = machine /\ Active(p)
  BY DEF PortStep
<1>3. Ctl(p) \in Cntls /\ cntl[Ctl(p)].st = "enum"
  BY <1>1, <1>2 DEF WiresRight, EnumInv, HubsRight
<1>4. cntl'[Ctl(p)].st = "enum" /\ cntl'[Ctl(p)].freed = {}
  BY <1>1, <1>2, <1>3 DEF SameState, OthersAs, EnumInv, ReleaseRight
<1>5. ASSUME NEW c \in Cntls
      PROVE  /\ cntl'[c].st \in {"off", "ports", "enum", "tick"} => cntl'[c].freed = {}
             /\ cntl'[c].st = "tick" /\ machine.kind[c] # "ohci" => Freeable(c)' \intersect cntl'[c].sched = {}
             /\ 0 \notin cntl'[c].freed
             /\ cntl'[c].freed \intersect cntl'[c].sched = {}
             /\ \A q \in Ports : Ctl(q) = c => PipesOf(th'[q]) \intersect cntl'[c].freed = {}
             /\ ~cntl'[c].stuck => cntl'[c].freed \intersect cntl'[c].stale = {}
  <2>1. CASE c = Ctl(p)
    BY <1>4, <2>1
  <2>2. CASE c # Ctl(p)
    <3>1. cntl'[c] = cntl[c]
      BY <1>1, <2>2 DEF OthersAs
    <3>2. Freeable(c)' = Freeable(c)
      BY <1>2, <3>1 DEF Freeable, FreeOf
    <3>3. \A q \in Ports : Ctl(q) = c => th'[q] = th[q]
      BY <1>1, <2>2 DEF OthersAs
    <3> QED
      BY <3>1, <3>2, <3>3 DEF EnumInv, ReleaseRight
  <2> QED
    BY <2>1, <2>2
<1>6. \A q \in Ports : PipesOf(th[q])' = PipesOf(th'[q])
  BY DEF PipesOf
<1> QED
  BY <1>1, <1>2, <1>5, <1>6 DEF ReleaseRight, SameMachine

\* A thread that ends is one less of its hub's.
LEMMA CountsLess ==
    ASSUME EnumInv, NEW p \in Ports, NEW r, NEW k, PortStep(p, r, k), r.pc = "end"
    PROVE  /\ hubs[Up(p)].threads > 0
           /\ Cardinality(ActiveOf(Up(p)) \ {p}) <= hubs[Up(p)].threads - 1
<1>1. WiresRight
  BY Others
<1>2. IsFiniteSet(ActiveOf(Up(p)))
  BY <1>1, FS_Subset DEF WiresRight, ActiveOf, PortsOf
<1>3. p \in ActiveOf(Up(p))
  BY DEF PortStep, ActiveOf, PortsOf, Up
<1>4. Cardinality(ActiveOf(Up(p))) \in Nat /\ Cardinality(ActiveOf(Up(p)) \ {p}) \in Nat
      /\ Cardinality(ActiveOf(Up(p)) \ {p}) = Cardinality(ActiveOf(Up(p))) - 1
  BY <1>2, <1>3, FS_RemoveElement, FS_CardinalityType
<1>5. Cardinality(ActiveOf(Up(p))) <= hubs[Up(p)].threads /\ hubs[Up(p)].threads \in Nat
  BY <1>1 DEF EnumInv, HubsRight, EnumTypeOK, WiresRight
<1> QED
  BY <1>4, <1>5

LEMMA StepHubTypes ==
    ASSUME EnumInv, NEW p \in Ports, NEW r, NEW k, PortStep(p, r, k)
    PROVE  /\ hubs' \in [Hubs -> [threads : Nat, devcount : Nat]]
           /\ \A h \in Hubs : h # Up(p) => hubs'[h] = hubs[h]
           /\ \A h \in Hubs : hubs'[h].devcount >= hubs[h].devcount
           /\ r.pc # "end" => hubs' = hubs
           /\ r.pc = "end" => hubs'[Up(p)].threads = hubs[Up(p)].threads - 1
           /\ r.ok => hubs'[Up(p)].devcount > 0
<1>0. WiresRight /\ Up(p) \in Hubs /\ hubs \in [Hubs -> [threads : Nat, devcount : Nat]] /\ HubEffect(p, r)
  BY Others DEF WiresRight, EnumInv, EnumTypeOK, PortStep
<1>1. CASE r.pc # "end"
  BY <1>0, <1>1 DEF HubEffect
<1>2. CASE r.pc = "end"
  <2>1. PICK n \in Nat :
          /\ hubs' = [hubs EXCEPT ![Up(p)] = [threads |-> @.threads - 1, devcount |-> @.devcount + n]]
          /\ r.ok => n > 0
    BY <1>0, <1>2 DEF HubEffect
  <2>2. hubs[Up(p)].threads > 0
    BY <1>2, CountsLess
  <2>3. hubs[Up(p)].threads - 1 \in Nat /\ hubs[Up(p)].devcount + n \in Nat /\ hubs[Up(p)].devcount + n >= hubs[Up(p)].devcount
        /\ (n > 0 => hubs[Up(p)].devcount + n > 0)
    BY <1>0, <2>2
  <2>4. \A h \in Hubs : hubs'[h] = IF h = Up(p) THEN [threads |-> hubs[h].threads - 1, devcount |-> hubs[h].devcount + n]
                                   ELSE hubs[h]
    BY <1>0, <2>1
  <2>5. hubs' \in [Hubs -> [threads : Nat, devcount : Nat]]
    BY <1>0, <2>1, <2>3
  <2>6. \A h \in Hubs : hubs[h].devcount \in Nat
    BY <1>0
  <2> QED
    BY <1>0, <1>2, <2>1, <2>3, <2>4, <2>5, <2>6
<1> QED
  BY <1>1, <1>2

LEMMA StepTypes == ASSUME EnumInv, NEW p \in Ports, NEW r, NEW k, PortStep(p, r, k) PROVE EnumTypeOK'
<1>1. OthersAs(p, r, k) /\ SameMachine
  BY Others
<1>2. hubs' \in [Hubs -> [threads : Nat, devcount : Nat]]
  BY StepHubTypes
<1>3. /\ machine' = machine /\ pending' = pending /\ lost' \in BOOLEAN /\ faults' \in Nat
      /\ dev' \in [DOMAIN machine.class -> DeviceSet] /\ DOMAIN hid' = HidKinds
  BY DEF PortStep, DevEffect, HidEffect
<1> QED
  BY <1>1, <1>2, <1>3 DEF EnumInv, EnumTypeOK, OthersAs, SameMachine

LEMMA StepHubs == ASSUME EnumInv, NEW p \in Ports, NEW r, NEW k, PortStep(p, r, k) PROVE HubsRight'
<1>1. OthersAs(p, r, k) /\ SameMachine /\ WiresRight
  BY Others
<1>2. HubEffect(p, r) /\ Active(p) /\ k.st = cntl[Ctl(p)].st
  BY DEF PortStep, SameState
<1>3. /\ \A h \in Hubs : h # Up(p) => hubs'[h] = hubs[h]
      /\ \A h \in Hubs : hubs'[h].devcount >= hubs[h].devcount
      /\ r.pc # "end" => hubs' = hubs
      /\ r.pc = "end" => hubs'[Up(p)].threads = hubs[Up(p)].threads - 1
      /\ r.ok => hubs'[Up(p)].devcount > 0
  BY StepHubTypes
<1>4. \A q \in Ports : Up(q) \in Hubs /\ Ctl(q) \in Cntls /\ (OnHub(q) => Up(q) \in Ports)
  BY <1>1 DEF WiresRight, OnHub, Up
<1>5. ASSUME NEW q \in Ports
      PROVE  /\ q # p => th'[q] = th[q] /\ (Active(q)' <=> Active(q))
             /\ Active(q)' => Active(q)
             /\ th'[q].pc # "off" <=> th[q].pc # "off"
             /\ cntl'[Ctl(q)].st = cntl[Ctl(q)].st
  BY <1>1, <1>2, <1>4 DEF OthersAs, Active, HubEffect
\* A hub that ends had no threads left.
<1>6. ASSUME NEW q \in Ports, OnHub(q), Up(q) = p
      PROVE  /\ th[p].pc # "wait" => th[q].pc = "off" \/ th[p].pc = "end"
             /\ th[p].pc = "wait" => ~Active(q)
  <2>1. ASSUME th[p].pc = "wait" PROVE ~Active(q)
    <3>1. hubs[p].threads = 0 /\ p \in Hubs
      BY <1>2, <2>1 DEF HubEffect, Hubs
    <3>2. IsFiniteSet(ActiveOf(p))
      BY <1>1, FS_Subset DEF WiresRight, ActiveOf, PortsOf
    <3>3. Cardinality(ActiveOf(p)) <= 0
      BY <3>1 DEF EnumInv, HubsRight
    <3>4. ActiveOf(p) = {}
      BY <3>2, <3>3, FS_CardinalityType, FS_EmptySet
    <3> QED
      BY <1>6, <3>4 DEF ActiveOf, PortsOf, Up
  <2>2. th[q].pc # "off" => th[p].pc \in {"wait", "end"}
    BY <1>6 DEF EnumInv, HubsRight
  <2> QED
    BY <2>1, <2>2
<1>7. th[p].pc # "end"
  BY <1>2 DEF Active
<1>8. ASSUME NEW q \in Ports, OnHub(q), th'[q].pc # "off" PROVE th'[Up(q)].pc \in {"wait", "end"}
  <2>1. th[q].pc # "off" /\ th[Up(q)].pc \in {"wait", "end"} /\ Up(q) \in Ports
    BY <1>4, <1>5, <1>8 DEF EnumInv, HubsRight
  <2>2. CASE Up(q) = p
    BY <1>1, <1>2, <1>6, <1>7, <1>8, <2>1, <2>2 DEF HubEffect, OthersAs
  <2>3. CASE Up(q) # p
    BY <1>5, <2>1, <2>3
  <2> QED
    BY <2>2, <2>3
<1>9. ASSUME NEW q \in Ports, OnHub(q), Active(q)' PROVE th'[Up(q)].pc = "wait"
  <2>1. Active(q) /\ th[Up(q)].pc = "wait" /\ Up(q) \in Ports
    BY <1>4, <1>5, <1>9 DEF EnumInv, HubsRight
  <2>2. Up(q) # p
    BY <1>6, <1>9, <2>1
  <2> QED
    BY <1>5, <2>1, <2>2
<1>10. ASSUME NEW h \in Hubs PROVE Cardinality(ActiveOf(h)') <= hubs'[h].threads
  <2>0. /\ ActiveOf(h)' = {q \in PortsOf(h) : Active(q)'} /\ IsFiniteSet(ActiveOf(h)) /\ PortsOf(h) \subseteq Ports
        /\ Cardinality(ActiveOf(h)) <= hubs[h].threads /\ hubs[h].threads \in Nat
    BY <1>1, FS_Subset DEF WiresRight, SameMachine, ActiveOf, PortsOf, EnumInv, HubsRight, EnumTypeOK
  <2>1. CASE h = Up(p) /\ r.pc = "end"
    <3>1. ActiveOf(h)' = ActiveOf(h) \ {p}
      BY <1>1, <1>5, <2>0, <2>1 DEF ActiveOf, OthersAs, Active
    <3> QED
      BY <1>3, <2>1, <3>1, CountsLess
  <2>2. CASE h # Up(p) \/ r.pc # "end"
    <3>1. ActiveOf(h)' \subseteq ActiveOf(h) /\ hubs'[h] = hubs[h]
      BY <1>3, <1>5, <2>0, <2>2 DEF ActiveOf
    <3>2. Cardinality(ActiveOf(h)') <= Cardinality(ActiveOf(h)) /\ Cardinality(ActiveOf(h)') \in Nat
          /\ Cardinality(ActiveOf(h)) \in Nat
      BY <2>0, <3>1, FS_Subset, FS_CardinalityType
    <3> QED
      BY <2>0, <3>1, <3>2
  <2> QED
    BY <2>1, <2>2
<1>11. ASSUME NEW q \in Ports, th'[q].ok
       PROVE  /\ hubs'[Up(q)].devcount > 0
              /\ th'[q].pc = "end" /\ cntl'[Ctl(q)].st # "freed"
              /\ OnHub(q) => th'[Up(q)].pc = "wait" \/ th'[Up(q)].ok
  <2>1. CASE q = p
    <3>1. r.ok /\ r.pc = "end"
      BY <1>1, <1>2, <1>11, <2>1 DEF OthersAs, HubEffect
    <3>2. cntl[Ctl(p)].st = "enum" /\ (OnHub(p) => th[Up(p)].pc = "wait")
      BY <1>2 DEF EnumInv, HubsRight
    <3>3. OnHub(p) => th'[Up(p)].pc = "wait"
      <4>1. OnHub(p) => Up(p) # p
        BY <1>6, <1>2, <3>2
      <4> QED
        BY <1>4, <1>5, <3>2, <4>1
    <3> QED
      BY <1>1, <1>3, <1>5, <2>1, <3>1, <3>2, <3>3 DEF OthersAs
  <2>2. CASE q # p
    <3>1. /\ th[q].ok /\ hubs[Up(q)].devcount > 0 /\ th[q].pc = "end" /\ cntl[Ctl(q)].st # "freed"
          /\ OnHub(q) => th[Up(q)].pc = "wait" \/ th[Up(q)].ok
      BY <1>5, <1>11, <2>2 DEF EnumInv, HubsRight
    <3>2. hubs'[Up(q)].devcount > 0
      <4>1. hubs'[Up(q)].devcount >= hubs[Up(q)].devcount /\ hubs'[Up(q)].devcount \in Nat /\ hubs[Up(q)].devcount \in Nat
        BY <1>3, <1>4, StepHubTypes DEF EnumInv, EnumTypeOK
      <4> QED
        BY <3>1, <4>1
    <3>3. OnHub(q) /\ Up(q) = p => th'[p].pc = "wait" \/ th'[p].ok
      <4> SUFFICES ASSUME OnHub(q), Up(q) = p PROVE th'[p].ok
        OBVIOUS
      <4>1. th[p].pc = "wait"
        BY <1>7, <3>1 DEF EnumInv, HubsRight
      <4>2. hubs[p].devcount > 0 /\ p \in Hubs /\ hubs[p].devcount \in Nat
        BY <3>1 DEF Hubs, EnumInv, EnumTypeOK
      <4> QED
        BY <1>1, <1>2, <4>1, <4>2 DEF HubEffect, OthersAs
    <3>4. OnHub(q) => th'[Up(q)].pc = "wait" \/ th'[Up(q)].ok
      BY <1>4, <1>5, <3>1, <3>3
    <3> QED
      BY <1>5, <2>2, <3>1, <3>2, <3>4
  <2> QED
    BY <2>1, <2>2
<1>12. \A q \in Ports : /\ Active(q)' => cntl'[Ctl(q)].st = "enum"
                        /\ th'[q].pc # "off" => cntl'[Ctl(q)].st \in {"enum", "tick", "run", "freed"}
  BY <1>5 DEF EnumInv, HubsRight
<1> QED
  BY <1>1, <1>4, <1>8, <1>9, <1>10, <1>11, <1>12 DEF HubsRight, SameMachine

LEMMA StepKeeps == ASSUME EnumInv, NEW p \in Ports, NEW r, NEW k, PortStep(p, r, k) PROVE EnumInv'
  BY StepTypes, StepHubs, StepPending, StepLock, StepDevices, StepAddress, StepPipes, StepRelease, StepHid DEF EnumInv

-----------------------------------------------------------------------------
(***************************************************************************)
(* usb_enumerate: the hub h of controller c starts the threads of `new`.   *)
(***************************************************************************)
SameBooks(k, j) ==
    /\ j.lock = k.lock /\ j.maxaddr = k.maxaddr /\ j.free = k.free /\ j.types = k.types
    /\ j.sched = k.sched /\ j.freed = k.freed /\ j.stale = k.stale /\ j.stuck = k.stuck
Launched(h, new, c) ==
    /\ h \in Hubs /\ new \subseteq PortsOf(h) /\ c \in Cntls /\ \A q \in PortsOf(h) : Ctl(q) = c
    /\ th' \in [Ports -> ThreadSet] /\ cntl' \in [Cntls -> CntlSet]
    /\ hubs' \in [Hubs -> [threads : Nat, devcount : Nat]]
    /\ UNCHANGED <<machine, dev, pending, hid>> /\ lost' \in BOOLEAN /\ faults' \in Nat
    /\ \A q \in Ports :
          /\ th'[q].pipe = th[q].pipe /\ th'[q].held = th[q].held /\ th'[q].ok = th[q].ok
          /\ q \in new => th[q].pc = "off" /\ th'[q].pc = "detect"
          /\ q = h => th[q].pc = "hub" /\ th'[q].pc = "wait" /\ Ctl(q) = c
          /\ q \notin new /\ q # h => th'[q].pc = th[q].pc
    /\ \A d \in Cntls : d # c => cntl'[d] = cntl[d]
    /\ cntl'[c].st = "enum" /\ cntl[c].st \in {"ports", "enum"} /\ SameBooks(cntl[c], cntl'[c])
    /\ \/ h \in Ports
       \/ h = c /\ (machine.kind[c] \in {"uhci", "ohci"} => pending = 0)
    /\ \A g \in Hubs : hubs'[g].devcount = hubs[g].devcount
    /\ \A g \in Hubs : hubs'[g].threads = IF g = h THEN Cardinality(PortsOf(h)) ELSE hubs[g].threads

LEMMA LaunchHubs == ASSUME EnumInv, NEW h, NEW new, NEW c, Launched(h, new, c) PROVE HubsRight'
<1>1. SameMachine /\ WiresRight
  BY Stays, Wiring DEF Launched, EnumInv, EnumTypeOK
<1>2. \A q \in Ports : Up(q) \in Hubs /\ Ctl(q) \in Cntls /\ (OnHub(q) => Up(q) \in Ports)
  BY <1>1 DEF WiresRight, OnHub, Up
<1>3. ASSUME NEW q \in Ports
      PROVE  /\ q \in new => th[q].pc = "off" /\ th'[q].pc = "detect" /\ Ctl(q) = c /\ Up(q) = h
             /\ q = h => th[q].pc = "hub" /\ th'[q].pc = "wait" /\ Ctl(q) = c
             /\ q \notin new /\ q # h => th'[q].pc = th[q].pc
             /\ th'[q].ok = th[q].ok
  BY DEF Launched, PortsOf, Up
<1>4. ASSUME NEW q \in Ports, OnHub(q), th'[q].pc # "off" PROVE th'[Up(q)].pc \in {"wait", "end"}
  BY <1>2, <1>3, <1>4 DEF EnumInv, HubsRight
<1>5. ASSUME NEW q \in Ports, OnHub(q), Active(q)' PROVE th'[Up(q)].pc = "wait"
  <2>1. CASE q \in new
    BY <1>2, <1>3, <1>5, <2>1
  <2>2. CASE q \notin new
    <3>1. Active(q)
      BY <1>3, <1>5, <2>2 DEF Active
    <3> QED
      BY <1>2, <1>3, <1>5, <3>1 DEF EnumInv, HubsRight
  <2> QED
    BY <2>1, <2>2
<1>6. ASSUME NEW q \in Ports
      PROVE  /\ Active(q)' => cntl'[Ctl(q)].st = "enum"
             /\ th'[q].pc # "off" => cntl'[Ctl(q)].st \in {"enum", "tick", "run", "freed"}
  <2>1. CASE Ctl(q) = c
    BY <2>1 DEF Launched
  <2>2. CASE Ctl(q) # c
    <3>1. q \notin new /\ q # h /\ cntl'[Ctl(q)] = cntl[Ctl(q)]
      BY <1>2, <1>3, <2>2 DEF Launched
    <3> QED
      BY <1>3, <3>1 DEF EnumInv, HubsRight, Active
  <2> QED
    BY <2>1, <2>2
<1>7. ASSUME NEW g \in Hubs PROVE Cardinality(ActiveOf(g)') <= hubs'[g].threads
  <2>0. ActiveOf(g)' = {q \in PortsOf(g) : Active(q)'} /\ PortsOf(g) \subseteq Ports
    BY <1>1 DEF SameMachine, ActiveOf, PortsOf
  <2>1. CASE g = h
    <3>1. IsFiniteSet(PortsOf(h)) /\ ActiveOf(g)' \in SUBSET PortsOf(h)
      BY <1>1, <2>0, <2>1, FS_Subset DEF WiresRight
    <3> QED
      BY <2>1, <3>1, FS_Subset DEF Launched
  <2>2. CASE g # h
    <3>1. ASSUME NEW q \in PortsOf(g) PROVE Active(q)' <=> Active(q)
      BY <1>3, <2>0, <2>2 DEF Active, PortsOf, Up
    <3>2. ActiveOf(g)' = ActiveOf(g)
      BY <2>0, <3>1 DEF ActiveOf
    <3> QED
      BY <2>2, <3>2 DEF Launched, EnumInv, HubsRight
  <2> QED
    BY <2>1, <2>2
<1>8. ASSUME NEW q \in Ports, th'[q].ok
      PROVE  /\ hubs'[Up(q)].devcount > 0 /\ th'[q].pc = "end" /\ cntl'[Ctl(q)].st # "freed"
             /\ OnHub(q) => th'[Up(q)].pc = "wait" \/ th'[Up(q)].ok
  <2>1. /\ th[q].ok /\ hubs[Up(q)].devcount > 0 /\ th[q].pc = "end" /\ cntl[Ctl(q)].st # "freed"
        /\ OnHub(q) => th[Up(q)].pc = "wait" \/ th[Up(q)].ok
    BY <1>3, <1>8 DEF EnumInv, HubsRight
  <2>2. hubs'[Up(q)].devcount > 0 /\ th'[q].pc = "end"
    BY <1>2, <1>3, <2>1 DEF Launched
  <2>3. cntl'[Ctl(q)].st # "freed"
    BY <1>2, <2>1 DEF Launched
  <2>4. OnHub(q) => th'[Up(q)].pc = "wait" \/ th'[Up(q)].ok
    BY <1>2, <1>3, <2>1 DEF EnumInv, HubsRight
  <2> QED
    BY <2>2, <2>3, <2>4
<1> QED
  BY <1>1, <1>2, <1>4, <1>5, <1>6, <1>7, <1>8 DEF HubsRight, SameMachine

LEMMA LaunchKeeps == ASSUME EnumInv, NEW h, NEW new, NEW c, Launched(h, new, c) PROVE EnumInv'
<1>1. SameMachine /\ WiresRight /\ machine' = machine
  BY Stays, Wiring DEF Launched, EnumInv, EnumTypeOK
<1>2. \A q \in Ports : Up(q) \in Hubs /\ Ctl(q) \in Cntls /\ At(q) \in DOMAIN machine.class
  BY <1>1 DEF WiresRight
<1>3. ASSUME NEW q \in Ports
      PROVE  /\ q \in new => th[q].pc = "off" /\ th'[q].pc = "detect" /\ Ctl(q) = c /\ Up(q) = h
             /\ q = h => th[q].pc = "hub" /\ th'[q].pc = "wait" /\ Ctl(q) = c
             /\ q \notin new /\ q # h => th'[q].pc = th[q].pc
             /\ th'[q].ok = th[q].ok
  BY DEF Launched, PortsOf, Up
<1>4. ASSUME NEW q \in Ports
      PROVE  /\ Setting(q)' <=> Setting(q)
             /\ Busy(q)' <=> Busy(q)
             /\ \A s \in {"lock", "addr", "send", "settle"} : th'[q].pc = s <=> th[q].pc = s
             /\ PipesOf(th'[q]) = PipesOf(th[q])
             /\ cntl'[Ctl(q)].lock = cntl[Ctl(q)].lock /\ cntl'[Ctl(q)].maxaddr = cntl[Ctl(q)].maxaddr
  <2>1. \A s \in {"lock", "addr", "send", "settle"} : th'[q].pc = s <=> th[q].pc = s
    BY <1>3
  <2>2. th'[q].pc \in After <=> th[q].pc \in After
    BY <1>3 DEF After
  <2>3. PipesOf(th'[q]) = PipesOf(th[q])
    BY DEF Launched, PipesOf
  <2>4. cntl'[Ctl(q)].lock = cntl[Ctl(q)].lock /\ cntl'[Ctl(q)].maxaddr = cntl[Ctl(q)].maxaddr
    BY <1>2 DEF Launched, SameBooks
  <2> QED
    BY <1>3, <2>1, <2>2, <2>3, <2>4 DEF Setting, Busy
<1>5. dev' = dev /\ \A q \in Ports : (Seen(q)' <=> Seen(q)) /\ (Speaks(q)' <=> Speaks(q))
  BY <1>1 DEF Launched, Seen, Speaks, SameMachine
<1>6. EnumTypeOK'
  BY <1>1 DEF Launched, EnumInv, EnumTypeOK, SameMachine
<1>7. PendingRight'
  <2>1. EhciOff' = EhciOff
    BY <1>1 DEF EhciOff, Launched, Cntls
  <2>2. ASSUME NEW q \in Ports, th'[q].pc # "off", Kind(q) \in {"uhci", "ohci"} PROVE pending = 0
    <3>1. CASE q \in new
      <4>1. Kind(q) = machine.kind[c] /\ (h \in Ports => Kind(h) = machine.kind[c] /\ th[h].pc # "off")
        BY <1>3, <3>1 DEF Kind, Ctl
      <4> QED
        BY <2>2, <4>1 DEF Launched, EnumInv, PendingRight
    <3>2. CASE q \notin new
      BY <1>3, <2>2, <3>2 DEF EnumInv, PendingRight
    <3> QED
      BY <3>1, <3>2
  <2> QED
    BY <1>1, <2>1, <2>2 DEF PendingRight, SameMachine, EnumInv, Launched
<1>8. LockRight'
  BY <1>1, <1>4 DEF LockRight, EnumInv, SameMachine
<1>9. DevicesRight'
  <2>1. ASSUME NEW q \in Ports
        PROVE  /\ th'[q].pc = "lock" \/ Busy(q)' => Seen(q) /\ Class(q) # "none"
               /\ Busy(q)' => dev[At(q)].on
    BY <1>4 DEF EnumInv, DevicesRight
  <2>2. ASSUME NEW q \in Ports, Kind(q) = "ehci", ~OnHub(q),
               Active(q)' \/ (th'[q].pc = "off" /\ cntl'[Ctl(q)].st \in {"ports", "enum"})
        PROVE  Seen(q)
    <3>1. CASE q \in new
      <4>1. th[q].pc = "off" /\ cntl[Ctl(q)].st \in {"ports", "enum"}
        BY <1>3, <3>1 DEF Launched
      <4> QED
        BY <2>2, <4>1 DEF EnumInv, DevicesRight
    <3>2. CASE q \notin new
      <4>1. Active(q)' => Active(q)
        BY <1>3, <3>2 DEF Active
      <4>2. th'[q].pc = "off" /\ cntl'[Ctl(q)].st \in {"ports", "enum"} => th[q].pc = "off" /\ cntl[Ctl(q)].st \in {"ports", "enum"}
        BY <1>2, <1>3, <3>2 DEF Launched
      <4> QED
        BY <2>2, <4>1, <4>2 DEF EnumInv, DevicesRight
    <3> QED
      BY <3>1, <3>2
  <2>3. ASSUME NEW q \in Ports, th[q].pc # "off" PROVE th'[q].pc # "off"
    BY <1>3, <2>3
  <2>4. \A d \in DOMAIN machine.class : dev[d].on => \E q \in Ports : At(q) = d /\ th'[q].pc # "off"
    BY <2>3 DEF EnumInv, DevicesRight
  <2> QED
    BY <1>1, <1>5, <2>1, <2>2, <2>4 DEF DevicesRight, SameMachine
<1>10. AddressRight'
  <2>1. ASSUME NEW q \in Ports, Speaks(q)
        PROVE  /\ \/ dev[At(q)].addr <= cntl'[Ctl(q)].maxaddr
                  \/ th'[q].pc = "settle" /\ dev[At(q)].addr = cntl'[Ctl(q)].maxaddr + 1
               /\ dev[At(q)].addr = 0 => th'[q].pc \in {"addr", "send"}
    BY <1>4, <2>1 DEF EnumInv, AddressRight
  <2> QED
    BY <1>1, <1>5, <2>1 DEF EnumInv, AddressRight, SameMachine
<1>11. PipesRight'
  <2>1. ASSUME NEW d \in Cntls PROVE cntl'[d].free = cntl[d].free /\ cntl'[d].types = cntl[d].types /\ cntl'[d].sched = cntl[d].sched
    BY DEF Launched, SameBooks
  <2>2. \A d \in Cntls : KRight(cntl[d])' /\ FreeIds(cntl[d])' = FreeIds(cntl[d]) /\ Made(cntl[d])' = Made(cntl[d])
    BY <2>1 DEF KRight, FreeIds, Made, EnumInv, PipesRight
  <2>3. ASSUME NEW q \in Ports
        PROVE  /\ Apart(cntl[Ctl(q)], PipesOf(th[q]))'
               /\ th'[q].pc # "end" => th'[q].held = {}
               /\ th'[q].pc \in {"off", "detect", "lock", "addr", "end"} => th'[q].pipe = 0
    <3>1. cntl'[Ctl(q)].free = cntl[Ctl(q)].free /\ cntl'[Ctl(q)].types = cntl[Ctl(q)].types /\ Ctl(q)' = Ctl(q)
      BY <1>1, <1>2, <2>1 DEF SameMachine
    <3>2. Apart(cntl[Ctl(q)], PipesOf(th[q]))'
      BY <1>4, <3>1 DEF Apart, FreeIds, Made, PipesOf, EnumInv, PipesRight
    <3>3. th'[q].held = th[q].held /\ th'[q].pipe = th[q].pipe
      BY DEF Launched
    <3> QED
      BY <1>3, <3>2, <3>3 DEF EnumInv, PipesRight
  <2>4. \A q \in Ports : PipesOf(th[q])' = PipesOf(th[q])
    BY <1>4 DEF PipesOf
  <2> QED
    BY <1>1, <2>2, <2>3, <2>4 DEF PipesRight, EnumInv, SameMachine
<1>12. ReleaseRight'
  <2>1. ASSUME NEW d \in Cntls
        PROVE  /\ cntl'[d].st \in {"off", "ports", "enum", "tick"} => cntl'[d].freed = {}
               /\ cntl'[d].st = "tick" /\ machine.kind[d] # "ohci" => Freeable(d)' \intersect cntl'[d].sched = {}
               /\ 0 \notin cntl'[d].freed
               /\ cntl'[d].freed \intersect cntl'[d].sched = {}
               /\ \A q \in Ports : Ctl(q) = d => PipesOf(th[q])' \intersect cntl'[d].freed = {}
               /\ ~cntl'[d].stuck => cntl'[d].freed \intersect cntl'[d].stale = {}
    <3>1. CASE d = c
      <4>1. cntl'[c].freed = {} /\ cntl'[c].st = "enum"
        BY DEF Launched, SameBooks, EnumInv, ReleaseRight
      <4> QED
        BY <3>1, <4>1
    <3>2. CASE d # c
      <4>1. cntl'[d] = cntl[d]
        BY <3>2 DEF Launched
      <4>2. Freeable(d)' = Freeable(d)
        BY <1>1, <4>1 DEF Freeable, FreeOf
      <4>3. \A q \in Ports : PipesOf(th[q])' = PipesOf(th[q])
        BY <1>4 DEF PipesOf
      <4> QED
        BY <4>1, <4>2, <4>3 DEF EnumInv, ReleaseRight
    <3> QED
      BY <3>1, <3>2
  <2> QED
    BY <1>1, <2>1 DEF ReleaseRight, SameMachine
<1>13. HidRight'
  BY <1>1 DEF HidRight, EnumInv, Launched, SameMachine
<1> QED
  BY <1>6, <1>7, <1>8, <1>9, <1>10, <1>11, <1>12, <1>13, LaunchHubs DEF EnumInv

-----------------------------------------------------------------------------
(***************************************************************************)
(* The steps of the controllers.                                           *)
(***************************************************************************)
LEMMA NoneActive ==
    ASSUME EnumInv, NEW c \in Cntls, hubs[c].threads = 0, NEW q \in Ports, Ctl(q) = c
    PROVE  ~Active(q)
<1> SUFFICES ASSUME Active(q) PROVE FALSE
  OBVIOUS
<1> DEFINE S == {p \in Ports : Ctl(p) = c /\ Active(p)}
<1>1. WiresRight /\ machine \in Machines
  BY Wiring DEF EnumInv, EnumTypeOK
<1>2. S \subseteq Ports /\ S # {}
  OBVIOUS
<1> HIDE DEF S
<1>3. PICK p \in S : Up(p) \notin S
  BY <1>1, <1>2, Tree
<1>4. p \in Ports /\ Ctl(p) = c /\ Active(p)
  BY <1>3 DEF S
<1>5. ~OnHub(p)
  <2>1. OnHub(p) => Up(p) \in Ports /\ Ctl(Up(p)) = c /\ th[Up(p)].pc = "wait"
    BY <1>1, <1>4 DEF WiresRight, OnHub, Up, EnumInv, HubsRight
  <2> QED
    BY <1>3, <2>1 DEF S, Active
<1>6. p \in ActiveOf(c)
  BY <1>1, <1>4, <1>5 DEF WiresRight, ActiveOf, PortsOf, Up
<1>7. Cardinality(ActiveOf(c)) <= 0 /\ IsFiniteSet(ActiveOf(c))
  BY <1>1, FS_Subset DEF EnumInv, HubsRight, Hubs, WiresRight, ActiveOf, PortsOf
<1> QED
  BY <1>6, <1>7, FS_CardinalityType, FS_EmptySet

LEMMA SomeCounted ==
    ASSUME EnumInv, NEW c \in Cntls, cntl[c].st # "enum", NEW q \in Ports, Ctl(q) = c, th[q].ok
    PROVE  hubs[c].devcount > 0
<1> DEFINE S == {p \in Ports : Ctl(p) = c /\ th[p].ok}
<1>1. WiresRight /\ machine \in Machines
  BY Wiring DEF EnumInv, EnumTypeOK
<1>2. S \subseteq Ports /\ S # {}
  OBVIOUS
<1> HIDE DEF S
<1>3. PICK p \in S : Up(p) \notin S
  BY <1>1, <1>2, Tree
<1>4. p \in Ports /\ Ctl(p) = c /\ th[p].ok
  BY <1>3 DEF S
<1>5. ~OnHub(p)
  <2>1. OnHub(p) => Up(p) \in Ports /\ Ctl(Up(p)) = c /\ (th[Up(p)].pc = "wait" \/ th[Up(p)].ok)
    BY <1>1, <1>4 DEF WiresRight, OnHub, Up, EnumInv, HubsRight
  <2>2. OnHub(p) => th[Up(p)].pc # "wait"
    BY <2>1 DEF EnumInv, HubsRight, Active
  <2> QED
    BY <1>3, <2>1, <2>2 DEF S
<1> QED
  BY <1>1, <1>4, <1>5 DEF WiresRight, EnumInv, HubsRight

CntlStep(c, k) ==
    /\ c \in Cntls /\ cntl' = [cntl EXCEPT ![c] = k] /\ k \in CntlSet
    /\ UNCHANGED <<machine, hubs, th, hid, lost>> /\ faults' \in Nat
    /\ k.lock = cntl[c].lock /\ k.maxaddr = cntl[c].maxaddr /\ k.types = cntl[c].types
    /\ \A q \in Ports : Ctl(q) = c =>
          /\ ~Active(q)
          /\ th[q].pc # "off" => k.st \in {"tick", "run", "freed"}
          /\ th[q].ok => k.st # "freed"
    /\ KRight(k) /\ FreeIds(k) \subseteq FreeIds(cntl[c])
    /\ k.st # "off"
    /\ \/ pending' = pending
       \/ pending' = pending - 1 /\ machine.kind[c] = "ehci" /\ cntl[c].st = "off"

LEMMA CntlApplied ==
    ASSUME EnumInv, NEW c, NEW k, CntlStep(c, k)
    PROVE  /\ SameMachine /\ WiresRight /\ machine' = machine /\ th' = th
           /\ cntl' \in [Cntls -> CntlSet] /\ cntl'[c] = k /\ \A d \in Cntls : d # c => cntl'[d] = cntl[d]
           /\ \A q \in Ports : Ctl(q) \in Cntls
  BY Stays, Wiring DEF EnumInv, EnumTypeOK, CntlStep, WiresRight

LEMMA EhciCounted ==
    ASSUME EnumInv, NEW c \in Cntls, machine.kind[c] = "ehci", cntl[c].st = "off"
    PROVE  /\ pending > 0 /\ Cardinality(EhciOff \ {c}) <= pending - 1
           /\ \A q \in Ports : th[q].pc # "off" => Kind(q) \notin {"uhci", "ohci"}
<1>1. WiresRight
  BY Wiring DEF EnumInv, EnumTypeOK
<1>2. IsFiniteSet(EhciOff) /\ c \in EhciOff
  BY <1>1, FS_Subset DEF WiresRight, EhciOff
<1>3. Cardinality(EhciOff) \in Nat /\ Cardinality(EhciOff \ {c}) = Cardinality(EhciOff) - 1
      /\ Cardinality(EhciOff \ {c}) \in Nat
  BY <1>2, FS_RemoveElement, FS_CardinalityType
<1>4. Cardinality(EhciOff) <= pending /\ pending \in Nat
  BY DEF EnumInv, EnumTypeOK, PendingRight
<1>5. pending > 0 /\ Cardinality(EhciOff \ {c}) <= pending - 1
  BY <1>3, <1>4
<1> QED
  BY <1>5 DEF EnumInv, PendingRight

LEMMA CntlMost ==
    ASSUME EnumInv, NEW c, NEW k, CntlStep(c, k), dev' \in [DOMAIN machine.class -> DeviceSet]
    PROVE  EnumTypeOK' /\ HubsRight' /\ PendingRight' /\ LockRight' /\ PipesRight' /\ HidRight'
<1>1. /\ SameMachine /\ WiresRight /\ machine' = machine /\ th' = th
      /\ cntl' \in [Cntls -> CntlSet] /\ cntl'[c] = k /\ \A d \in Cntls : d # c => cntl'[d] = cntl[d]
      /\ \A q \in Ports : Ctl(q) \in Cntls
  BY CntlApplied
<1>2. \A q \in Ports : /\ Active(q)' <=> Active(q)
                       /\ Setting(q)' <=> Setting(q)
                       /\ PipesOf(th[q])' = PipesOf(th[q])
  BY <1>1 DEF Active, Setting, PipesOf
<1>3. EnumTypeOK'
  <2>1. pending' \in Nat
    <3>1. pending \in Nat
      BY DEF EnumInv, EnumTypeOK
    <3>2. CASE pending' = pending - 1 /\ machine.kind[c] = "ehci" /\ cntl[c].st = "off"
      <4>1. pending > 0
        BY <3>2, EhciCounted DEF CntlStep
      <4> QED
        BY <3>1, <3>2, <4>1
    <3> QED
      BY <3>1, <3>2 DEF CntlStep
  <2> QED
    BY <1>1, <2>1 DEF CntlStep, EnumInv, EnumTypeOK, SameMachine
<1>4. HubsRight'
  <2>1. \A h \in Hubs : ActiveOf(h)' = ActiveOf(h)
    BY <1>1, <1>2 DEF ActiveOf, SameMachine, PortsOf
  <2>2. ASSUME NEW q \in Ports
        PROVE  /\ Active(q) => cntl'[Ctl(q)].st = "enum"
               /\ th[q].pc # "off" => cntl'[Ctl(q)].st \in {"enum", "tick", "run", "freed"}
               /\ th[q].ok => cntl'[Ctl(q)].st # "freed"
    BY <1>1 DEF CntlStep, EnumInv, HubsRight
  <2>3. hubs' = hubs
    BY DEF CntlStep
  <2> QED
    BY <1>1, <1>2, <2>1, <2>2, <2>3 DEF HubsRight, EnumInv, SameMachine
<1>5. PendingRight'
  <2>1. EhciOff' = IF cntl[c].st = "off" /\ machine.kind[c] = "ehci" THEN EhciOff \ {c} ELSE EhciOff
    BY <1>1 DEF EhciOff, SameMachine, CntlStep
  <2>2. IsFiniteSet(EhciOff) /\ Cardinality(EhciOff) \in Nat
    BY <1>1, FS_Subset, FS_CardinalityType DEF EhciOff, WiresRight
  <2>3. Cardinality(EhciOff') <= pending'
    <3>1. CASE cntl[c].st = "off" /\ machine.kind[c] = "ehci"
      <4>1. pending > 0 /\ Cardinality(EhciOff \ {c}) <= pending - 1
        BY <3>1, EhciCounted DEF CntlStep
      <4>2. pending' = pending \/ pending' = pending - 1
        BY DEF CntlStep
      <4>3. Cardinality(EhciOff \ {c}) \in Nat /\ pending \in Nat
        BY <2>2, FS_RemoveElement, FS_CardinalityType DEF EnumInv, EnumTypeOK
      <4> QED
        BY <2>1, <3>1, <4>1, <4>2, <4>3
    <3>2. CASE ~(cntl[c].st = "off" /\ machine.kind[c] = "ehci")
      BY <2>1, <3>2 DEF CntlStep, EnumInv, PendingRight
    <3> QED
      BY <3>1, <3>2
  <2>4. pending = 0 => pending' = 0
    BY EhciCounted DEF CntlStep
  <2> QED
    BY <1>1, <2>3, <2>4 DEF PendingRight, EnumInv, SameMachine
<1>6. LockRight'
  <2>1. \A q \in Ports : cntl'[Ctl(q)].lock = cntl[Ctl(q)].lock
    BY <1>1 DEF CntlStep
  <2> QED
    BY <1>1, <1>2, <2>1 DEF LockRight, EnumInv, SameMachine
<1>7. PipesRight'
  <2>1. ASSUME NEW d \in Cntls PROVE KRight(cntl'[d]) /\ FreeIds(cntl'[d]) \subseteq FreeIds(cntl[d]) /\ Made(cntl'[d]) = Made(cntl[d])
    BY <1>1 DEF CntlStep, EnumInv, PipesRight, Made
  <2>2. \A d \in Cntls : KRight(cntl[d])' = KRight(cntl'[d])
    BY DEF KRight, FreeIds, Made
  <2>3. ASSUME NEW q \in Ports PROVE Apart(cntl[Ctl(q)], PipesOf(th[q]))'
    <3>1. Apart(cntl'[Ctl(q)], PipesOf(th[q]))
      BY <1>1, <2>1 DEF Apart, EnumInv, PipesRight
    <3> QED
      BY <1>1, <1>2, <3>1 DEF Apart, FreeIds, Made, SameMachine, PipesOf
  <2> QED
    BY <1>1, <1>2, <2>1, <2>2, <2>3 DEF PipesRight, EnumInv, SameMachine
<1>8. HidRight'
  BY <1>1 DEF HidRight, EnumInv, SameMachine, CntlStep
<1> QED
  BY <1>3, <1>4, <1>5, <1>6, <1>7, <1>8

LEMMA CntlDevices ==
    ASSUME EnumInv, NEW c, NEW k, CntlStep(c, k), dev' = dev,
           machine.kind[c] = "ehci" => k.st \notin {"ports", "enum"}
    PROVE  DevicesRight' /\ AddressRight'
<1>1. /\ SameMachine /\ WiresRight /\ machine' = machine /\ th' = th
      /\ cntl' \in [Cntls -> CntlSet] /\ cntl'[c] = k /\ \A d \in Cntls : d # c => cntl'[d] = cntl[d]
      /\ \A q \in Ports : Ctl(q) \in Cntls
  BY CntlApplied
<1>2. \A q \in Ports : /\ Active(q)' <=> Active(q)
                       /\ Busy(q)' <=> Busy(q)
                       /\ Seen(q)' <=> Seen(q)
                       /\ Speaks(q)' <=> Speaks(q)
                       /\ cntl'[Ctl(q)].maxaddr = cntl[Ctl(q)].maxaddr
                       /\ Kind(q) = machine.kind[Ctl(q)]
  BY <1>1 DEF Active, Busy, Seen, Speaks, SameMachine, CntlStep, Kind, Ctl
<1>3. \A q \in Ports : Kind(q) = "ehci" /\ cntl'[Ctl(q)].st \in {"ports", "enum"} => cntl[Ctl(q)].st \in {"ports", "enum"}
  BY <1>1, <1>2
<1>4. DevicesRight'
  BY <1>1, <1>2, <1>3 DEF DevicesRight, EnumInv, SameMachine
<1>5. AddressRight'
  BY <1>1, <1>2 DEF AddressRight, EnumInv, SameMachine
<1> QED
  BY <1>4, <1>5

Routed(c) == dev' = [d \in DOMAIN dev |-> IF \E p \in PortsOf(c) : At(p) = d
                                         THEN [dev[d] EXCEPT !.seen = "ehci"] ELSE dev[d]]
LEMMA RoutedDevices ==
    ASSUME EnumInv, NEW c, NEW k, CntlStep(c, k), Routed(c), machine.kind[c] = "ehci", cntl[c].st = "off"
    PROVE  DevicesRight' /\ AddressRight' /\ dev' \in [DOMAIN machine.class -> DeviceSet]
<1>1. /\ SameMachine /\ WiresRight /\ machine' = machine /\ th' = th
      /\ cntl' \in [Cntls -> CntlSet] /\ cntl'[c] = k /\ \A d \in Cntls : d # c => cntl'[d] = cntl[d]
      /\ \A q \in Ports : Ctl(q) \in Cntls /\ At(q) \in DOMAIN machine.class
  BY CntlApplied DEF WiresRight
<1>2. c \in Cntls
  BY DEF CntlStep
<1>3. \A q \in Ports : th[q].pc # "off" => Kind(q) \notin {"uhci", "ohci"} /\ Ctl(q) # c
  BY <1>2, EhciCounted DEF EnumInv, HubsRight
<1>4. /\ dev \in [DOMAIN machine.class -> DeviceSet] /\ dev' \in [DOMAIN machine.class -> DeviceSet]
      /\ \A d \in DOMAIN machine.class : /\ dev'[d].on = dev[d].on /\ dev'[d].addr = dev[d].addr /\ dev'[d].stuck = dev[d].stuck
                                         /\ (\A p \in PortsOf(c) : At(p) # d) => dev'[d] = dev[d]
                                         /\ (\E p \in PortsOf(c) : At(p) = d) => dev'[d].seen = "ehci"
  <2>1. dev \in [DOMAIN machine.class -> DeviceSet]
    BY DEF EnumInv, EnumTypeOK
  <2>2. ASSUME NEW d \in DOMAIN machine.class
        PROVE  /\ dev'[d] = IF \E p \in PortsOf(c) : At(p) = d THEN [dev[d] EXCEPT !.seen = "ehci"] ELSE dev[d]
               /\ dev[d] \in DeviceSet /\ dev'[d] \in DeviceSet
    BY <2>1 DEF Routed, DeviceSet
  <2>3. dev' \in [DOMAIN machine.class -> DeviceSet]
    BY <2>1, <2>2 DEF Routed
  <2>4. ASSUME NEW d \in DOMAIN machine.class
        PROVE  /\ dev'[d].on = dev[d].on /\ dev'[d].addr = dev[d].addr /\ dev'[d].stuck = dev[d].stuck
               /\ (\A p \in PortsOf(c) : At(p) # d) => dev'[d] = dev[d]
               /\ (\E p \in PortsOf(c) : At(p) = d) => dev'[d].seen = "ehci"
    <3>1. CASE \E p \in PortsOf(c) : At(p) = d
      <4>1. dev'[d] = [dev[d] EXCEPT !.seen = "ehci"] /\ dev[d] \in DeviceSet
        BY <2>2, <3>1
      <4> QED
        BY <3>1, <4>1 DEF DeviceSet
    <3>2. CASE ~\E p \in PortsOf(c) : At(p) = d
      <4>1. dev'[d] = dev[d]
        BY <2>2, <3>2
      <4> QED
        BY <3>2, <4>1
    <3> QED
      BY <3>1, <3>2
  <2> QED
    BY <2>1, <2>3, <2>4
\* A port that started sees its device where it was: it does not share it with one of c.
<1>5. ASSUME NEW q \in Ports, th[q].pc # "off" PROVE dev'[At(q)] = dev[At(q)]
  <2>1. ASSUME NEW p \in PortsOf(c), At(p) = At(q) PROVE FALSE
    <3>1. p \in Ports /\ Up(p) = c /\ ~OnHub(p) /\ Ctl(p) = c
      BY <1>1, <1>2 DEF PortsOf, Up, WiresRight, OnHub
    <3>2. Kind(p) = "ehci" /\ p # q
      BY <1>3, <1>5, <3>1 DEF Kind, Ctl
    <3> QED
      BY <1>1, <1>3, <1>5, <2>1, <3>1, <3>2 DEF WiresRight
  <2> QED
    BY <1>1, <1>4, <2>1
<1>6. ASSUME NEW q \in Ports PROVE (Active(q)' <=> Active(q)) /\ (Busy(q)' <=> Busy(q)) /\ (th[q].pc = "lock" \/ Busy(q) => th[q].pc # "off")
  BY <1>1 DEF Active, Busy, After, EnumInv, HubsRight
<1>7. ASSUME NEW q \in Ports, th[q].pc # "off" PROVE (Seen(q)' <=> Seen(q)) /\ (Speaks(q)' <=> Speaks(q))
  BY <1>1, <1>5, <1>7 DEF Seen, Speaks, SameMachine
<1>8. ASSUME NEW q \in Ports, Kind(q) = "ehci", ~OnHub(q),
             Active(q)' \/ (th[q].pc = "off" /\ cntl'[Ctl(q)].st \in {"ports", "enum"})
      PROVE  Seen(q)'
  <2>0. SeenAs(q) = "ehci"
    BY <1>8 DEF SeenAs
  <2>1. CASE Ctl(q) = c
    <3>1. q \in PortsOf(c)
      BY <1>1, <1>8, <2>1 DEF PortsOf, WiresRight, Up
    <3> QED
      BY <1>1, <1>4, <2>0, <3>1 DEF Seen, SameMachine
  <2>2. CASE Ctl(q) # c
    <3>1. Seen(q)
      BY <1>1, <1>6, <1>8, <2>2 DEF EnumInv, DevicesRight
    <3> QED
      BY <1>1, <1>4, <2>0, <3>1 DEF Seen, SameMachine
  <2> QED
    BY <2>1, <2>2
<1>9. \A d \in DOMAIN machine.class : dev'[d].on => \E q \in Ports : At(q) = d /\ th[q].pc # "off"
  BY <1>4 DEF EnumInv, DevicesRight
<1>10. DevicesRight'
  <2>1. \A q \in Ports : /\ th[q].pc = "lock" \/ Busy(q)' => Seen(q)' /\ Class(q) # "none"
                         /\ Busy(q)' => dev'[At(q)].on
    BY <1>5, <1>6, <1>7 DEF EnumInv, DevicesRight
  <2> QED
    BY <1>1, <1>8, <1>9, <2>1 DEF DevicesRight, SameMachine
<1>11. ASSUME NEW q \in Ports, Speaks(q)' PROVE Speaks(q) /\ dev'[At(q)].addr = dev[At(q)].addr
  <2>1. PICK s \in Ports : At(s) = At(q) /\ th[s].pc # "off"
    BY <1>1, <1>4, <1>11 DEF EnumInv, DevicesRight, Speaks, SameMachine
  <2>2. dev'[At(q)] = dev[At(q)]
    BY <1>5, <2>1
  <2> QED
    BY <1>1, <1>11, <2>2 DEF Speaks, Seen, SameMachine
<1>12. \A q \in Ports : cntl'[Ctl(q)].maxaddr = cntl[Ctl(q)].maxaddr
  BY <1>1 DEF CntlStep
<1>13. AddressRight'
  BY <1>1, <1>11, <1>12 DEF AddressRight, EnumInv, SameMachine
<1> QED
  BY <1>4, <1>10, <1>13

ReleasesRight(c, k) ==
    /\ k.st \in {"off", "ports", "enum", "tick"} => k.freed = {}
    /\ k.st = "tick" /\ machine.kind[c] # "ohci" => Freeable(c)' \intersect k.sched = {}
    /\ 0 \notin k.freed
    /\ k.freed \intersect k.sched = {}
    /\ \A q \in Ports : Ctl(q) = c => PipesOf(th[q]) \intersect k.freed = {}
    /\ ~k.stuck => k.freed \intersect k.stale = {}
LEMMA CntlRelease ==
    ASSUME EnumInv, NEW c, NEW k, CntlStep(c, k), ReleasesRight(c, k)
    PROVE  ReleaseRight'
<1>1. /\ SameMachine /\ WiresRight /\ machine' = machine /\ th' = th
      /\ cntl' \in [Cntls -> CntlSet] /\ cntl'[c] = k /\ \A d \in Cntls : d # c => cntl'[d] = cntl[d]
      /\ \A q \in Ports : Ctl(q) \in Cntls
  BY CntlApplied
<1>2. \A q \in Ports : PipesOf(th[q])' = PipesOf(th[q])
  BY <1>1 DEF PipesOf
<1>3. ASSUME NEW d \in Cntls
      PROVE  /\ cntl'[d].st \in {"off", "ports", "enum", "tick"} => cntl'[d].freed = {}
             /\ cntl'[d].st = "tick" /\ machine.kind[d] # "ohci" => Freeable(d)' \intersect cntl'[d].sched = {}
             /\ 0 \notin cntl'[d].freed
             /\ cntl'[d].freed \intersect cntl'[d].sched = {}
             /\ \A q \in Ports : Ctl(q) = d => PipesOf(th[q])' \intersect cntl'[d].freed = {}
             /\ ~cntl'[d].stuck => cntl'[d].freed \intersect cntl'[d].stale = {}
  <2>1. CASE d = c
    BY <1>1, <1>2, <2>1 DEF ReleasesRight
  <2>2. CASE d # c
    <3>1. cntl'[d] = cntl[d]
      BY <1>1, <2>2
    <3>2. Freeable(d)' = Freeable(d)
      BY <1>1, <3>1 DEF Freeable, FreeOf
    <3> QED
      BY <1>2, <3>1, <3>2 DEF EnumInv, ReleaseRight
  <2> QED
    BY <2>1, <2>2
<1> QED
  BY <1>1, <1>3 DEF ReleaseRight, SameMachine

LEMMA FaultTypes == ASSUME EnumInv, Fault \/ NoFault PROVE faults' \in Nat
  BY DEF EnumInv, EnumTypeOK, Fault, NoFault

\* A controller that is off or scans its ports: nothing has been released.
LEMMA Waiting ==
    ASSUME EnumInv, NEW c \in Cntls, cntl[c].st \in {"off", "ports"}
    PROVE  /\ cntl[c].freed = {} /\ KRight(cntl[c]) /\ cntl[c] \in CntlSet
           /\ \A q \in Ports : Ctl(q) = c => th[q].pc = "off" /\ ~Active(q) /\ ~th[q].ok
<1>1. cntl[c].freed = {} /\ KRight(cntl[c]) /\ cntl[c] \in CntlSet
  BY DEF EnumInv, EnumTypeOK, ReleaseRight, PipesRight
<1>2. ASSUME NEW q \in Ports, Ctl(q) = c PROVE th[q].pc = "off" /\ ~Active(q) /\ ~th[q].ok
  BY <1>2 DEF EnumInv, HubsRight, Active
<1> QED
  BY <1>1, <1>2

LEMMA ConfigureKeeps == ASSUME EnumInv, NEW c \in Cntls, Configure(c) PROVE EnumInv'
<1> DEFINE k(s) == [cntl[c] EXCEPT !.st = s]
<1>1. /\ cntl[c].st = "off" /\ UNCHANGED <<machine, hubs, th, hid, lost>>
      /\ \/ ConfigureFails(c) /\ (pending' = pending \/ (pending' = pending - 1 /\ machine.kind[c] = "ehci"))
         \/ Runs(c) /\ dev' = dev /\ pending' = pending /\ machine.kind[c] # "ehci"
         \/ Runs(c) /\ Routed(c) /\ pending' = pending - 1 /\ machine.kind[c] = "ehci"
  BY DEF Configure, ConfigureUhci, ConfigureOhci, ConfigureXhci, ConfigureEhci, Starts, Routed, At
<1>2. /\ cntl[c].freed = {} /\ KRight(cntl[c]) /\ cntl[c] \in CntlSet
      /\ \A q \in Ports : Ctl(q) = c => th[q].pc = "off" /\ ~Active(q) /\ ~th[q].ok
  BY <1>1, Waiting
<1>3. faults' \in Nat
  BY <1>1, FaultTypes DEF ConfigureFails, Runs
<1>4. ASSUME NEW s \in {"ports", "freed"}
      PROVE  /\ k(s) \in CntlSet /\ KRight(k(s)) /\ FreeIds(k(s)) = FreeIds(cntl[c]) /\ k(s).st = s
             /\ k(s).freed = {} /\ k(s).lock = cntl[c].lock /\ k(s).maxaddr = cntl[c].maxaddr /\ k(s).types = cntl[c].types
  BY <1>2 DEF CntlSet, KRight, FreeIds, Made
<1> HIDE DEF k
<1>5. ASSUME NEW s \in {"ports", "freed"} PROVE ReleasesRight(c, k(s))
  BY <1>4 DEF ReleasesRight
<1>6. CASE ConfigureFails(c) /\ (pending' = pending \/ (pending' = pending - 1 /\ machine.kind[c] = "ehci"))
  <2>1. cntl' = [cntl EXCEPT ![c] = k("freed")] /\ dev' = dev
    BY <1>6, <1>2 DEF ConfigureFails, k
  <2>2. CntlStep(c, k("freed"))
    BY <1>1, <1>2, <1>3, <1>4, <1>6, <2>1 DEF CntlStep
  <2>3. k("freed").st = "freed" /\ ReleasesRight(c, k("freed"))
    BY <1>4, <1>5
  <2>4. dev' \in [DOMAIN machine.class -> DeviceSet]
    BY <2>1 DEF EnumInv, EnumTypeOK
  <2> QED
    BY <2>1, <2>2, <2>3, <2>4, CntlMost, CntlDevices, CntlRelease DEF EnumInv
<1>7. CASE Runs(c) /\ dev' = dev /\ pending' = pending /\ machine.kind[c] # "ehci"
  <2>1. cntl' = [cntl EXCEPT ![c] = k("ports")]
    BY <1>7, <1>2 DEF Runs, k
  <2>2. CntlStep(c, k("ports"))
    BY <1>1, <1>2, <1>3, <1>4, <1>7, <2>1 DEF CntlStep
  <2>3. ReleasesRight(c, k("ports"))
    BY <1>5
  <2>4. dev' \in [DOMAIN machine.class -> DeviceSet]
    BY <1>7 DEF EnumInv, EnumTypeOK
  <2> QED
    BY <1>7, <2>2, <2>3, <2>4, CntlMost, CntlDevices, CntlRelease DEF EnumInv
<1>8. CASE Runs(c) /\ Routed(c) /\ pending' = pending - 1 /\ machine.kind[c] = "ehci"
  <2>1. cntl' = [cntl EXCEPT ![c] = k("ports")]
    BY <1>8, <1>2 DEF Runs, k
  <2>2. CntlStep(c, k("ports"))
    BY <1>1, <1>2, <1>3, <1>4, <1>8, <2>1 DEF CntlStep
  <2>3. ReleasesRight(c, k("ports"))
    BY <1>5
  <2> QED
    BY <1>1, <1>8, <2>2, <2>3, CntlMost, RoutedDevices, CntlRelease DEF EnumInv
<1> QED
  BY <1>1, <1>6, <1>7, <1>8

LEMMA UnlinkKeeps == ASSUME EnumInv, NEW c \in Cntls, Unlink(c) PROVE EnumInv'
<1> DEFINE s == IF machine.kind[c] = "ohci" THEN cntl[c].sched ELSE cntl[c].sched \ Unlinked(c)
           t == cntl[c].sched \intersect Unlinked(c)
           k == [cntl[c] EXCEPT !.st = "tick", !.sched = s, !.stale = t]
<1>1. /\ cntl[c].st = "enum" /\ hubs[c].threads = 0 /\ cntl' = [cntl EXCEPT ![c] = k]
      /\ UNCHANGED <<machine, hubs, th, dev, pending, hid, lost, faults>>
      /\ cntl[c] \in CntlSet /\ cntl[c].freed = {} /\ KRight(cntl[c])
  <2>1. cntl[c].st = "enum" /\ hubs[c].threads = 0 /\ UNCHANGED <<machine, hubs, th, dev, pending, hid, lost, faults>>
    BY DEF Unlink
  <2>2. cntl' = [cntl EXCEPT ![c] = k]
    BY DEF Unlink
  <2>3. cntl[c] \in CntlSet /\ KRight(cntl[c])
    BY DEF EnumInv, EnumTypeOK, PipesRight
  <2>4. cntl[c].freed = {}
    BY <2>1 DEF EnumInv, ReleaseRight
  <2> QED
    BY <2>1, <2>2, <2>3, <2>4
<1>2. s \subseteq cntl[c].sched /\ t \subseteq cntl[c].sched /\ s \in SUBSET Nat /\ t \in SUBSET Nat
      /\ (machine.kind[c] # "ohci" => Freeable(c) \intersect s = {})
  BY <1>1 DEF CntlSet, Unlinked
<1> HIDE DEF s, t
<1>3. /\ k \in CntlSet /\ k.st = "tick" /\ k.sched = s /\ k.free = cntl[c].free /\ k.types = cntl[c].types
      /\ k.lock = cntl[c].lock /\ k.maxaddr = cntl[c].maxaddr /\ k.freed = {}
  BY <1>1, <1>2 DEF CntlSet
<1>4. KRight(k) /\ FreeIds(k) = FreeIds(cntl[c])
  BY <1>1, <1>2, <1>3 DEF KRight, FreeIds, Made
<1> HIDE DEF k
<1>5. ASSUME NEW q \in Ports, Ctl(q) = c PROVE ~Active(q)
  BY <1>1, <1>5, NoneActive
<1>6. CntlStep(c, k)
  BY <1>1, <1>3, <1>4, <1>5 DEF CntlStep, EnumInv, EnumTypeOK
<1>7. Freeable(c)' = Freeable(c)
  <2>1. cntl'[c] = k /\ machine' = machine
    BY <1>6, CntlApplied
  <2>2. \A type : FreeOf(k, type) = FreeOf(cntl[c], type)
    BY <1>3 DEF FreeOf
  <2> QED
    BY <1>3, <2>1, <2>2 DEF Freeable, FreeOf
<1>8. ReleasesRight(c, k)
  BY <1>2, <1>3, <1>7 DEF ReleasesRight
<1>9. dev' \in [DOMAIN machine.class -> DeviceSet]
  BY <1>1 DEF EnumInv, EnumTypeOK
<1> QED
  BY <1>1, <1>3, <1>6, <1>8, <1>9, CntlMost, CntlDevices, CntlRelease DEF EnumInv

LEMMA ReleaseKeeps == ASSUME EnumInv, NEW c \in Cntls, Release(c) PROVE EnumInv'
<1>1. PICK tick \in BOOLEAN :
        /\ IF tick THEN NoFault ELSE WaitUhci(c) \/ WaitOhci(c) \/ WaitEhci(c)
        /\ cntl' = [cntl EXCEPT ![c] =
              [cntl[c] EXCEPT !.st = IF hubs[c].devcount # 0 THEN "run" ELSE "freed",
                        !.stale = IF tick THEN {} ELSE @, !.stuck = ~tick,
                        !.sched = IF machine.kind[c] = "ohci" THEN @ \ Unlinked(c) ELSE @,
                        !.freed = Freeable(c),
                        !.free = IF machine.kind[c] = "xhci" THEN @ ELSE <<>>]]
  BY DEF Release
<1> DEFINE s == IF machine.kind[c] = "ohci" THEN cntl[c].sched \ Unlinked(c) ELSE cntl[c].sched
           t == IF tick THEN {} ELSE cntl[c].stale
           f == IF machine.kind[c] = "xhci" THEN cntl[c].free ELSE <<>>
           x == IF hubs[c].devcount # 0 THEN "run" ELSE "freed"
           k == [cntl[c] EXCEPT !.st = x, !.stale = t, !.stuck = ~tick, !.sched = s, !.freed = Freeable(c), !.free = f]
<1>2. /\ cntl[c].st = "tick" /\ cntl' = [cntl EXCEPT ![c] = k]
      /\ UNCHANGED <<machine, hubs, th, dev, pending, hid, lost>>
      /\ cntl[c] \in CntlSet /\ KRight(cntl[c])
  <2>1. cntl' = [cntl EXCEPT ![c] = k]
    BY <1>1
  <2>2. cntl[c].st = "tick" /\ UNCHANGED <<machine, hubs, th, dev, pending, hid, lost>>
    BY DEF Release
  <2>3. cntl[c] \in CntlSet /\ KRight(cntl[c])
    BY DEF EnumInv, EnumTypeOK, PipesRight
  <2> QED
    BY <2>1, <2>2, <2>3
<1>3. faults' \in Nat
  BY <1>1, FaultTypes DEF WaitUhci, WaitOhci, WaitEhci
<1>4. Freeable(c) \subseteq FreeIds(cntl[c]) /\ FreeIds(cntl[c]) \subseteq Nat \ {0}
  BY <1>2, LensOf DEF Freeable, FreeOf, FreeIds
<1>5. /\ s \subseteq cntl[c].sched /\ s \in SUBSET Nat /\ t \in SUBSET Nat /\ (tick => t = {})
      /\ f \in Seq(Nat \ {0}) /\ (f = cntl[c].free \/ f = <<>>)
      /\ x \in {"run", "freed"} /\ (hubs[c].devcount # 0 => x = "run")
      /\ s \intersect Freeable(c) = {}
  BY <1>2 DEF CntlSet, Unlinked, EnumInv, ReleaseRight
<1> HIDE DEF s, t, f, x
<1>6. /\ k \in CntlSet /\ k.st = x /\ k.sched = s /\ k.free = f /\ k.types = cntl[c].types /\ k.stuck = ~tick
      /\ k.lock = cntl[c].lock /\ k.maxaddr = cntl[c].maxaddr /\ k.freed = Freeable(c) /\ k.stale = t
  BY <1>2, <1>4, <1>5 DEF CntlSet
<1>7. KRight(k) /\ FreeIds(k) \subseteq FreeIds(cntl[c])
  BY <1>2, <1>5, <1>6 DEF KRight, FreeIds, Made
<1> HIDE DEF k
<1>8. ASSUME NEW q \in Ports, Ctl(q) = c
      PROVE  ~Active(q) /\ (th[q].ok => x # "freed") /\ PipesOf(th[q]) \intersect Freeable(c) = {}
  <2>1. ~Active(q)
    BY <1>2, <1>8 DEF EnumInv, HubsRight
  <2>2. th[q].ok => hubs[c].devcount > 0
    BY <1>2, <1>8, SomeCounted
  <2>3. PipesOf(th[q]) \intersect FreeIds(cntl[c]) = {}
    BY <1>8 DEF EnumInv, PipesRight, Apart
  <2> QED
    BY <1>4, <1>5, <2>1, <2>2, <2>3
<1>9. CntlStep(c, k)
  BY <1>2, <1>3, <1>5, <1>6, <1>7, <1>8 DEF CntlStep
<1>10. ReleasesRight(c, k)
  BY <1>4, <1>5, <1>6, <1>8 DEF ReleasesRight
<1>11. dev' \in [DOMAIN machine.class -> DeviceSet]
  BY <1>2 DEF EnumInv, EnumTypeOK
<1> QED
  BY <1>2, <1>5, <1>6, <1>9, <1>10, <1>11, CntlMost, CntlDevices, CntlRelease DEF EnumInv

\* What usb_enumerate leaves behind, whatever structs it could not allocate.
Spread(h, t, new) ==
    /\ new \in SUBSET PortsOf(h)
    /\ th' = [q \in Ports |-> IF q \in new THEN [t[q] EXCEPT !.pc = "detect"] ELSE t[q]]
    /\ th' \in [Ports -> ThreadSet]
    /\ hubs' \in [Hubs -> [threads : Nat, devcount : Nat]]
    /\ \A g \in Hubs : /\ hubs'[g].devcount = hubs[g].devcount
                       /\ hubs'[g].threads = IF g = h THEN Cardinality(PortsOf(h)) ELSE hubs[g].threads
    /\ lost' \in BOOLEAN /\ faults' \in Nat
LEMMA LaunchSpread ==
    ASSUME EnumInv, NEW h \in Hubs, NEW t \in [Ports -> ThreadSet], Launch(h, t)
    PROVE  \E new : Spread(h, t, new)
<1>1. PICK fail \in SUBSET PortsOf(h) :
        /\ faults' = faults + Cardinality(fail)
        /\ lost' = (lost \/ fail # {})
        /\ th' = [p \in Ports |-> IF p \in PortsOf(h) \ fail THEN [t[p] EXCEPT !.pc = "detect"] ELSE t[p]]
        /\ hubs' = [hubs EXCEPT ![h].threads = Cardinality(PortsOf(h))]
  BY DEF Launch
<1>2. Cardinality(fail) \in Nat /\ Cardinality(PortsOf(h)) \in Nat
  <2>1. IsFiniteSet(Ports) /\ PortsOf(h) \subseteq Ports
    BY Wiring DEF WiresRight, EnumInv, EnumTypeOK, PortsOf
  <2> QED
    BY <2>1, FS_Subset, FS_CardinalityType
<1>3. faults' \in Nat /\ lost' \in BOOLEAN
  BY <1>1, <1>2 DEF EnumInv, EnumTypeOK
<1>4. th' \in [Ports -> ThreadSet]
  <2>1. ASSUME NEW q \in Ports PROVE [t[q] EXCEPT !.pc = "detect"] \in ThreadSet
    <3>1. t[q] \in ThreadSet
      OBVIOUS
    <3> QED
      BY <3>1 DEF ThreadSet
  <2> QED
    BY <1>1, <2>1
<1>5. hubs \in [Hubs -> [threads : Nat, devcount : Nat]]
  BY DEF EnumInv, EnumTypeOK
<1>6. ASSUME NEW g \in Hubs
      PROVE  /\ hubs'[g] = IF g = h THEN [hubs[g] EXCEPT !.threads = Cardinality(PortsOf(h))] ELSE hubs[g]
             /\ hubs'[g] \in [threads : Nat, devcount : Nat]
             /\ hubs'[g].devcount = hubs[g].devcount
             /\ hubs'[g].threads = IF g = h THEN Cardinality(PortsOf(h)) ELSE hubs[g].threads
  BY <1>1, <1>2, <1>5
<1>7. hubs' \in [Hubs -> [threads : Nat, devcount : Nat]]
  BY <1>1, <1>5, <1>6
<1>8. Spread(h, t, PortsOf(h) \ fail)
  BY <1>1, <1>3, <1>4, <1>6, <1>7 DEF Spread
<1> QED
  BY <1>8

LEMMA CheckKeeps == ASSUME EnumInv, NEW c \in Cntls, CheckPorts(c) PROVE EnumInv'
<1>1. /\ cntl[c].st = "ports" /\ (machine.kind[c] \in {"uhci", "ohci"} => pending = 0)
      /\ cntl' = [cntl EXCEPT ![c].st = "enum"] /\ Launch(c, th)
      /\ UNCHANGED <<machine, dev, pending, hid>>
      /\ th \in [Ports -> ThreadSet] /\ cntl \in [Cntls -> CntlSet] /\ c \in Hubs
  BY DEF CheckPorts, AwaitsEhci, EnumInv, EnumTypeOK, Hubs
<1>2. PICK new : Spread(c, th, new)
  BY <1>1, LaunchSpread
<1>3. WiresRight
  BY Wiring DEF EnumInv, EnumTypeOK
<1>4. ASSUME NEW q \in PortsOf(c) PROVE q \in Ports /\ Ctl(q) = c /\ th[q].pc = "off"
  <2>1. q \in Ports /\ Ctl(q) = c
    BY <1>3 DEF PortsOf, WiresRight, OnHub, Up
  <2> QED
    BY <1>1, <2>1, Waiting
<1>5. /\ \A d \in Cntls : d # c => cntl'[d] = cntl[d]
      /\ cntl'[c].st = "enum" /\ SameBooks(cntl[c], cntl'[c]) /\ cntl' \in [Cntls -> CntlSet]
  <2>1. cntl'[c] = [cntl[c] EXCEPT !.st = "enum"] /\ cntl[c] \in CntlSet
    BY <1>1
  <2>2. cntl'[c].st = "enum" /\ SameBooks(cntl[c], cntl'[c]) /\ cntl'[c] \in CntlSet
    BY <2>1 DEF SameBooks, CntlSet
  <2> QED
    BY <1>1, <2>2
<1>6. ASSUME NEW q \in Ports
      PROVE  /\ th'[q].pipe = th[q].pipe /\ th'[q].held = th[q].held /\ th'[q].ok = th[q].ok
             /\ q \in new => th[q].pc = "off" /\ th'[q].pc = "detect"
             /\ q # c
             /\ q \notin new => th'[q].pc = th[q].pc
  <2>1. th'[q] = IF q \in new THEN [th[q] EXCEPT !.pc = "detect"] ELSE th[q]
    BY <1>2 DEF Spread
  <2>2. th[q] \in ThreadSet /\ q # c /\ (q \in new => q \in PortsOf(c))
    BY <1>1, <1>2, <1>3 DEF WiresRight, Spread
  <2> QED
    BY <1>4, <2>1, <2>2 DEF ThreadSet
<1>7. Launched(c, new, c)
  BY <1>1, <1>2, <1>4, <1>5, <1>6 DEF Launched, Spread
<1> QED
  BY <1>7, LaunchKeeps

LEMMA HubStarts ==
    ASSUME EnumInv, NEW p \in Ports, th[p].pc = "hub", Launch(p, [th EXCEPT ![p].pc = "wait"]),
           UNCHANGED <<cntl, dev, machine, pending, hid>>
    PROVE  EnumInv'
<1> DEFINE t == [th EXCEPT ![p].pc = "wait"]
<1>1. /\ th \in [Ports -> ThreadSet] /\ cntl \in [Cntls -> CntlSet] /\ p \in Hubs
      /\ machine \in Machines /\ th[p] \in ThreadSet
  BY DEF EnumInv, EnumTypeOK, Hubs
<1>2. t \in [Ports -> ThreadSet] /\ t[p] = [th[p] EXCEPT !.pc = "wait"] /\ \A q \in Ports : q # p => t[q] = th[q]
  <2>1. [th[p] EXCEPT !.pc = "wait"] \in ThreadSet
    BY <1>1 DEF ThreadSet, After
  <2> QED
    BY <1>1, <2>1
<1>3. Launch(p, t)
  OBVIOUS
<1> HIDE DEF t
<1>4. PICK new : Spread(p, t, new)
  BY <1>1, <1>2, <1>3, LaunchSpread
<1>5. WiresRight /\ Ctl(p) \in Cntls
  BY <1>1, Wiring DEF WiresRight
<1>6. Up(p) # p
  <2>1. \E q \in {p} : Up(q) \notin {p}
    BY <1>1, Tree
  <2> QED
    BY <2>1
<1>7. ASSUME NEW q \in PortsOf(p) PROVE q \in Ports /\ q # p /\ Ctl(q) = Ctl(p) /\ th[q].pc = "off"
  <2>1. q \in Ports /\ Up(q) = p /\ OnHub(q)
    BY DEF PortsOf, Up, OnHub
  <2>2. Ctl(q) = Ctl(p) /\ q # p
    BY <1>5, <1>6, <2>1 DEF WiresRight
  <2>3. th[q].pc = "off"
    BY <2>1 DEF EnumInv, HubsRight
  <2> QED
    BY <2>1, <2>2, <2>3
<1>8. ASSUME NEW q \in Ports
      PROVE  /\ th'[q].pipe = th[q].pipe /\ th'[q].held = th[q].held /\ th'[q].ok = th[q].ok
             /\ q \in new => th[q].pc = "off" /\ th'[q].pc = "detect"
             /\ q = p => th[q].pc = "hub" /\ th'[q].pc = "wait"
             /\ q \notin new /\ q # p => th'[q].pc = th[q].pc
  <2>1. th'[q] = IF q \in new THEN [t[q] EXCEPT !.pc = "detect"] ELSE t[q]
    BY <1>4 DEF Spread
  <2>2. th[q] \in ThreadSet /\ (q \in new => q \in PortsOf(p))
    BY <1>1, <1>4 DEF Spread
  <2>3. CASE q \in new
    <3>1. t[q] = th[q] /\ q # p /\ th[q].pc = "off"
      BY <1>2, <1>7, <2>2, <2>3
    <3> QED
      BY <2>1, <2>2, <2>3, <3>1 DEF ThreadSet
  <2>4. CASE q \notin new /\ q = p
    BY <1>2, <2>1, <2>2, <2>4 DEF ThreadSet
  <2>5. CASE q \notin new /\ q # p
    BY <1>2, <2>1, <2>5
  <2> QED
    BY <2>3, <2>4, <2>5
<1>9. cntl' = cntl /\ cntl[Ctl(p)].st = "enum"
  <2>1. Active(p)
    BY DEF Active
  <2> QED
    BY <2>1 DEF EnumInv, HubsRight
<1>10. Launched(p, new, Ctl(p))
  BY <1>1, <1>4, <1>5, <1>7, <1>8, <1>9 DEF Launched, Spread, SameBooks
<1> QED
  BY <1>10, LaunchKeeps

-----------------------------------------------------------------------------
(***************************************************************************)
(* The ways a step of the thread of a port leaves it: at its end without   *)
(* a device, on its way, or with a driver that is ready.                   *)
(***************************************************************************)
LEMMA PortFacts ==
    ASSUME EnumInv, NEW p \in Ports
    PROVE  /\ th \in [Ports -> ThreadSet] /\ th[p] \in ThreadSet
           /\ cntl \in [Cntls -> CntlSet] /\ Ctl(p) \in Cntls /\ cntl[Ctl(p)] \in CntlSet
           /\ dev \in [DOMAIN machine.class -> DeviceSet] /\ At(p) \in DOMAIN machine.class /\ dev[At(p)] \in DeviceSet
           /\ hubs \in [Hubs -> [threads : Nat, devcount : Nat]] /\ Up(p) \in Hubs
           /\ WiresRight /\ faults \in Nat /\ lost \in BOOLEAN /\ DOMAIN hid = HidKinds
           /\ Whole(cntl[Ctl(p)], PipesOf(th[p]))
           /\ Active(p) => ~th[p].ok /\ th[p].held = {} /\ PipesOf(th[p]) = {th[p].pipe} \ {0}
           /\ th[p].pc \in {"detect", "lock", "addr"} => th[p].pipe = 0 /\ PipesOf(th[p]) = {}
<1>1. WiresRight
  BY Wiring DEF EnumInv, EnumTypeOK
<1>2. /\ th \in [Ports -> ThreadSet] /\ th[p] \in ThreadSet
      /\ cntl \in [Cntls -> CntlSet] /\ Ctl(p) \in Cntls /\ cntl[Ctl(p)] \in CntlSet
      /\ dev \in [DOMAIN machine.class -> DeviceSet] /\ At(p) \in DOMAIN machine.class /\ dev[At(p)] \in DeviceSet
      /\ hubs \in [Hubs -> [threads : Nat, devcount : Nat]] /\ Up(p) \in Hubs
      /\ faults \in Nat /\ lost \in BOOLEAN /\ DOMAIN hid = HidKinds
  BY <1>1 DEF EnumInv, EnumTypeOK, WiresRight
<1>3. Whole(cntl[Ctl(p)], PipesOf(th[p]))
  BY <1>2 DEF Whole, EnumInv, PipesRight
<1>4. Active(p) => ~th[p].ok /\ th[p].held = {}
  BY DEF Active, EnumInv, HubsRight, PipesRight
<1>5. th[p].pc \in {"detect", "lock", "addr"} => th[p].pipe = 0 /\ th[p].held = {}
  BY DEF EnumInv, PipesRight
<1> QED
  BY <1>1, <1>2, <1>3, <1>4, <1>5 DEF PipesOf

\* threads-- and devcount++ are one change of the hub.
LEMMA DoneHubs ==
    ASSUME EnumInv, NEW p \in Ports, NEW k, NEW n, Done(p, k, n)
    PROVE  /\ cntl' = [cntl EXCEPT ![Ctl(p)] = k]
           /\ hubs' = [hubs EXCEPT ![Up(p)] = [threads |-> @.threads - 1, devcount |-> @.devcount + n]]
<1>1. /\ cntl' = [cntl EXCEPT ![Ctl(p)] = k]
      /\ hubs' = [hubs EXCEPT ![Up(p)].threads = @ - 1, ![Up(p)].devcount = @ + n]
  BY DEF Done, Ctl, Up
<1>2. hubs \in [Hubs -> [threads : Nat, devcount : Nat]] /\ Up(p) \in Hubs
  BY PortFacts
<1> DEFINE f == [hubs EXCEPT ![Up(p)] = [threads |-> @.threads - 1, devcount |-> @.devcount + n]]
<1>3. ASSUME NEW g \in Hubs PROVE hubs'[g] = f[g]
  <2>1. CASE g = Up(p)
    <3>1. hubs'[g] = [[hubs[g] EXCEPT !.threads = @ - 1] EXCEPT !.devcount = @ + n]
      BY <1>1, <1>2, <2>1
    <3>2. hubs[g] = [threads |-> hubs[g].threads, devcount |-> hubs[g].devcount]
      BY <1>2
    <3>3. f[g] = [threads |-> hubs[g].threads - 1, devcount |-> hubs[g].devcount + n]
      BY <1>2, <2>1
    <3> QED
      BY <3>1, <3>2, <3>3
  <2>2. CASE g # Up(p)
    BY <1>1, <1>2, <2>2
  <2> QED
    BY <2>1, <2>2
<1>4. hubs' = [g \in Hubs |-> hubs'[g]] /\ f = [g \in Hubs |-> f[g]]
  BY <1>1, <1>2
<1> QED
  BY <1>1, <1>3, <1>4

Ending(p, isReady) == [pc |-> "end", pipe |-> 0, held |-> th[p].held, ok |-> isReady]
LEMMA EndedAs ==
    ASSUME EnumInv, NEW p \in Ports, NEW isReady \in BOOLEAN, Ended(p, isReady)
    PROVE  th' = [th EXCEPT ![p] = Ending(p, isReady)] /\ Ending(p, isReady) \in ThreadSet
<1>1. th \in [Ports -> ThreadSet] /\ th[p] \in ThreadSet
  BY PortFacts
<1>2. th' = [th EXCEPT ![p].pc = "end", ![p].pipe = 0, ![p].ok = isReady]
  BY DEF Ended
<1> DEFINE f == [th EXCEPT ![p] = Ending(p, isReady)]
<1>3. ASSUME NEW q \in Ports PROVE th'[q] = f[q]
  <2>1. CASE q = p
    <3>1. th'[q] = [[[th[q] EXCEPT !.pc = "end"] EXCEPT !.pipe = 0] EXCEPT !.ok = isReady]
      BY <1>1, <1>2, <2>1
    <3>2. f[q] = Ending(p, isReady)
      BY <1>1, <2>1
    <3> QED
      BY <1>1, <2>1, <3>1, <3>2 DEF ThreadSet, Ending
  <2>2. CASE q # p
    BY <1>1, <1>2, <2>2
  <2> QED
    BY <2>1, <2>2
<1>4. th' = [q \in Ports |-> th'[q]] /\ f = [q \in Ports |-> f[q]]
  BY <1>1, <1>2
<1> QED
  BY <1>1, <1>3, <1>4 DEF Ending, ThreadSet

\* The controller k has the pipes and the state of j.
Like(k, j) ==
    /\ k \in CntlSet
    /\ k.free = j.free /\ k.types = j.types /\ k.sched = j.sched
    /\ k.st = j.st /\ k.freed = j.freed /\ k.stale = j.stale /\ k.stuck = j.stuck
LEMMA TakenPipes ==
    ASSUME EnumInv, NEW p \in Ports, NEW r, NEW j, NEW k, NEW kept,
           Takes(cntl[Ctl(p)], PipesOf(th[p]), j, kept), Like(k, j), PipesOf(r) \subseteq kept,
           r.pc # "end" => r.held = {}, r.pc \in {"detect", "lock", "addr", "end"} => r.pipe = 0
    PROVE  PipeEffect(p, r, k) /\ SameState(cntl[Ctl(p)], k) /\ k \in CntlSet
<1>1. FreeIds(k) = FreeIds(j) /\ Made(k) = Made(j)
  BY DEF Like, FreeIds, Made
<1>2. KRight(k)
  BY <1>1 DEF Takes, Whole, KRight, Like
<1>3. Apart(k, PipesOf(r))
  BY <1>1 DEF Takes, Whole, Apart
<1>4. Len(cntl[Ctl(p)].types) <= Len(k.types)
  BY DEF Takes, Like
<1>5. PipesOf(r) \union FreeIds(k) \subseteq
          PipesOf(th[p]) \union FreeIds(cntl[Ctl(p)]) \union (Made(k) \ Made(cntl[Ctl(p)]))
  BY <1>1 DEF Takes
<1>6. SameState(cntl[Ctl(p)], k) /\ k \in CntlSet
  BY DEF SameState, Like, Takes
<1> QED
  BY <1>2, <1>3, <1>4, <1>5, <1>6 DEF PipeEffect

\* The device of p falls silent, and nobody else's is touched.
Fades(p) ==
    /\ dev' \in [DOMAIN machine.class -> DeviceSet]
    /\ \A d \in DOMAIN machine.class : d # At(p) => SameDevice(d)
    /\ \A q \in Ports : q # p /\ Speaks(q) => dev'[At(q)].addr = dev[At(q)].addr
    /\ Seen(p) \/ dev'[At(p)] = dev[At(p)]
    /\ dev'[At(p)].seen = dev[At(p)].seen \/ (~dev'[At(p)].on /\ dev'[At(p)].seen # SeenAs(p))
    /\ Silent(p) \/ (dev'[At(p)] = dev[At(p)] /\ th[p].pc \in {"detect", "lock"})
SameHid == DOMAIN hid' = HidKinds /\ \A n \in HidKinds : hid'[n] = hid[n] \/ hid'[n] = NoPipe

LEMMA Fails ==
    ASSUME EnumInv, NEW p \in Ports, Active(p), NEW j, NEW k,
           Takes(cntl[Ctl(p)], PipesOf(th[p]), j, {}), Like(k, j),
           k.maxaddr = cntl[Ctl(p)].maxaddr, k.lock = cntl[Ctl(p)].lock \/ Setting(p),
           Done(p, k, 0), Ended(p, FALSE), Fades(p), SameHid,
           UNCHANGED <<machine, pending, lost>>, faults' \in Nat,
           th[p].pc = "wait" => hubs[p].threads = 0 /\ hubs[p].devcount = 0
    PROVE  EnumInv'
<1> DEFINE r == Ending(p, FALSE)
<1>1. th' = [th EXCEPT ![p] = r] /\ r \in ThreadSet
  BY EndedAs
<1>2. r.pc = "end" /\ r.pipe = 0 /\ r.held = {} /\ r.ok = FALSE
  BY PortFacts DEF Ending
<1> HIDE DEF r
<1>3. PipesOf(r) = {}
  BY <1>2 DEF PipesOf
<1>4. PipeEffect(p, r, k) /\ SameState(cntl[Ctl(p)], k) /\ k \in CntlSet
  BY <1>2, <1>3, TakenPipes
<1>5. cntl' = [cntl EXCEPT ![Ctl(p)] = k]
      /\ hubs' = [hubs EXCEPT ![Up(p)] = [threads |-> @.threads - 1, devcount |-> @.devcount + 0]]
  BY DoneHubs
<1>6. HubEffect(p, r)
  <2>1. \E n \in Nat :
          /\ hubs' = [hubs EXCEPT ![Up(p)] = [threads |-> @.threads - 1, devcount |-> @.devcount + n]]
          /\ r.ok => n > 0
    <3>1. 0 \in Nat /\ (r.ok => 0 > 0)
      BY <1>2
    <3> QED
      BY <3>1, <1>5
  <2> QED
    BY <1>2, <2>1 DEF HubEffect
<1>7. LockEffect(p, r, k)
  BY <1>2 DEF LockEffect
<1>8. DevEffect(p, r)
  BY <1>2 DEF DevEffect, Fades, After
<1>9. AddrEffect(p, r, k)
  BY DEF AddrEffect, Fades
<1>10. HidEffect(p, r)
  BY DEF HidEffect, SameHid
<1>11. PortStep(p, r, k)
  BY <1>1, <1>4, <1>5, <1>6, <1>7, <1>8, <1>9, <1>10, PortFacts DEF PortStep
<1> QED
  BY <1>11, StepKeeps

LEMMA GoesOn ==
    ASSUME EnumInv, NEW p \in Ports, Active(p), th[p].pc # "wait", NEW r \in ThreadSet, NEW j, NEW k, NEW kept,
           r.pc \notin {"off", "detect", "wait", "end"}, ~r.ok, r.held = {}, r.pc \in {"lock", "addr"} => r.pipe = 0,
           th' = [th EXCEPT ![p] = r], cntl' = [cntl EXCEPT ![Ctl(p)] = k], hubs' = hubs, hid' = hid,
           Takes(cntl[Ctl(p)], PipesOf(th[p]), j, kept), Like(k, j), PipesOf(r) \subseteq kept,
           LockEffect(p, r, k), DevEffect(p, r), AddrEffect(p, r, k),
           UNCHANGED <<machine, pending, lost>>, faults' \in Nat
    PROVE  EnumInv'
<1>1. PipeEffect(p, r, k) /\ SameState(cntl[Ctl(p)], k) /\ k \in CntlSet
  BY TakenPipes
<1>2. HubEffect(p, r)
  BY DEF HubEffect
<1>3. HidEffect(p, r)
  BY PortFacts DEF HidEffect
<1>4. PortStep(p, r, k)
  BY <1>1, <1>2, <1>3, PortFacts DEF PortStep
<1> QED
  BY <1>4, StepKeeps

LEMMA Works ==
    ASSUME EnumInv, NEW p \in Ports, th[p].pc \in After \ {"addr", "send", "settle"}, NEW r \in ThreadSet, NEW j, NEW kept,
           r.pc = "end", r.pipe = 0, r.ok, r.held \subseteq kept,
           th' = [th EXCEPT ![p] = r], Done(p, j, 1), dev' = dev, HidEffect(p, r),
           Takes(cntl[Ctl(p)], PipesOf(th[p]), j, kept),
           UNCHANGED <<machine, pending, lost>>, faults' \in Nat,
           th[p].pc = "wait" => hubs[p].threads = 0
    PROVE  EnumInv'
<1>1. Active(p) /\ ~Setting(p) /\ Busy(p)
  BY DEF Active, Setting, Busy, After
<1>2. PipesOf(r) \subseteq kept /\ Like(j, j) /\ j.lock = cntl[Ctl(p)].lock /\ j.maxaddr = cntl[Ctl(p)].maxaddr
  BY DEF PipesOf, Takes, Whole, Like
<1>3. PipeEffect(p, r, j) /\ SameState(cntl[Ctl(p)], j) /\ j \in CntlSet
  BY <1>2, TakenPipes
<1>4. cntl' = [cntl EXCEPT ![Ctl(p)] = j]
      /\ hubs' = [hubs EXCEPT ![Up(p)] = [threads |-> @.threads - 1, devcount |-> @.devcount + 1]]
  BY DoneHubs
<1>5. HubEffect(p, r)
  <2>1. \E n \in Nat :
          /\ hubs' = [hubs EXCEPT ![Up(p)] = [threads |-> @.threads - 1, devcount |-> @.devcount + n]]
          /\ r.ok => n > 0
    <3>1. 1 \in Nat /\ (r.ok => 1 > 0)
      OBVIOUS
    <3> QED
      BY <3>1, <1>4
  <2> QED
    BY <2>1 DEF HubEffect
<1>6. LockEffect(p, r, j)
  BY <1>2 DEF LockEffect
<1>7. DevEffect(p, r)
  BY <1>1, PortFacts DEF DevEffect, SameDevice, EnumInv, DevicesRight
<1>8. AddrEffect(p, r, j)
  BY <1>1, <1>2 DEF AddrEffect, Setting
<1>9. PortStep(p, r, j)
  BY <1>1, <1>3, <1>4, <1>5, <1>6, <1>7, <1>8, PortFacts DEF PortStep
<1> QED
  BY <1>9, StepKeeps

-----------------------------------------------------------------------------
(***************************************************************************)
(* What the devices do in the steps of a thread.                           *)
(***************************************************************************)
LEMMA BusyFacts ==
    ASSUME EnumInv, NEW p \in Ports, th[p].pc \in After
    PROVE  Active(p) /\ Seen(p) /\ Class(p) # "none" /\ dev[At(p)].on /\ OnBus(p)
<1>1. Active(p) /\ Busy(p)
  BY DEF Active, Busy, After
<1>2. Seen(p) /\ Class(p) # "none" /\ dev[At(p)].on
  BY <1>1 DEF EnumInv, DevicesRight
<1>3. OnHub(p) => Up(p) \in Ports /\ Busy(Up(p))
  BY <1>1 DEF EnumInv, HubsRight, Busy, After, OnHub, Up
<1>4. OnHub(p) => dev[At(Up(p))].on
  BY <1>3 DEF EnumInv, DevicesRight
<1>5. OnBus(p)
  BY <1>2, <1>4 DEF OnBus, Visible, Seen, SeenAs, At, Up
<1> QED
  BY <1>1, <1>2, <1>5

LEMMA VisibleSeen == ASSUME NEW p, Visible(p) PROVE Seen(p) /\ Class(p) # "none"
  BY DEF Visible, Seen, SeenAs, At

LEMMA Elsewhere == ASSUME EnumInv, NEW p \in Ports, Seen(p), NEW q \in Ports, q # p, Speaks(q) PROVE At(q) # At(p)
  BY OneSees, PortFacts DEF Speaks

LEMMA FadesTo ==
    ASSUME EnumInv, NEW p \in Ports, Seen(p), NEW e \in DeviceSet, dev' = [dev EXCEPT ![At(p)] = e],
           ~e.on \/ e.stuck, e.seen = dev[At(p)].seen \/ (~e.on /\ e.seen # SeenAs(p))
    PROVE  Fades(p)
<1>1. dev \in [DOMAIN machine.class -> DeviceSet] /\ At(p) \in DOMAIN machine.class
  BY PortFacts
<1>2. dev' \in [DOMAIN machine.class -> DeviceSet] /\ dev'[At(p)] = e
      /\ \A d \in DOMAIN machine.class : d # At(p) => dev'[d] = dev[d]
  BY <1>1
<1>3. ASSUME NEW q \in Ports, q # p, Speaks(q) PROVE dev'[At(q)] = dev[At(q)]
  BY <1>1, <1>2, <1>3, Elsewhere, PortFacts
<1> QED
  BY <1>2, <1>3 DEF Fades, SameDevice, Silent

LEMMA FadesOff ==
    ASSUME EnumInv, NEW p \in Ports, Seen(p), Disconnected(p, machine.at[p]) \/ DisconnectFails(p, machine.at[p])
    PROVE  Fades(p)
<1>1. dev[At(p)] \in DeviceSet /\ dev \in [DOMAIN machine.class -> DeviceSet] /\ At(p) \in DOMAIN machine.class
  BY PortFacts
<1>2. CASE dev' = [dev EXCEPT ![At(p)] = [NewDevice EXCEPT !.seen = dev[At(p)].seen]]
  <2> DEFINE e == [NewDevice EXCEPT !.seen = dev[At(p)].seen]
  <2>1. e \in DeviceSet /\ ~e.on /\ e.seen = dev[At(p)].seen
    BY <1>1 DEF NewDevice, DeviceSet
  <2>2. dev' = [dev EXCEPT ![At(p)] = e]
    BY <1>2
  <2> HIDE DEF e
  <2> QED
    BY <2>1, <2>2, FadesTo
<1>3. CASE dev' = [dev EXCEPT ![At(p)].stuck = TRUE]
  <2> DEFINE e == [dev[At(p)] EXCEPT !.stuck = TRUE]
  <2>1. e \in DeviceSet /\ e.stuck /\ e.seen = dev[At(p)].seen
    BY <1>1 DEF DeviceSet
  <2>2. dev' = [dev EXCEPT ![At(p)] = e]
    BY <1>1, <1>3
  <2> HIDE DEF e
  <2> QED
    BY <2>1, <2>2, FadesTo
<1> QED
  BY <1>2, <1>3 DEF Disconnected, DisconnectFails, At

LEMMA FadesOver ==
    ASSUME EnumInv, NEW p \in Ports, Seen(p), PortOf(p).hands # {}, HandOver(p)
    PROVE  Fades(p)
<1>1. SeenAs(p) = "ehci"
  BY DEF PortOf, HubPort, UhciPort, OhciPort, EhciPort, XhciPort, SeenAs
<1> DEFINE e == [NewDevice EXCEPT !.seen = "rest"]
<1>2. e \in DeviceSet /\ ~e.on /\ e.seen = "rest"
  BY DEF NewDevice, DeviceSet
<1>3. dev' = [dev EXCEPT ![At(p)] = e]
  BY DEF HandOver, At
<1> HIDE DEF e
<1> QED
  BY <1>1, <1>2, <1>3, FadesTo

LEMMA FadesNot ==
    ASSUME EnumInv, NEW p \in Ports, dev' = dev, th[p].pc \in {"detect", "lock"}
    PROVE  Fades(p)
  BY PortFacts DEF Fades, SameDevice

\* The message that gives an address: who takes it.
Heard(p) == IF Kind(p) = "xhci" THEN {machine.at[p]} ELSE AtZero(machine.cntl[p])
Taken(p) == [d \in DOMAIN dev |-> IF d \in Heard(p) THEN [dev[d] EXCEPT !.addr = cntl[machine.cntl[p]].maxaddr + 1]
                                  ELSE dev[d]]
LEMMA Unheard ==
    ASSUME EnumInv, NEW p \in Ports, th[p].pc = "send", NEW q \in Ports, q # p, Speaks(q)
    PROVE  At(q) \notin Heard(p)
<1>1. Seen(p) /\ Setting(p)
  BY BusyFacts DEF After, Setting
<1>2. At(q) # At(p)
  BY <1>1, Elsewhere
<1>3. CASE Kind(p) = "xhci"
  BY <1>2, <1>3 DEF Heard, At
<1>4. CASE Kind(p) # "xhci"
  <2> SUFFICES ASSUME At(q) \in Heard(p) PROVE FALSE
    OBVIOUS
  <2>1. PICK s \in Ports : At(s) = At(q) /\ Ctl(s) = Ctl(p) /\ OnBus(s) /\ dev[At(s)].addr = 0
    BY <1>4 DEF Heard, AtZero, At, Ctl
  <2>2. Speaks(s)
    BY <2>1, VisibleSeen DEF OnBus, Speaks, At
  <2>3. Setting(s)
    BY <2>1, <2>2 DEF EnumInv, AddressRight, Setting
  <2>4. s = p
    BY <1>1, <2>1, <2>3 DEF EnumInv, LockRight
  <2> QED
    BY <1>2, <2>1, <2>4
<1> QED
  BY <1>3, <1>4

LEMMA OwnHeard ==
    ASSUME EnumInv, NEW p \in Ports, th[p].pc = "send"
    PROVE  At(p) \in Heard(p) \/ dev[At(p)].addr # 0
  BY BusyFacts DEF After, Heard, AtZero, At

LEMMA TakenDevices ==
    ASSUME EnumInv, NEW p \in Ports, th[p].pc = "send"
    PROVE  /\ Taken(p) \in [DOMAIN machine.class -> DeviceSet]
           /\ \A d \in DOMAIN machine.class :
                /\ Taken(p)[d].seen = dev[d].seen /\ Taken(p)[d].on = dev[d].on /\ Taken(p)[d].stuck = dev[d].stuck
                /\ d \notin Heard(p) => Taken(p)[d] = dev[d]
                /\ d \in Heard(p) => Taken(p)[d].addr = cntl[Ctl(p)].maxaddr + 1
           /\ \A q \in Ports : q # p /\ Speaks(q) => Taken(p)[At(q)] = dev[At(q)]
<1>1. dev \in [DOMAIN machine.class -> DeviceSet] /\ cntl[Ctl(p)] \in CntlSet
  BY PortFacts
<1>2. ASSUME NEW d \in DOMAIN machine.class
      PROVE  /\ Taken(p)[d] \in DeviceSet
             /\ Taken(p)[d].seen = dev[d].seen /\ Taken(p)[d].on = dev[d].on /\ Taken(p)[d].stuck = dev[d].stuck
             /\ d \notin Heard(p) => Taken(p)[d] = dev[d]
             /\ d \in Heard(p) => Taken(p)[d].addr = cntl[Ctl(p)].maxaddr + 1
  <2>1. dev[d] \in DeviceSet /\ cntl[Ctl(p)].maxaddr + 1 \in Nat
    BY <1>1 DEF CntlSet
  <2>2. CASE d \in Heard(p)
    <3>1. Taken(p)[d] = [dev[d] EXCEPT !.addr = cntl[Ctl(p)].maxaddr + 1]
      BY <1>1, <2>2 DEF Taken, Ctl
    <3> QED
      BY <2>1, <2>2, <3>1 DEF DeviceSet
  <2>3. CASE d \notin Heard(p)
    <3>1. Taken(p)[d] = dev[d]
      BY <1>1, <2>3 DEF Taken
    <3> QED
      BY <2>1, <2>3, <3>1
  <2> QED
    BY <2>2, <2>3
<1>3. Taken(p) \in [DOMAIN machine.class -> DeviceSet]
  BY <1>1, <1>2 DEF Taken
<1>4. ASSUME NEW q \in Ports, q # p, Speaks(q) PROVE Taken(p)[At(q)] = dev[At(q)]
  BY <1>2, <1>4, Unheard, PortFacts
<1> QED
  BY <1>2, <1>3, <1>4

LEMMA FadesTaken ==
    ASSUME EnumInv, NEW p \in Ports, th[p].pc = "send", dev' = [Taken(p) EXCEPT ![At(p)].stuck = TRUE]
    PROVE  Fades(p)
<1>1. /\ Taken(p) \in [DOMAIN machine.class -> DeviceSet] /\ At(p) \in DOMAIN machine.class /\ Seen(p)
      /\ \A d \in DOMAIN machine.class :
            Taken(p)[d].seen = dev[d].seen /\ Taken(p)[d].on = dev[d].on /\ Taken(p)[d].stuck = dev[d].stuck
      /\ \A q \in Ports : q # p /\ Speaks(q) => Taken(p)[At(q)] = dev[At(q)]
  BY TakenDevices, PortFacts, BusyFacts DEF After
<1>2. Taken(p)[At(p)] \in DeviceSet
  BY <1>1
<1>3. /\ dev'[At(p)] = [Taken(p)[At(p)] EXCEPT !.stuck = TRUE]
      /\ \A d \in DOMAIN machine.class : d # At(p) => dev'[d] = Taken(p)[d]
  BY <1>1
<1>4. dev'[At(p)] \in DeviceSet /\ dev'[At(p)].stuck /\ dev'[At(p)].seen = dev[At(p)].seen
  BY <1>1, <1>2, <1>3 DEF DeviceSet
<1>5. dev' \in [DOMAIN machine.class -> DeviceSet]
  BY <1>1, <1>3, <1>4
<1>6. ASSUME NEW q \in Ports, q # p, Speaks(q) PROVE dev'[At(q)].addr = dev[At(q)].addr
  <2>1. At(q) # At(p) /\ At(q) \in DOMAIN machine.class
    BY <1>1, <1>6, Elsewhere, PortFacts
  <2> QED
    BY <1>1, <1>3, <1>6, <2>1
<1> QED
  BY <1>1, <1>3, <1>4, <1>5, <1>6 DEF Fades, SameDevice, Silent

-----------------------------------------------------------------------------
(***************************************************************************)
(* The steps of the threads.                                               *)
(***************************************************************************)
Going(s, id) == [pc |-> s, pipe |-> id, held |-> {}, ok |-> FALSE]
LEMMA Went ==
    ASSUME EnumInv, NEW p \in Ports, Active(p), NEW s \in {"lock"} \union After, NEW id \in Nat,
           th' = [th EXCEPT ![p].pc = s, ![p].pipe = id] \/ (th' = [th EXCEPT ![p].pc = s] /\ id = th[p].pipe)
    PROVE  th' = [th EXCEPT ![p] = Going(s, id)] /\ Going(s, id) \in ThreadSet
<1>1. th \in [Ports -> ThreadSet] /\ th[p] \in ThreadSet /\ ~th[p].ok /\ th[p].held = {}
  BY PortFacts
<1>2. th[p].ok = FALSE
  BY <1>1 DEF ThreadSet
<1> DEFINE f == [th EXCEPT ![p] = Going(s, id)]
<1>3. ASSUME NEW q \in Ports PROVE th'[q] = f[q]
  <2>1. CASE q = p
    <3>1. th'[q] = [[th[q] EXCEPT !.pc = s] EXCEPT !.pipe = id] \/ (th'[q] = [th[q] EXCEPT !.pc = s] /\ id = th[q].pipe)
      BY <1>1, <2>1
    <3>2. f[q] = Going(s, id)
      BY <1>1, <2>1
    <3> QED
      BY <1>1, <1>2, <2>1, <3>1, <3>2 DEF ThreadSet, Going
  <2>2. CASE q # p
    BY <1>1, <2>2
  <2> QED
    BY <2>1, <2>2
<1>4. th' = [q \in Ports |-> th'[q]] /\ f = [q \in Ports |-> f[q]]
  BY <1>1
<1> QED
  BY <1>1, <1>3, <1>4 DEF Going, ThreadSet

LEMMA WentOn ==
    ASSUME EnumInv, NEW p \in Ports, Active(p), NEW s \in {"lock"} \union After, th' = [th EXCEPT ![p].pc = s]
    PROVE  th' = [th EXCEPT ![p] = Going(s, th[p].pipe)] /\ Going(s, th[p].pipe) \in ThreadSet
<1>1. th[p].pipe \in Nat
  BY PortFacts DEF ThreadSet
<1> QED
  BY <1>1, Went

LEMMA Untouched ==
    ASSUME EnumInv, NEW p \in Ports
    PROVE  /\ Takes(cntl[Ctl(p)], PipesOf(th[p]), cntl[Ctl(p)], PipesOf(th[p]))
           /\ Like(cntl[Ctl(p)], cntl[Ctl(p)])
           /\ cntl = [cntl EXCEPT ![Ctl(p)] = cntl[Ctl(p)]]
  BY PortFacts, TakesNothing DEF Like

LEMMA DetectKeeps == ASSUME EnumInv, NEW p \in Ports, Detect(p) PROVE EnumInv'
<1>1. /\ th[p].pc = "detect" /\ Active(p) /\ UNCHANGED <<machine, pending, hid, lost>>
      /\ PipesOf(th[p]) = {} /\ th[p].pipe = 0 /\ DOMAIN hid = HidKinds
  BY PortFacts DEF Detect, Active
<1>2. /\ Takes(cntl[Ctl(p)], PipesOf(th[p]), cntl[Ctl(p)], {}) /\ Like(cntl[Ctl(p)], cntl[Ctl(p)])
      /\ cntl = [cntl EXCEPT ![Ctl(p)] = cntl[Ctl(p)]]
  BY <1>1, Untouched
<1>3. SameHid
  BY <1>1 DEF SameHid
<1>4. CASE /\ Visible(p) /\ th' = [th EXCEPT ![p].pc = "lock"]
           /\ UNCHANGED <<dev, cntl, hubs, faults>>
  <2> DEFINE r == Going("lock", 0)
  <2>1. th' = [th EXCEPT ![p] = r] /\ r \in ThreadSet
    BY <1>1, <1>4, WentOn
  <2>2. r.pc = "lock" /\ r.pipe = 0 /\ r.held = {} /\ ~r.ok /\ PipesOf(r) = {}
    BY DEF Going, PipesOf
  <2> HIDE DEF r
  <2>3. DevEffect(p, r)
    BY <1>4, <2>2, VisibleSeen, PortFacts DEF DevEffect, SameDevice, After
  <2>4. LockEffect(p, r, cntl[Ctl(p)]) /\ AddrEffect(p, r, cntl[Ctl(p)])
    BY <1>1, <1>4, <2>2 DEF LockEffect, AddrEffect
  <2>5. faults' \in Nat
    BY <1>4, PortFacts
  <2> QED
    BY <1>1, <1>2, <1>4, <2>1, <2>2, <2>3, <2>4, <2>5, GoesOn
<1>5. ASSUME Done(p, cntl[machine.cntl[p]], 0), Ended(p, FALSE), Fades(p), Fault \/ NoFault
      PROVE  EnumInv'
  BY <1>1, <1>2, <1>3, <1>5, Fails, FaultTypes DEF Ctl
<1>6. Visible(p) /\ HandOver(p) /\ "low" \in PortOf(p).hands => Fades(p)
  BY VisibleSeen, FadesOver
<1>7. dev' = dev => Fades(p)
  BY <1>1, FadesNot
<1> QED
  BY <1>4, <1>5, <1>6, <1>7 DEF Detect

LEMMA ResetKeeps == ASSUME EnumInv, NEW p \in Ports, Reset(p) PROVE EnumInv'
<1>1. /\ th[p].pc = "lock" /\ Active(p) /\ UNCHANGED <<machine, pending, hid, lost>> /\ ~cntl[Ctl(p)].lock
      /\ PipesOf(th[p]) = {} /\ th[p].pipe = 0 /\ DOMAIN hid = HidKinds
  BY PortFacts DEF Reset, Active, Ctl
<1>2. /\ Takes(cntl[Ctl(p)], PipesOf(th[p]), cntl[Ctl(p)], {}) /\ Like(cntl[Ctl(p)], cntl[Ctl(p)])
      /\ cntl = [cntl EXCEPT ![Ctl(p)] = cntl[Ctl(p)]] /\ cntl[Ctl(p)] \in CntlSet
  BY <1>1, Untouched, PortFacts
<1>3. SameHid /\ Seen(p) /\ Class(p) # "none"
  BY <1>1 DEF SameHid, EnumInv, DevicesRight
<1>4. dev \in [DOMAIN machine.class -> DeviceSet] /\ At(p) \in DOMAIN machine.class /\ dev[At(p)] \in DeviceSet
  BY PortFacts
<1>5. CASE /\ cntl' = [cntl EXCEPT ![Ctl(p)].lock = TRUE]
           /\ dev' = [dev EXCEPT ![At(p)].on = TRUE, ![At(p)].addr = 0]
           /\ th' = [th EXCEPT ![p].pc = "addr"] /\ UNCHANGED hubs /\ NoFault
  <2> DEFINE r == Going("addr", 0)
             k == [cntl[Ctl(p)] EXCEPT !.lock = TRUE]
             e == [[dev[At(p)] EXCEPT !.on = TRUE] EXCEPT !.addr = 0]
  <2>1. th' = [th EXCEPT ![p] = r] /\ r \in ThreadSet
    <3>1. "addr" \in {"lock"} \union After
      BY DEF After
    <3> QED
      BY <1>1, <1>5, <3>1, WentOn
  <2>2. r.pc = "addr" /\ r.pipe = 0 /\ r.held = {} /\ ~r.ok /\ PipesOf(r) = {}
    BY DEF Going, PipesOf
  <2> HIDE DEF r
  <2>3. /\ cntl' = [cntl EXCEPT ![Ctl(p)] = k] /\ k.lock /\ k.maxaddr = cntl[Ctl(p)].maxaddr
        /\ Like(k, cntl[Ctl(p)])
    BY <1>2, <1>5 DEF Like, CntlSet
  <2> HIDE DEF k
  <2>4. e \in DeviceSet /\ e.on /\ e.addr = 0 /\ e.seen = dev[At(p)].seen
    BY <1>4 DEF DeviceSet
  <2>5. dev' \in [DOMAIN machine.class -> DeviceSet] /\ dev'[At(p)] = e
        /\ \A d \in DOMAIN machine.class : d # At(p) => dev'[d] = dev[d]
    BY <1>4, <1>5, <2>4
  <2> HIDE DEF e
  <2>6. DevEffect(p, r)
    BY <1>3, <2>2, <2>4, <2>5 DEF DevEffect, SameDevice
  <2>7. ASSUME NEW q \in Ports, q # p, Speaks(q) PROVE dev'[At(q)].addr = dev[At(q)].addr
    BY <1>3, <2>5, <2>7, Elsewhere, PortFacts
  <2>8. LockEffect(p, r, k) /\ AddrEffect(p, r, k)
    BY <1>1, <2>2, <2>3, <2>4, <2>5, <2>7 DEF LockEffect, AddrEffect
  <2>9. faults' \in Nat
    BY <1>5, FaultTypes
  <2> QED
    BY <1>1, <1>2, <1>5, <2>1, <2>2, <2>3, <2>6, <2>8, <2>9, GoesOn
<1>6. ASSUME Done(p, cntl[machine.cntl[p]], 0), Ended(p, FALSE), Fades(p), Fault \/ NoFault
      PROVE  EnumInv'
  BY <1>1, <1>2, <1>3, <1>6, Fails, FaultTypes DEF Ctl
<1>7. HandOver(p) /\ Speed(p) \in PortOf(p).hands => Fades(p)
  BY <1>3, FadesOver
<1>8. dev' = dev => Fades(p)
  BY <1>1, FadesNot
<1>9. ASSUME dev' = [dev EXCEPT ![At(p)] = [@ EXCEPT !.on = TRUE, !.stuck = TRUE]] PROVE Fades(p)
  <2> DEFINE e == [dev[At(p)] EXCEPT !.on = TRUE, !.stuck = TRUE]
  <2>1. e \in DeviceSet /\ e.stuck /\ e.seen = dev[At(p)].seen
    BY <1>4 DEF DeviceSet
  <2>2. dev' = [dev EXCEPT ![At(p)] = e]
    BY <1>4, <1>9
  <2> HIDE DEF e
  <2> QED
    BY <1>3, <2>1, <2>2, FadesTo
<1> QED
  BY <1>5, <1>6, <1>7, <1>8, <1>9 DEF Reset, Ctl, At

\* usb_set_address that fails gives back the lock and the pipe.
LEMMA AddressLost ==
    ASSUME EnumInv, NEW p \in Ports, Setting(p), NEW id, id = th[p].pipe, AddressFails(p, id), Fades(p),
           UNCHANGED <<machine, pending, hid, lost>>, Fault \/ NoFault
    PROVE  EnumInv'
<1>1. Active(p) /\ th[p].pc # "wait" /\ PipesOf(th[p]) = {id} \ {0} /\ id \in Nat
      /\ Whole(cntl[Ctl(p)], PipesOf(th[p])) /\ DOMAIN hid = HidKinds
  BY PortFacts DEF Active, Setting, ThreadSet
<1> DEFINE j == AddFree(cntl[Ctl(p)], id)
           k == [j EXCEPT !.lock = FALSE]
<1>2. Takes(cntl[Ctl(p)], PipesOf(th[p]), j, {})
  <2>1. id \in PipesOf(th[p]) \union {0} /\ PipesOf(th[p]) \ {id} = {}
    BY <1>1
  <2> QED
    BY <1>1, <2>1, GivesBack
<1>3. Done(p, k, 0) /\ Ended(p, FALSE)
  BY DEF AddressFails, Ctl
<1> HIDE DEF j
<1>4. Like(k, j) /\ k.maxaddr = cntl[Ctl(p)].maxaddr
  BY <1>2 DEF Takes, Whole, Like, CntlSet
<1> HIDE DEF k
<1>5. SameHid
  BY <1>1 DEF SameHid
<1> QED
  BY <1>1, <1>2, <1>3, <1>4, <1>5, Fails, FaultTypes

\* The pipes that a thread takes and gives back.
LEMMA PortPipe ==
    ASSUME EnumInv, NEW p \in Ports, NEW k, NEW used, Whole(k, used), NEW type \in PipeTypes
    PROVE  LET a == AllocPipe(Kind(p), k, type)
           IN  /\ Takes(k, used, a.k, used \union {a.id}) /\ Whole(a.k, used \union {a.id})
               /\ a.id \notin used /\ a.id \in Nat \ {0} /\ a.k \in CntlSet
<1> DEFINE a == AllocPipe(Kind(p), k, type)
<1>1. Takes(k, used, a.k, used \union {a.id}) /\ a.id \notin used /\ a.id \in Nat \ {0}
  BY TakesPipe
<1> HIDE DEF a
<1>2. Whole(a.k, used \union {a.id})
  BY <1>1 DEF Takes
<1>3. a.k \in CntlSet
  BY <1>2 DEF Whole
<1> QED
  BY <1>1, <1>2, <1>3 DEF a

LEMMA PortAnother ==
    ASSUME EnumInv, NEW p \in Ports, Active(p)
    PROVE  LET a == ReallocPipe(Kind(p), cntl[Ctl(p)], th[p].pipe)
           IN  Takes(cntl[Ctl(p)], PipesOf(th[p]), a.k, {a.id} \ {0}) /\ a.id \in Nat /\ a.k \in CntlSet
<1> DEFINE n == th[p].pipe
           k == cntl[Ctl(p)]
           a == ReallocPipe(Kind(p), k, n)
<1>1. PipesOf(th[p]) = {n} \ {0} /\ Whole(k, PipesOf(th[p]))
  BY PortFacts
<1>2. n \in Nat
  BY PortFacts DEF ThreadSet
<1> HIDE DEF n, k
<1>3. Whole(k, {n} \ {0})
  BY <1>1
<1>4. Takes(k, {n} \ {0}, a.k, {a.id} \ {0}) /\ a.id \in Nat
  BY <1>2, <1>3, TakesAnother
<1> HIDE DEF a
<1>5. a.k \in CntlSet
  BY <1>4 DEF Takes, Whole
<1>6. Takes(k, PipesOf(th[p]), a.k, {a.id} \ {0})
  BY <1>1, <1>4
<1> QED
  BY <1>4, <1>5, <1>6 DEF a, k, n

\* A pipe that is given back after others were taken.
LEMMA GivesLater ==
    ASSUME NEW k \in CntlSet, NEW u, NEW j, NEW v, Takes(k, u, j, v), NEW id, id \in v \union {0}
    PROVE  Takes(k, u, AddFree(j, id), v \ {id})
<1> DEFINE i == AddFree(j, id)
<1>1. Takes(j, v, i, v \ {id})
  <2>1. Whole(j, v)
    BY DEF Takes
  <2> QED
    BY <2>1, GivesBack
<1> HIDE DEF i
<1>2. Takes(k, u, i, v \ {id})
  BY <1>1, TakesAgain
<1> QED
  BY <1>2 DEF i

LEMMA Unlocked ==
    ASSUME NEW j \in CntlSet
    PROVE  LET k == [j EXCEPT !.maxaddr = j.maxaddr + 1, !.lock = FALSE]
           IN  Like(k, j) /\ k.lock = FALSE /\ k.maxaddr = j.maxaddr + 1
<1>1. j.maxaddr + 1 \in Nat
  BY DEF CntlSet
<1> QED
  BY <1>1 DEF Like, CntlSet

LEMMA AddressKeeps == ASSUME EnumInv, NEW p \in Ports, Address(p) PROVE EnumInv'
<1> DEFINE k0 == cntl[Ctl(p)]
           a == AllocPipe(Kind(p), k0, "control")
<1>1. /\ th[p].pc = "addr" /\ Active(p) /\ Setting(p) /\ Seen(p) /\ UNCHANGED <<machine, pending, hid, lost>>
      /\ PipesOf(th[p]) = {} /\ th[p].pipe = 0 /\ Whole(k0, {}) /\ Class(p) # "none" /\ dev[At(p)].on
  BY PortFacts, BusyFacts DEF Address, Active, Setting, After
<1>2. CASE /\ AddressFails(p, 0) /\ (Fault \/ NoFault)
           /\ Disconnected(p, machine.at[p]) \/ DisconnectFails(p, machine.at[p])
  BY <1>1, <1>2, FadesOff, AddressLost
<1>3. CASE /\ cntl' = [cntl EXCEPT ![Ctl(p)] = a.k]
           /\ th' = [th EXCEPT ![p].pc = "send", ![p].pipe = a.id]
           /\ UNCHANGED <<dev, hubs>> /\ NoFault
  <2>1. Takes(k0, {}, a.k, {a.id}) /\ a.id \in Nat \ {0}
    <3>1. Takes(k0, {}, a.k, {} \union {a.id}) /\ a.id \in Nat \ {0}
      BY <1>1, TakesPipe DEF PipeTypes
    <3> QED
      BY <3>1
  <2> HIDE DEF a
  <2> DEFINE r == Going("send", a.id)
  <2>2. th' = [th EXCEPT ![p] = r] /\ r \in ThreadSet
    <3>1. "send" \in {"lock"} \union After
      BY DEF After
    <3> QED
      BY <1>1, <1>3, <2>1, <3>1, Went
  <2>3. r.pc = "send" /\ r.held = {} /\ ~r.ok /\ PipesOf(r) \subseteq {a.id}
    BY DEF Going, PipesOf
  <2> HIDE DEF r
  <2>4. Like(a.k, a.k) /\ a.k.lock = k0.lock /\ a.k.maxaddr = k0.maxaddr
    BY <2>1 DEF Takes, Whole, Like
  <2>5. DevEffect(p, r)
    BY <1>1, <1>3, <2>3, PortFacts DEF DevEffect, SameDevice
  <2>6. k0.lock
    BY <1>1 DEF EnumInv, LockRight
  <2>7. LockEffect(p, r, a.k) /\ AddrEffect(p, r, a.k)
    BY <1>1, <1>3, <2>3, <2>4, <2>6 DEF LockEffect, AddrEffect
  <2>8. faults' \in Nat
    BY <1>3, FaultTypes
  <2> QED
    BY <1>1, <1>3, <2>1, <2>2, <2>3, <2>4, <2>5, <2>7, <2>8, GoesOn
<1> QED
  BY <1>1, <1>2, <1>3 DEF Address, Disconnect, DisconnectAfterFault, Ctl

LEMMA SendKeeps == ASSUME EnumInv, NEW p \in Ports, SendAddress(p) PROVE EnumInv'
<1>1. /\ th[p].pc = "send" /\ Active(p) /\ Setting(p) /\ Seen(p) /\ UNCHANGED <<machine, pending, hid, lost>>
      /\ Class(p) # "none" /\ dev[At(p)].on /\ th[p].pipe \in Nat /\ PipesOf(th[p]) = {th[p].pipe} \ {0}
  BY PortFacts, BusyFacts DEF SendAddress, Active, Setting, After, ThreadSet
<1>2. \/ /\ dev' = Taken(p) /\ th' = [th EXCEPT ![p].pc = "settle"] /\ UNCHANGED <<cntl, hubs>> /\ NoFault
      \/ /\ \/ Disconnected(p, machine.at[p]) \/ DisconnectFails(p, machine.at[p])
            \/ dev' = [Taken(p) EXCEPT ![At(p)].stuck = TRUE]
         /\ Fault /\ AddressFails(p, th[p].pipe)
  BY DEF SendAddress, Taken, Heard, At
<1>3. CASE dev' = Taken(p) /\ th' = [th EXCEPT ![p].pc = "settle"] /\ UNCHANGED <<cntl, hubs>> /\ NoFault
  <2> DEFINE r == Going("settle", th[p].pipe)
  <2>1. th' = [th EXCEPT ![p] = r] /\ r \in ThreadSet
    <3>1. "settle" \in {"lock"} \union After
      BY DEF After
    <3> QED
      BY <1>1, <1>3, <3>1, WentOn
  <2>2. r.pc = "settle" /\ r.held = {} /\ ~r.ok /\ PipesOf(r) = PipesOf(th[p])
    BY <1>1 DEF Going, PipesOf
  <2> HIDE DEF r
  <2>3. /\ dev' \in [DOMAIN machine.class -> DeviceSet] /\ At(p) \in DOMAIN machine.class
        /\ \A d \in DOMAIN machine.class : SameDevice(d)
        /\ \A q \in Ports : q # p /\ Speaks(q) => dev'[At(q)] = dev[At(q)]
        /\ dev'[At(p)] = dev[At(p)] \/ dev'[At(p)].addr = cntl[Ctl(p)].maxaddr + 1
        /\ dev[At(p)].addr = 0 => dev'[At(p)].addr = cntl[Ctl(p)].maxaddr + 1
    BY <1>1, <1>3, TakenDevices, OwnHeard, PortFacts DEF SameDevice
  <2>4. DevEffect(p, r)
    BY <1>1, <2>2, <2>3 DEF DevEffect, SameDevice
  <2>5. cntl[Ctl(p)].lock
    BY <1>1 DEF EnumInv, LockRight
  <2>6. LockEffect(p, r, cntl[Ctl(p)])
    BY <1>1, <2>5 DEF LockEffect
  <2>7. AddrEffect(p, r, cntl[Ctl(p)])
    BY <1>1, <2>2, <2>3 DEF AddrEffect
  <2>8. faults' \in Nat
    BY <1>3, FaultTypes
  <2>9. cntl' = [cntl EXCEPT ![Ctl(p)] = cntl[Ctl(p)]]
    BY <1>3, Untouched
  <2> QED
    BY <1>1, <1>3, <2>1, <2>2, <2>4, <2>6, <2>7, <2>8, <2>9, Untouched, GoesOn
<1>4. CASE /\ \/ Disconnected(p, machine.at[p]) \/ DisconnectFails(p, machine.at[p])
              \/ dev' = [Taken(p) EXCEPT ![At(p)].stuck = TRUE]
           /\ Fault /\ AddressFails(p, th[p].pipe)
  <2>1. Fades(p)
    BY <1>1, <1>4, FadesOff, FadesTaken
  <2> QED
    BY <1>1, <1>4, <2>1, AddressLost
<1> QED
  BY <1>2, <1>3, <1>4

LEMMA SettleKeeps == ASSUME EnumInv, NEW p \in Ports, Settle(p) PROVE EnumInv'
<1> DEFINE k0 == cntl[Ctl(p)]
           a == ReallocPipe(Kind(p), k0, th[p].pipe)
           k == [a.k EXCEPT !.maxaddr = a.k.maxaddr + 1, !.lock = FALSE]
<1>1. /\ th[p].pc = "settle" /\ Active(p) /\ Setting(p) /\ Seen(p)
      /\ UNCHANGED <<machine, hubs, dev, pending, hid, lost, faults>>
      /\ Class(p) # "none" /\ dev[At(p)].on
  BY PortFacts, BusyFacts DEF Settle, Active, Setting, After
<1>2. cntl' = [cntl EXCEPT ![Ctl(p)] = k] /\ th' = [th EXCEPT ![p].pc = "describe", ![p].pipe = a.id]
  BY DEF Settle, Ctl
<1>3. Takes(k0, PipesOf(th[p]), a.k, {a.id} \ {0}) /\ a.id \in Nat /\ a.k \in CntlSet
  BY <1>1, PortAnother
<1> HIDE DEF a
<1> DEFINE r == Going("describe", a.id)
<1>4. th' = [th EXCEPT ![p] = r] /\ r \in ThreadSet
  <2>1. "describe" \in {"lock"} \union After
    BY DEF After
  <2> QED
    BY <1>1, <1>2, <1>3, <2>1, Went
<1>5. r.pc = "describe" /\ r.held = {} /\ ~r.ok /\ PipesOf(r) = {a.id} \ {0}
  BY DEF Going, PipesOf
<1>6. Like(k, a.k) /\ k.lock = FALSE /\ k.maxaddr = k0.maxaddr + 1
  <2>1. Like(k, a.k) /\ k.lock = FALSE /\ k.maxaddr = a.k.maxaddr + 1
    BY <1>3, Unlocked
  <2>2. a.k.maxaddr = k0.maxaddr
    BY <1>3 DEF Takes
  <2> QED
    BY <2>1, <2>2
<1> HIDE DEF r, k
<1>7. DevEffect(p, r)
  BY <1>1, PortFacts DEF DevEffect, SameDevice
<1>8. LockEffect(p, r, k) /\ AddrEffect(p, r, k)
  BY <1>1, <1>5, <1>6 DEF LockEffect, AddrEffect
<1>9. faults' \in Nat
  BY <1>1, PortFacts
<1> QED
  BY <1>1, <1>2, <1>3, <1>4, <1>5, <1>6, <1>7, <1>8, <1>9, GoesOn

\* A device that is not set up.
LEMMA Refuses ==
    ASSUME EnumInv, NEW p \in Ports, th[p].pc \in After, NEW j,
           Takes(cntl[Ctl(p)], PipesOf(th[p]), j, PipesOf(th[p])), Refused(p, j),
           Disconnected(p, machine.at[p]) \/ DisconnectFails(p, machine.at[p]), Fault \/ NoFault, SameHid,
           UNCHANGED <<machine, pending, lost>>,
           th[p].pc = "wait" => hubs[p].threads = 0 /\ hubs[p].devcount = 0
    PROVE  EnumInv'
<1>1. Active(p) /\ Seen(p) /\ PipesOf(th[p]) = {th[p].pipe} \ {0}
  BY PortFacts, BusyFacts
<1>2. Fades(p)
  BY <1>1, FadesOff
<1> DEFINE i == AddFree(j, th[p].pipe)
<1>3. Done(p, i, 0) /\ Ended(p, FALSE)
  BY DEF Refused
<1>4. Takes(cntl[Ctl(p)], PipesOf(th[p]), i, {})
  <2>1. th[p].pipe \in PipesOf(th[p]) \union {0} /\ PipesOf(th[p]) \ {th[p].pipe} = {} /\ Whole(j, PipesOf(th[p]))
    BY <1>1 DEF Takes
  <2>2. Takes(j, PipesOf(th[p]), i, {})
    BY <2>1, GivesBack
  <2> QED
    BY <2>2, TakesAgain, PortFacts
<1> HIDE DEF i
<1>5. Like(i, i) /\ i.lock = cntl[Ctl(p)].lock /\ i.maxaddr = cntl[Ctl(p)].maxaddr
  BY <1>4 DEF Takes, Whole, Like
<1> QED
  BY <1>1, <1>2, <1>3, <1>4, <1>5, Fails, FaultTypes

LEMMA DescribeKeeps == ASSUME EnumInv, NEW p \in Ports, Describe(p) PROVE EnumInv'
<1> DEFINE k0 == cntl[Ctl(p)]
           a == ReallocPipe(Kind(p), k0, th[p].pipe)
<1>1. /\ th[p].pc = "describe" /\ Active(p) /\ Seen(p) /\ UNCHANGED <<machine, pending, hid, lost>>
      /\ Class(p) # "none" /\ dev[At(p)].on /\ DOMAIN hid = HidKinds /\ th[p].pc \in After
  <2>1. th[p].pc = "describe" /\ UNCHANGED <<machine, pending, hid, lost>>
    BY DEF Describe
  <2>2. th[p].pc \in After
    BY <2>1 DEF After
  <2> QED
    BY <2>1, <2>2, PortFacts, BusyFacts
<1>2. SameHid
  BY <1>1 DEF SameHid
<1>3. CASE /\ Refused(p, k0) /\ (Fault \/ NoFault)
           /\ Disconnected(p, machine.at[p]) \/ DisconnectFails(p, machine.at[p])
  BY <1>1, <1>2, <1>3, Untouched, Refuses
<1>4. CASE /\ Class(p) \in {"hub", "disk"} \union HidKinds
           /\ cntl' = [cntl EXCEPT ![Ctl(p)] = a.k]
           /\ th' = [th EXCEPT ![p].pc = Class(p), ![p].pipe = a.id]
           /\ UNCHANGED <<hubs, dev>> /\ NoFault
  <2>1. Takes(k0, PipesOf(th[p]), a.k, {a.id} \ {0}) /\ a.id \in Nat
    BY <1>1, PortAnother
  <2> HIDE DEF a
  <2> DEFINE r == Going(Class(p), a.id)
  <2>2. Class(p) \in After \ {"addr", "send", "settle", "wait"}
    BY <1>4 DEF After, HidKinds
  <2>3. th' = [th EXCEPT ![p] = r] /\ r \in ThreadSet
    BY <1>1, <1>4, <2>1, <2>2, Went
  <2>4. r.pc = Class(p) /\ r.held = {} /\ ~r.ok /\ PipesOf(r) = {a.id} \ {0}
    BY DEF Going, PipesOf
  <2> HIDE DEF r
  <2>5. r.pc \notin {"off", "detect", "lock", "addr", "send", "settle", "wait", "end"}
    BY <2>2, <2>4 DEF After
  <2>6. Like(a.k, a.k) /\ a.k.lock = k0.lock /\ a.k.maxaddr = k0.maxaddr
    BY <2>1 DEF Takes, Whole, Like
  <2>7. DevEffect(p, r)
    BY <1>1, <1>4, PortFacts DEF DevEffect, SameDevice
  <2>8. LockEffect(p, r, a.k) /\ AddrEffect(p, r, a.k)
    BY <1>1, <1>4, <2>5, <2>6 DEF LockEffect, AddrEffect
  <2>9. faults' \in Nat
    BY <1>4, FaultTypes
  <2> QED
    BY <1>1, <1>4, <2>1, <2>3, <2>4, <2>5, <2>6, <2>7, <2>8, <2>9, GoesOn
<1> QED
  BY <1>1, <1>3, <1>4 DEF Describe, Refuse, Disconnect, DisconnectAfterFault, Ctl

Readied(ids) == [pc |-> "end", pipe |-> 0, held |-> ids, ok |-> TRUE]
LEMMA Readies ==
    ASSUME EnumInv, NEW p \in Ports, NEW ids \in SUBSET (Nat \ {0}),
           th' = [th EXCEPT ![p] = [@ EXCEPT !.pc = "end", !.pipe = 0, !.held = ids, !.ok = TRUE]]
    PROVE  th' = [th EXCEPT ![p] = Readied(ids)] /\ Readied(ids) \in ThreadSet
<1>1. th \in [Ports -> ThreadSet] /\ th[p] \in ThreadSet
  BY PortFacts
<1> DEFINE t == th[p]
           e == [t EXCEPT !.pc = "end", !.pipe = 0, !.held = ids, !.ok = TRUE]
<1>2. e = Readied(ids)
  <2>1. t \in ThreadSet
    BY <1>1
  <2> HIDE DEF t
  <2>2. e.pc = "end" /\ e.pipe = 0 /\ e.held = ids /\ e.ok = TRUE
    BY <2>1 DEF ThreadSet
  <2>3. e \in ThreadSet
    BY <2>1, <2>2 DEF ThreadSet
  <2> HIDE DEF e
  <2> QED
    BY <2>2, <2>3 DEF ThreadSet, Readied
<1>3. Readied(ids) \in ThreadSet
  BY DEF ThreadSet, Readied
<1>4. th' = [th EXCEPT ![p] = e]
  BY <1>1
<1> QED
  BY <1>2, <1>3, <1>4

LEMMA HidKeeps == ASSUME EnumInv, NEW p \in Ports, HidSetup(p) PROVE EnumInv'
<1> DEFINE k0 == cntl[Ctl(p)]
           u == PipesOf(th[p])
           n == th[p].pipe
           a == AllocPipe(Kind(p), k0, "int")
           j == AddFree(a.k, n)
<1>1. th[p].pc \in HidKinds /\ DOMAIN hid = HidKinds /\ UNCHANGED <<machine, pending, lost>>
  BY PortFacts DEF HidSetup
<1>2. th[p].pc \in After \ {"addr", "send", "settle"} /\ th[p].pc \in After /\ th[p].pc # "wait"
  BY <1>1 DEF After, HidKinds
<1>3. u = {n} \ {0} /\ Whole(k0, u) /\ k0 \in CntlSet
  BY <1>2, PortFacts, BusyFacts
<1>4. CASE /\ Refused(p, k0) /\ Fault
           /\ Disconnected(p, machine.at[p]) \/ DisconnectFails(p, machine.at[p])
           /\ UNCHANGED hid \/ hid' = [hid EXCEPT ![th[p].pc] = NoPipe]
  <2>1. SameHid
    BY <1>1, <1>4 DEF SameHid
  <2> QED
    BY <1>1, <1>2, <1>4, <2>1, Untouched, Refuses
<1>5. CASE /\ hid' = [hid EXCEPT ![th[p].pc] = <<Ctl(p), a.id>>]
           /\ Done(p, j, 1) /\ dev' = dev /\ NoFault
           /\ th' = [th EXCEPT ![p] = [@ EXCEPT !.pc = "end", !.pipe = 0, !.held = {a.id}, !.ok = TRUE]]
  <2>1. Takes(k0, u, a.k, u \union {a.id}) /\ a.id \notin u /\ a.id \in Nat \ {0}
    <3>1. "int" \in PipeTypes
      BY DEF PipeTypes
    <3> HIDE DEF k0, u
    <3> QED
      BY <1>3, <3>1, PortPipe
  <2> HIDE DEF a
  <2> DEFINE kept == (u \union {a.id}) \ {n}
             r == Readied({a.id})
  <2>2. Takes(k0, u, j, kept)
    <3>1. n \in (u \union {a.id}) \union {0}
      BY <1>3
    <3> HIDE DEF k0, u, n
    <3> QED
      BY <1>3, <2>1, <3>1, GivesLater
  <2>3. {a.id} \subseteq kept /\ {a.id} \in SUBSET (Nat \ {0})
    BY <1>3, <2>1
  <2>4. Done(p, j, 1) /\ dev' = dev
    BY <1>5
  <2> HIDE DEF j, kept
  <2>5. th' = [th EXCEPT ![p] = r] /\ r \in ThreadSet
    BY <1>5, <2>3, Readies
  <2>6. r.pc = "end" /\ r.pipe = 0 /\ r.ok /\ r.held = {a.id}
    BY DEF Readied
  <2> HIDE DEF r
  <2>7. HidEffect(p, r)
    BY <1>1, <1>5, <2>6 DEF HidEffect
  <2>8. faults' \in Nat
    BY <1>5, FaultTypes
  <2>9. r.held \subseteq kept
    BY <2>3, <2>6
  <2> QED
    BY <1>1, <1>2, <2>2, <2>4, <2>5, <2>6, <2>7, <2>8, <2>9, Works
<1> QED
  BY <1>1, <1>4, <1>5 DEF HidSetup, Refuse, Configured, DisconnectAfterFault, Ctl

LEMMA DiskKeeps == ASSUME EnumInv, NEW p \in Ports, DiskSetup(p) PROVE EnumInv'
<1> DEFINE k0 == cntl[Ctl(p)]
           u == PipesOf(th[p])
           n == th[p].pipe
           a == AllocPipe(Kind(p), k0, "bulk")
           b == AllocPipe(Kind(p), a.k, "bulk")
           k1 == AddFree(a.k, a.id)
           k2 == AddFree(b.k, a.id)
           k3 == AddFree(k2, b.id)
           j == AddFree(b.k, n)
<1>1. th[p].pc = "disk" /\ DOMAIN hid = HidKinds /\ UNCHANGED <<machine, pending, hid, lost>>
  BY PortFacts DEF DiskSetup
<1>2. \/ /\ \E k \in {k0, k1, k3} : Refused(p, k)
         /\ Disconnected(p, machine.at[p]) \/ DisconnectFails(p, machine.at[p])
         /\ Fault
      \/ /\ Done(p, j, 1) /\ dev' = dev /\ NoFault
         /\ th' = [th EXCEPT ![p] = [@ EXCEPT !.pc = "end", !.pipe = 0, !.held = {a.id, b.id}, !.ok = TRUE]]
  BY DEF DiskSetup, Configured, DisconnectAfterFault, Ctl
<1>3. th[p].pc \in After \ {"addr", "send", "settle"} /\ th[p].pc \in After /\ th[p].pc # "wait"
  BY <1>1 DEF After
<1>4. u = {n} \ {0} /\ Whole(k0, u) /\ k0 \in CntlSet /\ "bulk" \in PipeTypes
  BY <1>3, PortFacts, BusyFacts DEF PipeTypes
<1> HIDE DEF k0, u, n
<1>5. Takes(k0, u, a.k, u \union {a.id}) /\ Whole(a.k, u \union {a.id}) /\ a.id \notin u /\ a.id \in Nat \ {0}
  BY <1>4, PortPipe
<1> HIDE DEF a
<1> DEFINE v == (u \union {a.id}) \union {b.id}
<1>6. Takes(a.k, u \union {a.id}, b.k, v) /\ b.id \notin u \union {a.id} /\ b.id \in Nat \ {0}
  BY <1>4, <1>5, PortPipe
<1> HIDE DEF b
<1>7. Takes(k0, u, b.k, v)
  BY <1>4, <1>5, <1>6, TakesAgain
<1>8. Takes(k0, u, k1, u)
  <2>1. Takes(k0, u, k1, (u \union {a.id}) \ {a.id})
    BY <1>4, <1>5, GivesLater
  <2>2. (u \union {a.id}) \ {a.id} = u
    BY <1>5
  <2> QED
    BY <2>1, <2>2
<1>9. Takes(k0, u, k3, u)
  <2>1. Takes(k0, u, k2, v \ {a.id})
    BY <1>4, <1>7, GivesLater
  <2> HIDE DEF k2
  <2>2. Takes(k0, u, k3, (v \ {a.id}) \ {b.id})
    <3>1. b.id \in (v \ {a.id}) \union {0}
      BY <1>6
    <3> HIDE DEF v
    <3> QED
      BY <1>4, <2>1, <3>1, GivesLater
  <2>3. (v \ {a.id}) \ {b.id} = u
    BY <1>5, <1>6
  <2> QED
    BY <2>2, <2>3
<1> DEFINE kept == v \ {n}
<1>10. Takes(k0, u, j, kept)
  <2>1. n \in v \union {0}
    BY <1>4
  <2> HIDE DEF v
  <2> QED
    BY <1>4, <1>7, <2>1, GivesLater
<1>11. {a.id, b.id} \subseteq kept /\ {a.id, b.id} \in SUBSET (Nat \ {0})
  BY <1>4, <1>5, <1>6
<1> HIDE DEF j, k1, k2, k3, kept
<1>12. CASE /\ \E k \in {k0, k1, k3} : Refused(p, k)
            /\ Disconnected(p, machine.at[p]) \/ DisconnectFails(p, machine.at[p])
            /\ Fault
  <2>1. PICK k \in {k0, k1, k3} : Refused(p, k)
    BY <1>12
  <2>2. Takes(k0, u, k0, u)
    BY Untouched DEF k0, u
  <2>3. Takes(k0, u, k, u)
    BY <1>8, <1>9, <2>1, <2>2
  <2>4. Takes(cntl[Ctl(p)], PipesOf(th[p]), k, PipesOf(th[p])) /\ SameHid
    BY <1>1, <2>3 DEF k0, u, SameHid
  <2> QED
    BY <1>1, <1>3, <1>12, <2>1, <2>4, Refuses
<1>13. CASE /\ Done(p, j, 1) /\ dev' = dev /\ NoFault
            /\ th' = [th EXCEPT ![p] = [@ EXCEPT !.pc = "end", !.pipe = 0, !.held = {a.id, b.id}, !.ok = TRUE]]
  <2> DEFINE r == Readied({a.id, b.id})
  <2>1. th' = [th EXCEPT ![p] = r] /\ r \in ThreadSet
    BY <1>11, <1>13, Readies
  <2>2. r.pc = "end" /\ r.pipe = 0 /\ r.ok /\ r.held = {a.id, b.id}
    BY DEF Readied
  <2> HIDE DEF r
  <2>3. HidEffect(p, r)
    BY <1>1 DEF HidEffect
  <2>4. faults' \in Nat
    BY <1>13, FaultTypes
  <2>5. r.held \subseteq kept
    BY <1>11, <2>2
  <2>6. Takes(cntl[Ctl(p)], PipesOf(th[p]), j, kept)
    BY <1>10 DEF k0, u
  <2> QED
    BY <1>1, <1>3, <1>13, <2>1, <2>2, <2>3, <2>4, <2>5, <2>6, Works
<1> QED
  BY <1>2, <1>12, <1>13

LEMMA HubKeeps == ASSUME EnumInv, NEW p \in Ports, HubSetup(p) PROVE EnumInv'
<1>1. th[p].pc = "hub" /\ UNCHANGED <<machine, pending, hid>> /\ th[p].pc \in After /\ DOMAIN hid = HidKinds
  BY PortFacts DEF HubSetup, After
<1>2. CASE /\ Refused(p, cntl[Ctl(p)]) /\ Fault /\ UNCHANGED lost
           /\ Disconnected(p, machine.at[p]) \/ DisconnectFails(p, machine.at[p])
  <2>1. SameHid
    BY <1>1 DEF SameHid
  <2> QED
    BY <1>1, <1>2, <2>1, Untouched, Refuses
<1>3. CASE Launch(p, [th EXCEPT ![p].pc = "wait"]) /\ UNCHANGED <<cntl, dev>>
  BY <1>1, <1>3, HubStarts
<1> QED
  BY <1>2, <1>3 DEF HubSetup, Refuse, DisconnectAfterFault, Ctl

LEMMA HubDoneKeeps == ASSUME EnumInv, NEW p \in Ports, HubDone(p) PROVE EnumInv'
<1> DEFINE k0 == cntl[Ctl(p)]
           j == AddFree(k0, th[p].pipe)
<1>1. /\ th[p].pc = "wait" /\ hubs[p].threads = 0 /\ UNCHANGED <<machine, pending, hid, lost>>
      /\ th[p].pc \in After \ {"addr", "send", "settle"} /\ DOMAIN hid = HidKinds
      /\ PipesOf(th[p]) = {th[p].pipe} \ {0} /\ Whole(k0, PipesOf(th[p])) /\ th[p].held = {}
  BY PortFacts, BusyFacts DEF HubDone, After
<1>2. CASE /\ Refused(p, k0) /\ (Fault \/ NoFault) /\ hubs[p].devcount = 0
           /\ Disconnected(p, machine.at[p]) \/ DisconnectFails(p, machine.at[p])
  <2>1. SameHid
    BY <1>1 DEF SameHid
  <2> QED
    BY <1>1, <1>2, <2>1, Untouched, Refuses
<1>3. CASE Done(p, j, 1) /\ dev' = dev /\ Ended(p, TRUE) /\ NoFault
  <2> DEFINE kept == PipesOf(th[p]) \ {th[p].pipe}
  <2>1. Takes(k0, PipesOf(th[p]), j, kept)
    BY <1>1, GivesBack
  <2> HIDE DEF j, kept
  <2> DEFINE r == Ending(p, TRUE)
  <2>2. th' = [th EXCEPT ![p] = r] /\ r \in ThreadSet
    BY <1>3, EndedAs
  <2>3. r.pc = "end" /\ r.pipe = 0 /\ r.ok /\ r.held = {}
    BY <1>1 DEF Ending
  <2> HIDE DEF r
  <2>4. HidEffect(p, r)
    BY <1>1 DEF HidEffect
  <2>5. faults' \in Nat
    BY <1>3, FaultTypes
  <2>6. {} \subseteq kept
    OBVIOUS
  <2> QED
    BY <1>1, <1>3, <2>1, <2>2, <2>3, <2>4, <2>5, <2>6, Works
<1> QED
  BY <1>1, <1>2, <1>3 DEF HubDone, Refuse, Configured, Disconnect, Ctl

-----------------------------------------------------------------------------
LEMMA EnumStarts == EnumInit => EnumInv
<1> SUFFICES ASSUME EnumInit PROVE EnumInv
  OBVIOUS
<1>1. /\ machine \in Machines /\ WiresRight
      /\ cntl = [c \in Cntls |-> NewCntl]
      /\ hubs = [h \in Hubs |-> [threads |-> 0, devcount |-> 0]]
      /\ th = [p \in Ports |-> NewThread]
      /\ dev = [d \in DOMAIN machine.class |-> NewDevice]
      /\ pending = Cardinality({c \in Cntls : machine.kind[c] = "ehci"})
      /\ hid = [kbd |-> NoPipe, mouse |-> NoPipe] /\ lost = FALSE /\ faults = 0
  BY Wiring DEF EnumInit, Hubs
<1>2. ASSUME NEW p \in Ports
      PROVE  /\ th[p].pc = "off" /\ th[p].pipe = 0 /\ th[p].held = {} /\ th[p].ok = FALSE
             /\ ~Active(p) /\ ~Setting(p) /\ ~Busy(p) /\ PipesOf(th[p]) = {}
             /\ Ctl(p) \in Cntls /\ At(p) \in DOMAIN machine.class /\ Up(p) \in Hubs
  <2>1. th[p] = NewThread
    BY <1>1
  <2> QED
    BY <1>1, <2>1 DEF NewThread, Active, Setting, Busy, After, PipesOf, WiresRight
<1>3. ASSUME NEW c \in Cntls
      PROVE  /\ cntl[c] \in CntlSet /\ cntl[c].st = "off" /\ cntl[c].freed = {} /\ cntl[c].free = <<>>
             /\ cntl[c].sched = {} /\ FreeIds(cntl[c]) = {} /\ KRight(cntl[c])
  <2>1. cntl[c] = NewCntl
    BY <1>1
  <2>2. NewCntl \in CntlSet
    <3>1. <<>> \in Seq(Nat \ {0}) /\ <<>> \in Seq(PipeTypes)
      OBVIOUS
    <3> QED
      BY <3>1 DEF NewCntl, CntlSet
  <2>3. DOMAIN cntl[c].free = {} /\ cntl[c].sched = {}
    BY <2>1 DEF NewCntl
  <2> QED
    BY <2>1, <2>2, <2>3 DEF NewCntl, FreeIds, KRight
<1>4. \A d \in DOMAIN machine.class : dev[d] \in DeviceSet /\ dev[d].on = FALSE
  BY <1>1 DEF NewDevice, DeviceSet
<1>5. IsFiniteSet(EhciOff) /\ Cardinality(EhciOff) \in Nat /\ EhciOff = {c \in Cntls : machine.kind[c] = "ehci"}
  <2>1. EhciOff = {c \in Cntls : machine.kind[c] = "ehci"}
    BY <1>3 DEF EhciOff
  <2>2. IsFiniteSet(EhciOff)
    BY <1>1, FS_Subset DEF WiresRight, EhciOff
  <2> QED
    BY <2>1, <2>2, FS_CardinalityType
<1>6. EnumTypeOK
  <2>1. th \in [Ports -> ThreadSet]
    BY <1>1 DEF NewThread, ThreadSet, After
  <2>2. cntl \in [Cntls -> CntlSet] /\ dev \in [DOMAIN machine.class -> DeviceSet]
    BY <1>1, <1>3, <1>4
  <2>3. hubs \in [Hubs -> [threads : Nat, devcount : Nat]]
    BY <1>1
  <2> QED
    BY <1>1, <1>5, <2>1, <2>2, <2>3 DEF EnumTypeOK, HidKinds
<1>7. HubsRight
  <2>1. ASSUME NEW h \in Hubs PROVE Cardinality(ActiveOf(h)) <= hubs[h].threads
    <3>1. ActiveOf(h) = {}
      BY <1>2 DEF ActiveOf, PortsOf
    <3> QED
      BY <1>1, <3>1, FS_EmptySet
  <2> QED
    BY <1>2, <2>1 DEF HubsRight
<1>8. PendingRight
  <2>1. Cardinality(EhciOff) = pending /\ pending \in Nat
    BY <1>1, <1>5
  <2>2. Cardinality(EhciOff) <= pending
    BY <2>1
  <2> QED
    BY <1>2, <2>2 DEF PendingRight
<1>9. LockRight
  BY <1>2 DEF LockRight
<1>10. DevicesRight
  BY <1>2, <1>3, <1>4 DEF DevicesRight
<1>11. AddressRight
  BY <1>2, <1>4 DEF AddressRight, Speaks
<1>12. PipesRight
  BY <1>2, <1>3 DEF PipesRight, Apart
<1>13. ReleaseRight
  BY <1>2, <1>3 DEF ReleaseRight
<1>14. HidRight
  BY <1>1 DEF HidRight, HidKinds
<1> QED
  BY <1>6, <1>7, <1>8, <1>9, <1>10, <1>11, <1>12, <1>13, <1>14 DEF EnumInv

LEMMA EnumRests == EnumInv /\ UNCHANGED enumVars => EnumInv'
<1> SUFFICES ASSUME EnumInv, UNCHANGED enumVars PROVE EnumInv'
  OBVIOUS
<1>1. UNCHANGED <<machine, cntl, hubs, th, dev, pending, hid, lost, faults>>
  BY DEF enumVars
<1>2. Cntls' = Cntls /\ Ports' = Ports /\ Hubs' = Hubs
  BY <1>1 DEF Cntls, Ports, Hubs
<1>3. EnumTypeOK'
  BY <1>1, <1>2 DEF EnumInv, EnumTypeOK
<1>4. HubsRight'
  BY <1>1, <1>2 DEF EnumInv, HubsRight, Active, ActiveOf, PortsOf, OnHub, Up, Ctl, Ports
<1>5. PendingRight' /\ LockRight'
  BY <1>1, <1>2 DEF EnumInv, PendingRight, LockRight, EhciOff, Kind, Setting, Ctl
<1>6. DevicesRight' /\ AddressRight'
  BY <1>1, <1>2 DEF EnumInv, DevicesRight, AddressRight, Seen, SeenAs, Kind, OnHub, Class, Active, Busy, Setting,
    Speaks, At, Up, Ctl
<1>7. PipesRight' /\ ReleaseRight' /\ HidRight'
  BY <1>1, <1>2 DEF EnumInv, PipesRight, ReleaseRight, HidRight, Apart, Ctl, Freeable, FreeOf
<1> QED
  BY <1>3, <1>4, <1>5, <1>6, <1>7 DEF EnumInv

LEMMA EnumKeeps == EnumInv /\ [EnumNext]_enumVars => EnumInv'
<1> SUFFICES ASSUME EnumInv, [EnumNext]_enumVars PROVE EnumInv'
  OBVIOUS
<1>1. ASSUME NEW c \in Cntls, Configure(c) \/ CheckPorts(c) \/ Unlink(c) \/ Release(c) PROVE EnumInv'
  BY <1>1, ConfigureKeeps, CheckKeeps, UnlinkKeeps, ReleaseKeeps
<1>2. ASSUME NEW p \in Ports, Detect(p) \/ Reset(p) \/ Address(p) \/ SendAddress(p) \/ Settle(p) PROVE EnumInv'
  BY <1>2, DetectKeeps, ResetKeeps, AddressKeeps, SendKeeps, SettleKeeps
<1>3. ASSUME NEW p \in Ports, Describe(p) \/ HidSetup(p) \/ DiskSetup(p) \/ HubSetup(p) \/ HubDone(p) PROVE EnumInv'
  BY <1>3, DescribeKeeps, HidKeeps, DiskKeeps, HubKeeps, HubDoneKeeps
<1>4. CASE UNCHANGED enumVars
  BY <1>4, EnumRests
<1> QED
  BY <1>1, <1>2, <1>3, <1>4 DEF EnumNext

\* However the threads of the ports, the hubs and the controllers interleave and
\* whatever fails on the way, on every machine: no two devices of a bus answer to
\* one address, no pipe is given back that is still used, and no device with a
\* driver is shut down (usb_hub_port_setup, usb_set_address, usb_enumerate and the
\* setup of the four host controllers).
THEOREM EnumerationStaysSafe == EnumSpec => []EnumerationSafe
<1>1. EnumInit => EnumInv
  BY EnumStarts
<1>2. EnumInv /\ [EnumNext]_enumVars => EnumInv'
  BY EnumKeeps
<1>3. EnumInv => EnumerationSafe
  BY EnumSafe
<1> QED
  BY <1>1, <1>2, <1>3, PTL DEF EnumSpec
=============================================================================
