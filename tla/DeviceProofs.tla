---------------------------- MODULE DeviceProofs ----------------------------
(***************************************************************************)
(* Proofs about the keyboard and the mouse behind one output buffer, for   *)
(* any number of keys, moves, commands and faults: the answers a command   *)
(* gets are its own (AnswersOwn). And about transfers of the USB host      *)
(* controllers, for any number of descriptors, parts and faults: what is   *)
(* reported as done was done (TransfersClean).                             *)
(***************************************************************************)
EXTENDS Ps2, UsbXfer, SequenceTheorems, TLAPS

USE DEF psVars, kbdVars

Ports == {"kbd", "aux"}
Phases == {"off", "yield", "send", "ack", "recv", "restore"}
Vals == Nat \union [key : PsKeys \union {"e0", "e1", "lctrl", "numlock"} \union {Base(k) : k \in PsKeys},
                    rel : BOOLEAN]
Bytes(from) == [from : {from}, kind : {"code", "move", "ack", "nak", "data"}, val : Vals]
AllBytes == Bytes("kbd") \union Bytes("aux")

CmdSet ==
    [pc : Phases, name : DOMAIN Commands, n : Nat,
     saved : SUBSET (Off \union Ints), sent : Nat, got : Seq(AllBytes),
     ok : BOOLEAN, wrote : BOOLEAN, late : BOOLEAN]

PsType ==
    /\ port \in [ctr : SUBSET (Off \union Ints), obf : AllBytes \union {Empty}, irq : SUBSET Ports]
    /\ out \in [kbd : Seq(Bytes("kbd")), aux : Seq(Bytes("aux")), scan : BOOLEAN, stream : BOOLEAN]
    /\ ctr \in SUBSET (Off \union Ints)
    /\ todo \in Seq(DOMAIN Commands)
    /\ cmd \in CmdSet

-----------------------------------------------------------------------------
(***************************************************************************)
(* The inductive invariant, in parts.                                      *)
(***************************************************************************)

\* A byte that has raised its interrupt is in the buffer; a command begins with both
\* interrupts off, and reads nothing before those raised earlier are served.
IrqOwn ==
    /\ \A i \in port.irq : port.obf.from = i
    /\ cmd.pc # "off" => port.ctr \cap Ints = {}
    /\ cmd.pc \notin {"off", "yield"} => port.irq = {}

\* A keyboard with its interrupt on is not turned off, which handle_09 relies on when
\* it turns the keyboard on.
Sound(c) == "KBDINT" \in c => "KBDDIS" \notin c
CtrRight ==
    /\ Sound(ctr) /\ Sound(cmd.saved)
    /\ cmd.pc = "off" /\ cmd.wrote => port.ctr = ctr

Sends == Commands[cmd.name].send
Recvs == Commands[cmd.name].recv

\* What has been received: an acknowledgement for each byte sent, then the parameters.
GotLens ==
    /\ cmd.pc = "yield" => cmd.sent = 0
    /\ cmd.pc \in {"yield", "send", "ack"} => Len(cmd.got) = cmd.sent /\ cmd.sent <= Sends
    /\ cmd.pc = "recv" =>
           cmd.sent = Sends /\ 1 + Sends <= Len(cmd.got) /\ Len(cmd.got) < 1 + Sends + Recvs

GotOwn ==
    ~cmd.late => \A i \in 1..Len(cmd.got) :
        cmd.got[i].from = To /\ cmd.got[i].kind \in {"ack", "data"} /\ cmd.got[i].val = cmd.n

\* The bytes of a port on their way: in the buffer (0), and behind it.
There(f, i) == i \in 1..Len(out[f]) \/ (i = 0 /\ port.obf.from = f)
Pend(f, i) == IF i = 0 THEN port.obf ELSE out[f][i]
Quiet(f) == \A i \in Nat : There(f, i) => Pend(f, i).kind \in {"code", "move"}

\* The answer of port t is at place a: an acknowledgement, followed by the parameters if
\* it is the last one, or a refusal. The rest are keys or moves.
Params == IF cmd.sent = Sends THEN Recvs ELSE 0
Span(t, a) == IF Pend(t, a).kind = "ack" THEN Params ELSE 0
AnswerAt(t, a) ==
    /\ There(t, a) /\ Pend(t, a).kind \in {"ack", "nak"} /\ Pend(t, a).val = cmd.n
    /\ a + Span(t, a) <= Len(out[t])
    /\ \A i \in Nat : There(t, i) /\ i # a =>
           IF a < i /\ i <= a + Span(t, a) THEN Pend(t, i) = Byte(t, "data", cmd.n)
           ELSE Pend(t, i).kind \in {"code", "move"}

\* The parameters that are still to come are the next bytes.
First(t) == IF port.obf.from = t THEN 0 ELSE 1
Left == 1 + Sends + Recvs - Len(cmd.got)
DataNow(t) ==
    /\ First(t) + Left - 1 <= Len(out[t])
    /\ \A i \in Nat : There(t, i) =>
           IF i < First(t) + Left THEN Pend(t, i) = Byte(t, "data", cmd.n)
           ELSE Pend(t, i).kind \in {"code", "move"}

\* Unless an answer comes late, none is on its way but that of the command under way.
OneAnswer ==
    ~cmd.late =>
        \A t \in Ports :
            /\ t # To \/ cmd.pc \notin {"ack", "recv"} => Quiet(t)
            /\ t = To /\ cmd.pc = "ack" => Quiet(t) \/ \E a \in Nat : AnswerAt(t, a)
            /\ t = To /\ cmd.pc = "recv" => DataNow(t)

PsInv == PsType /\ IrqOwn /\ CtrRight /\ GotLens /\ GotOwn /\ OneAnswer

-----------------------------------------------------------------------------
LEMMA CommandsType ==
    /\ DOMAIN Commands = {"KRESET", "KRESETDIS", "KSCANSET", "KENABLE", "SETLEDS", "KGETID", "MENABLE", "MDISABLE",
                          "MRESET", "SETRATE", "GETINFO"}
    /\ \A c \in DOMAIN Commands :
           Commands[c].to \in Ports /\ Commands[c].send \in Nat /\ Commands[c].recv \in Nat
BY DEF Commands, Ports

\* The fields of cmd.
LEMMA CmdFields ==
    ASSUME NEW r \in CmdSet
    PROVE  /\ /\ r.pc \in Phases /\ r.name \in DOMAIN Commands /\ r.n \in Nat /\ r.sent \in Nat
              /\ r.saved \in SUBSET (Off \union Ints) /\ r.got \in Seq(AllBytes)
           /\ \A v \in Phases : [r EXCEPT !.pc = v] \in CmdSet
           /\ \A v \in DOMAIN Commands : [r EXCEPT !.name = v] \in CmdSet
           /\ \A v \in Nat : [r EXCEPT !.n = v] \in CmdSet
           /\ \A v \in SUBSET (Off \union Ints) : [r EXCEPT !.saved = v] \in CmdSet
           /\ \A v \in Nat : [r EXCEPT !.sent = v] \in CmdSet
           /\ \A v \in Seq(AllBytes) : [r EXCEPT !.got = v] \in CmdSet
           /\ \A v \in BOOLEAN : /\ [r EXCEPT !.ok = v] \in CmdSet
                                 /\ [r EXCEPT !.wrote = v] \in CmdSet
                                 /\ [r EXCEPT !.late = v] \in CmdSet
<1> USE DEF CmdSet
<1>1. /\ r.pc \in Phases /\ r.name \in DOMAIN Commands /\ r.n \in Nat /\ r.sent \in Nat
      /\ r.saved \in SUBSET (Off \union Ints) /\ r.got \in Seq(AllBytes)
  OBVIOUS
<1>2. \A v \in Phases : [r EXCEPT !.pc = v] \in CmdSet
  OBVIOUS
<1>3. \A v \in DOMAIN Commands : [r EXCEPT !.name = v] \in CmdSet
  OBVIOUS
<1>4. \A v \in Nat : [r EXCEPT !.n = v] \in CmdSet
  OBVIOUS
<1>5. \A v \in SUBSET (Off \union Ints) : [r EXCEPT !.saved = v] \in CmdSet
  OBVIOUS
<1>6. \A v \in Nat : [r EXCEPT !.sent = v] \in CmdSet
  OBVIOUS
<1>7. \A v \in Seq(AllBytes) : [r EXCEPT !.got = v] \in CmdSet
  OBVIOUS
<1>8. \A v \in BOOLEAN : [r EXCEPT !.ok = v] \in CmdSet
  OBVIOUS
<1>9. \A v \in BOOLEAN : [r EXCEPT !.wrote = v] \in CmdSet
  OBVIOUS
<1>10. \A v \in BOOLEAN : [r EXCEPT !.late = v] \in CmdSet
  OBVIOUS
<1> HIDE DEF CmdSet
<1> QED
  BY <1>1, <1>2, <1>3, <1>4, <1>5, <1>6, <1>7, <1>8, <1>9, <1>10

LEMMA CmdNumbers ==
    ASSUME PsType
    PROVE  Sends \in Nat /\ Recvs \in Nat /\ Params \in Nat /\ Left \in Int /\ To \in Ports
           /\ cmd.sent \in Nat /\ cmd.n \in Nat /\ Len(cmd.got) \in Nat
<1>1. cmd.name \in DOMAIN Commands /\ cmd.got \in Seq(AllBytes) /\ cmd.sent \in Nat /\ cmd.n \in Nat
  BY CmdFields, Zenon DEF PsType
<1>2. Sends \in Nat /\ Recvs \in Nat /\ To \in Ports
  BY <1>1, CommandsType, Zenon DEF Sends, Recvs, To
<1>3. Len(cmd.got) \in Nat
  BY <1>1, LenProperties
<1> QED
  BY <1>1, <1>2, <1>3 DEF Params, Left

\* What a key sends is a sequence of scan codes.
LEMMA CodesType ==
    ASSUME NEW k \in PsKeys, NEW rel \in BOOLEAN
    PROVE  Codes2(k, rel) \in Seq(Bytes("kbd"))
           /\ \A i \in 1..Len(Codes2(k, rel)) : Codes2(k, rel)[i].kind = "code"
<1> DEFINE K == [key : PsKeys \union {"e0", "e1", "lctrl", "numlock"} \union {Base(j) : j \in PsKeys}, rel : BOOLEAN]
<1>1. /\ Scan(k, rel) \in K /\ Scan(Base(k), rel) \in K /\ Scan("lctrl", rel) \in K
      /\ Scan("numlock", rel) \in K /\ Prefix("e0") \in K /\ Prefix("e1") \in K
  BY DEF Scan, Prefix
<1> HIDE DEF K
<1>2. Codes(k, rel) \in Seq(K)
  BY <1>1 DEF Codes
<1>3. Len(Codes(k, rel)) \in Nat /\ DOMAIN Codes(k, rel) = 1..Len(Codes(k, rel))
  BY <1>2
<1>4. ASSUME NEW i \in DOMAIN Codes(k, rel)
      PROVE  Byte("kbd", "code", Codes(k, rel)[i]) \in Bytes("kbd")
  <2>1. Codes(k, rel)[i] \in K
    BY <1>2, <1>3
  <2>2. Codes(k, rel)[i] \in Vals
    BY <2>1 DEF Vals, K
  <2> QED
    BY <2>2 DEF Byte, Bytes
<1> QED
  BY <1>3, <1>4 DEF Codes2, Byte

\* The two halves of a queue that has grown
LEMMA Grown ==
    ASSUME PsType, NEW f \in Ports, NEW t \in Seq(Bytes(f)), out'[f] = out[f] \o t
    PROVE  /\ out'[f] \in Seq(Bytes(f)) /\ Len(out'[f]) = Len(out[f]) + Len(t)
           /\ Len(out[f]) \in Nat /\ Len(t) \in Nat
           /\ \A i \in 1..Len(out[f]) : out'[f][i] = out[f][i]
           /\ \A i \in 1..Len(t) : out'[f][Len(out[f]) + i] = t[i]
<1>1. out[f] \in Seq(Bytes(f))
  BY DEF PsType, Ports
<1> QED
  BY <1>1, ConcatProperties

-----------------------------------------------------------------------------
(* The devices *)

\* A byte that arrives moves the queue of its port by one place.
LEMMA Moved ==
    ASSUME PsType, NEW f \in Ports, Arrive(f)
    PROVE  /\ out'[f] \in Seq(Bytes(f)) /\ Len(out'[f]) = Len(out[f]) - 1 /\ Len(out[f]) \in Nat
           /\ port'.obf = out[f][1] /\ port'.obf \in Bytes(f) /\ port.obf = Empty
           /\ \A i \in Nat : /\ There(f, i)' <=> There(f, i + 1)
                             /\ There(f, i)' => Pend(f, i)' = Pend(f, i + 1)
           /\ \A g \in Ports : g # f =>
                  /\ out'[g] = out[g] /\ ~There(g, 0) /\ ~There(g, 0)'
                  /\ \A i \in Nat : /\ There(g, i)' <=> There(g, i)
                                    /\ There(g, i)' => Pend(g, i)' = Pend(g, i)
<1>1. out[f] \in Seq(Bytes(f)) /\ out[f] # <<>> /\ port.obf = Empty
  BY DEF Arrive, PsType, Ports
<1>2. out'[f] = Tail(out[f]) /\ \A g \in Ports : g # f => out'[g] = out[g]
  BY DEF Arrive, PsType, Ports
<1>3. port'.obf = Head(out[f])
  BY DEF Arrive, PsType
<1>4. /\ Head(out[f]) = out[f][1] /\ Head(out[f]) \in Bytes(f) /\ Len(out[f]) \in Nat \ {0}
      /\ Tail(out[f]) \in Seq(Bytes(f)) /\ Len(Tail(out[f])) = Len(out[f]) - 1
      /\ \A i \in 1..Len(Tail(out[f])) : Tail(out[f])[i] = out[f][i + 1]
  BY <1>1, HeadTailProperties, EmptySeq
<1>5. port'.obf.from = f /\ port.obf.from \notin Ports
  BY <1>1, <1>3, <1>4 DEF Bytes, Empty, Ports
<1>6. ASSUME NEW i \in Nat
      PROVE  (There(f, i)' <=> There(f, i + 1)) /\ (There(f, i)' => Pend(f, i)' = Pend(f, i + 1))
  BY <1>2, <1>3, <1>4, <1>5 DEF There, Pend
<1>7. ASSUME NEW g \in Ports, g # f
      PROVE  /\ ~There(g, 0) /\ ~There(g, 0)'
             /\ \A i \in Nat : /\ There(g, i)' <=> There(g, i)
                               /\ There(g, i)' => Pend(g, i)' = Pend(g, i)
  <2>1. Len(out[g]) \in Nat
    BY <1>7 DEF PsType, Ports
  <2> QED
    BY <1>2, <1>5, <1>7, <2>1 DEF There, Pend
<1> QED
  BY <1>1, <1>2, <1>3, <1>4, <1>6, <1>7

LEMMA ArriveKeeps ==
    ASSUME PsInv, NEW f \in Ports, Arrive(f)
    PROVE  PsInv'
<1> USE DEF PsInv
<1>1. UNCHANGED <<ctr, todo, cmd>>
  BY DEF Arrive
<1>2. PsType'
  <2>1. port'.obf \in AllBytes
    BY Moved DEF AllBytes, Ports
  <2>2. port'.ctr = port.ctr /\ port'.irq \in SUBSET Ports /\ port' = [ctr |-> port'.ctr, obf |-> port'.obf, irq |-> port'.irq]
    BY DEF Arrive, PsType
  <2>3. out' \in [kbd : Seq(Bytes("kbd")), aux : Seq(Bytes("aux")), scan : BOOLEAN, stream : BOOLEAN]
    <3>1. out'[f] \in Seq(Bytes(f))
      BY Moved
    <3>2. out' = [out EXCEPT ![f] = out'[f]]
      BY DEF Arrive, PsType, Ports
    <3>3. CASE f = "kbd"
      BY <3>1, <3>2, <3>3 DEF PsType
    <3>4. CASE f = "aux"
      BY <3>1, <3>2, <3>4 DEF PsType
    <3> QED
      BY <3>3, <3>4 DEF Ports
  <2> QED
    BY <1>1, <2>1, <2>2, <2>3 DEF PsType
<1>3. IrqOwn'
  <2>1. port.irq = {}
    <3>1. port.obf.from = "none"
      BY Moved DEF Empty
    <3>2. port.irq \subseteq Ports
      BY DEF PsType
    <3> QED
      BY <3>1, <3>2 DEF IrqOwn, Ports
  <2>2. port'.obf.from = f
    BY Moved DEF Bytes
  <2>3. /\ port'.ctr = port.ctr /\ port'.irq \subseteq {f}
        /\ port'.irq # {} => IntOf(f) \in port.ctr
    BY <2>1 DEF Arrive, PsType
  <2>4. IntOf(f) \in Ints
    BY DEF IntOf, Ints
  <2> QED
    BY <1>1, <2>2, <2>3, <2>4 DEF IrqOwn
<1>4. CtrRight'
  <2>1. port'.ctr = port.ctr
    BY DEF Arrive, PsType
  <2> QED
    BY <1>1, <2>1 DEF CtrRight, Sound
<1>5. GotLens' /\ GotOwn'
  BY <1>1 DEF GotLens, GotOwn, Sends, Recvs, To
<1>6. OneAnswer'
  <2> SUFFICES ASSUME ~cmd.late, NEW t \in Ports
               PROVE  /\ t # To \/ cmd.pc \notin {"ack", "recv"} => Quiet(t)'
                      /\ t = To /\ cmd.pc = "ack" => Quiet(t)' \/ \E a \in Nat : AnswerAt(t, a)'
                      /\ t = To /\ cmd.pc = "recv" => DataNow(t)'
    BY <1>1 DEF OneAnswer, To
  <2>1. Params' = Params /\ Left' = Left /\ cmd'.n = cmd.n /\ Params \in Nat /\ Left \in Int
    BY <1>1, CmdNumbers DEF Sends, Recvs, Params, Left
  <2>2. Quiet(t) => Quiet(t)'
    BY Moved DEF Quiet
  <2>3. ASSUME NEW a \in Nat, AnswerAt(t, a) PROVE \E b \in Nat : AnswerAt(t, b)'
    <3>1. CASE f = t
      <4>1. ~There(t, 0)
        BY <3>1, Moved DEF There, Empty, Ports
      <4>2. PICK b \in Nat : a = b + 1
        <5>1. a - 1 \in Nat /\ a = (a - 1) + 1
          BY <2>3, <4>1 DEF AnswerAt
        <5> QED
          BY <5>1
      <4>3. There(t, b)' /\ Pend(t, b)' = Pend(t, a)
        BY <2>3, <3>1, <4>2, Moved DEF AnswerAt
      <4>4. Span(t, b)' = Span(t, a) /\ Span(t, a) \in Nat
        BY <2>1, <4>3 DEF Span
      <4>5. AnswerAt(t, b)'
        <5>1. b + Span(t, b)' <= Len(out'[t])
          <6>1. Len(out'[t]) = Len(out[t]) - 1 /\ Len(out[t]) \in Nat
            BY <3>1, Moved
          <6>2. a + Span(t, a) <= Len(out[t])
            BY <2>3 DEF AnswerAt
          <6> QED
            BY <4>2, <4>4, <6>1, <6>2
        <5>2. ASSUME NEW i \in Nat, There(t, i)', i # b
              PROVE  IF b < i /\ i <= b + Span(t, b)' THEN Pend(t, i)' = Byte(t, "data", cmd.n)
                     ELSE Pend(t, i)'.kind \in {"code", "move"}
          <6>1. There(t, i + 1) /\ Pend(t, i)' = Pend(t, i + 1) /\ i + 1 \in Nat /\ i + 1 # a
            BY <3>1, <4>2, <5>2, Moved
          <6>2. IF a < i + 1 /\ i + 1 <= a + Span(t, a) THEN Pend(t, i + 1) = Byte(t, "data", cmd.n)
                ELSE Pend(t, i + 1).kind \in {"code", "move"}
            BY <2>3, <6>1 DEF AnswerAt
          <6> QED
            BY <4>2, <4>4, <6>1, <6>2
        <5> QED
          BY <2>1, <2>3, <4>3, <5>1, <5>2 DEF AnswerAt
      <4> QED
        BY <4>5
    <3>2. CASE f # t
      <4>1. Pend(t, a)' = Pend(t, a) /\ Span(t, a)' = Span(t, a)
        BY <2>1, <2>3, <3>2, Moved DEF Span, AnswerAt
      <4>2. AnswerAt(t, a)'
        BY <2>1, <2>3, <3>2, <4>1, Moved DEF AnswerAt
      <4> QED
        BY <4>2
    <3> QED
      BY <3>1, <3>2
  <2>4. ASSUME DataNow(t) PROVE DataNow(t)'
    <3>1. First(t) = 1 /\ First(t)' = (IF f = t THEN 0 ELSE 1)
      BY Moved DEF First, Empty, Bytes, Ports
    <3>2. CASE f = t
      <4>1. First(t)' + Left - 1 <= Len(out'[t])
        <5>1. Len(out'[t]) = Len(out[t]) - 1 /\ Len(out[t]) \in Nat
          BY <3>2, Moved
        <5>2. First(t) + Left - 1 <= Len(out[t])
          BY <2>4 DEF DataNow
        <5> QED
          BY <2>1, <3>1, <3>2, <5>1, <5>2
      <4>2. ASSUME NEW i \in Nat, There(t, i)'
            PROVE  IF i < First(t)' + Left THEN Pend(t, i)' = Byte(t, "data", cmd.n)
                   ELSE Pend(t, i)'.kind \in {"code", "move"}
        <5>1. There(t, i + 1) /\ Pend(t, i)' = Pend(t, i + 1) /\ i + 1 \in Nat
          BY <3>2, <4>2, Moved
        <5>2. IF i + 1 < First(t) + Left THEN Pend(t, i + 1) = Byte(t, "data", cmd.n)
              ELSE Pend(t, i + 1).kind \in {"code", "move"}
          BY <2>4, <5>1 DEF DataNow
        <5> QED
          BY <2>1, <3>1, <3>2, <5>1, <5>2
      <4> QED
        BY <2>1, <4>1, <4>2 DEF DataNow
    <3>3. CASE f # t
      BY <2>1, <2>4, <3>1, <3>3, Moved DEF DataNow
    <3> QED
      BY <3>2, <3>3
  <2> QED
    BY <2>2, <2>3, <2>4 DEF OneAnswer
<1> QED
  BY <1>2, <1>3, <1>4, <1>5, <1>6

\* Keys and moves go to the end of a queue.
LEMMA AppendKeeps ==
    ASSUME PsInv, NEW f \in Ports, NEW q \in Seq(Bytes(f)),
           \A i \in 1..Len(q) : q[i].kind \in {"code", "move"},
           out' = [out EXCEPT ![f] = @ \o q], UNCHANGED <<port, ctr, todo, cmd>>
    PROVE  PsInv'
<1> USE DEF PsInv
<1>1. out'[f] = out[f] \o q /\ \A g \in Ports : g # f => out'[g] = out[g]
  BY DEF PsType, Ports
<1>2. /\ out'[f] \in Seq(Bytes(f)) /\ Len(out'[f]) = Len(out[f]) + Len(q)
      /\ Len(out[f]) \in Nat /\ Len(q) \in Nat
      /\ \A i \in 1..Len(out[f]) : out'[f][i] = out[f][i]
      /\ \A i \in 1..Len(q) : out'[f][Len(out[f]) + i] = q[i]
  BY <1>1, Grown
<1>3. PsType'
  <2>1. out' \in [kbd : Seq(Bytes("kbd")), aux : Seq(Bytes("aux")), scan : BOOLEAN, stream : BOOLEAN]
    <3>1. out' = [out EXCEPT ![f] = out'[f]]
      BY <1>1
    <3>2. CASE f = "kbd"
      BY <1>2, <3>1, <3>2 DEF PsType
    <3>3. CASE f = "aux"
      BY <1>2, <3>1, <3>3 DEF PsType
    <3> QED
      BY <3>2, <3>3 DEF Ports
  <2> QED
    BY <2>1 DEF PsType
<1>4. IrqOwn' /\ CtrRight' /\ GotLens' /\ GotOwn'
  BY DEF IrqOwn, CtrRight, Sound, GotLens, GotOwn, Sends, Recvs, To
<1>5. ASSUME NEW i \in Nat, There(f, i)'
      PROVE  \/ There(f, i) /\ Pend(f, i)' = Pend(f, i) /\ (i = 0 \/ i <= Len(out[f]))
             \/ ~There(f, i) /\ i > Len(out[f]) /\ Pend(f, i)'.kind \in {"code", "move"}
  <2>1. CASE i = 0
    BY <1>5, <2>1, <1>2 DEF There, Pend
  <2>2. CASE i \in 1..Len(out[f])
    BY <1>2, <2>2 DEF There, Pend
  <2>3. CASE i \in (Len(out[f]) + 1)..(Len(out[f]) + Len(q))
    <3>1. i - Len(out[f]) \in 1..Len(q) /\ i = Len(out[f]) + (i - Len(out[f]))
      BY <1>2, <2>3
    <3>2. out'[f][i] = q[i - Len(out[f])]
      BY <1>2, <3>1
    <3> QED
      BY <1>2, <2>3, <3>1, <3>2 DEF There, Pend
  <2> QED
    BY <1>2, <1>5, <2>1, <2>2, <2>3 DEF There
<1>6. \A i \in Nat : There(f, i) => There(f, i)' /\ Pend(f, i)' = Pend(f, i)
  BY <1>2 DEF There, Pend
<1>7. \A g \in Ports : g # f =>
          \A i \in Nat : (There(g, i)' <=> There(g, i)) /\ Pend(g, i)' = Pend(g, i)
  BY <1>1 DEF There, Pend
<1>8. OneAnswer'
  <2> SUFFICES ASSUME ~cmd.late, NEW t \in Ports
               PROVE  /\ t # To \/ cmd.pc \notin {"ack", "recv"} => Quiet(t)'
                      /\ t = To /\ cmd.pc = "ack" => Quiet(t)' \/ \E a \in Nat : AnswerAt(t, a)'
                      /\ t = To /\ cmd.pc = "recv" => DataNow(t)'
    BY DEF OneAnswer, To
  <2>1. Params' = Params /\ Left' = Left /\ Params \in Nat /\ Left \in Int
    BY CmdNumbers DEF Sends, Recvs, Params, Left
  <2>2. CASE t = f
    <3>1. Quiet(t) => Quiet(t)'
      BY <1>5, <2>2 DEF Quiet
    <3>2. ASSUME NEW a \in Nat, AnswerAt(t, a) PROVE AnswerAt(t, a)'
      <4>1. There(t, a)' /\ Pend(t, a)' = Pend(t, a) /\ There(t, a)
        BY <1>6, <2>2, <3>2 DEF AnswerAt
      <4>2. Span(t, a)' = Span(t, a) /\ Span(t, a) \in Nat
        BY <2>1, <4>1 DEF Span
      <4>3. a + Span(t, a) <= Len(out[t]) /\ Len(out[t]) \in Nat
        BY <1>2, <2>2, <3>2 DEF AnswerAt
      <4>4. a + Span(t, a) <= Len(out'[t])
        BY <1>2, <2>2, <4>2, <4>3
      <4>5. ASSUME NEW i \in Nat, There(t, i)', i # a
            PROVE  IF a < i /\ i <= a + Span(t, a) THEN Pend(t, i)' = Byte(t, "data", cmd.n)
                   ELSE Pend(t, i)'.kind \in {"code", "move"}
        <5>1. CASE There(t, i) /\ Pend(t, i)' = Pend(t, i)
          BY <3>2, <4>5, <5>1 DEF AnswerAt
        <5>2. CASE i > Len(out[t]) /\ Pend(t, i)'.kind \in {"code", "move"}
          BY <4>2, <4>3, <5>2
        <5> QED
          BY <1>5, <2>2, <4>5, <5>1, <5>2
      <4> QED
        BY <3>2, <4>1, <4>2, <4>4, <4>5 DEF AnswerAt
    <3>3. ASSUME DataNow(t) PROVE DataNow(t)'
      <4>1. First(t)' = First(t) /\ First(t) \in {0, 1}
        BY DEF First
      <4>2. First(t) + Left - 1 <= Len(out[t]) /\ Len(out[t]) \in Nat
        BY <1>2, <2>2, <3>3 DEF DataNow
      <4>3. First(t) + Left - 1 <= Len(out'[t])
        BY <1>2, <2>1, <2>2, <4>1, <4>2
      <4>4. ASSUME NEW i \in Nat, There(t, i)'
            PROVE  IF i < First(t) + Left THEN Pend(t, i)' = Byte(t, "data", cmd.n)
                   ELSE Pend(t, i)'.kind \in {"code", "move"}
        <5>1. CASE There(t, i) /\ Pend(t, i)' = Pend(t, i)
          BY <3>3, <5>1 DEF DataNow
        <5>2. CASE i > Len(out[t]) /\ Pend(t, i)'.kind \in {"code", "move"}
          BY <2>1, <4>1, <4>2, <5>2
        <5> QED
          BY <1>5, <2>2, <4>4, <5>1, <5>2
      <4> QED
        BY <2>1, <4>1, <4>3, <4>4 DEF DataNow
    <3> QED
      BY <3>1, <3>2, <3>3 DEF OneAnswer
  <2>3. CASE t # f
    <3>1. Quiet(t) => Quiet(t)'
      BY <1>7, <2>3 DEF Quiet
    <3>2. ASSUME NEW a \in Nat, AnswerAt(t, a) PROVE AnswerAt(t, a)'
      BY <1>1, <1>7, <2>1, <2>3, <3>2 DEF AnswerAt, Span
    <3>3. ASSUME DataNow(t) PROVE DataNow(t)'
      BY <1>1, <1>7, <2>1, <2>3, <3>3 DEF DataNow, First
    <3> QED
      BY <3>1, <3>2, <3>3 DEF OneAnswer
  <2> QED
    BY <2>2, <2>3
<1> QED
  BY <1>3, <1>4, <1>8

LEMMA TypeKeeps ==
    ASSUME PsInv, NEW k \in PsKeys, Type(k)
    PROVE  PsInv'
<1> DEFINE p == Codes2(k, FALSE)
           r == Codes2(k, TRUE)
<1>1. /\ p \in Seq(Bytes("kbd")) /\ r \in Seq(Bytes("kbd"))
      /\ \A i \in 1..Len(p) : p[i].kind = "code"
      /\ \A i \in 1..Len(r) : r[i].kind = "code"
  BY CodesType
<1>2. out.kbd \in Seq(Bytes("kbd")) /\ UNCHANGED <<port, ctr, todo, cmd>>
      /\ out' = [out EXCEPT !["kbd"] = (out.kbd \o p) \o r]
  BY DEF PsInv, PsType, Type
<1> HIDE DEF p, r
<1>3. (out.kbd \o p) \o r = out.kbd \o (p \o r)
  <2>1. \A S : \A x, y, z \in Seq(S) : (x \o y) \o z = x \o (y \o z)
    BY ConcatAssociative
  <2> QED
    <3>1. out.kbd \in Seq(Bytes("kbd")) /\ p \in Seq(Bytes("kbd")) /\ r \in Seq(Bytes("kbd"))
      BY <1>1, <1>2
    <3>2. \A x, y, z \in Seq(Bytes("kbd")) : (x \o y) \o z = x \o (y \o z)
      BY <2>1
    <3> QED
      BY <3>1, <3>2, Zenon
<1>4. p \o r \in Seq(Bytes("kbd")) /\ Len(p \o r) = Len(p) + Len(r) /\ Len(p) \in Nat /\ Len(r) \in Nat
      /\ \A i \in 1..(Len(p) + Len(r)) : (p \o r)[i] = IF i <= Len(p) THEN p[i] ELSE r[i - Len(p)]
  BY <1>1, ConcatProperties, LenProperties
<1>5. \A i \in 1..Len(p \o r) : (p \o r)[i].kind \in {"code", "move"}
  BY <1>1, <1>4
<1>6. "kbd" \in Ports /\ out' = [out EXCEPT !["kbd"] = @ \o (p \o r)]
  BY <1>2, <1>3 DEF Ports
<1> QED
  BY <1>2, <1>4, <1>5, <1>6, AppendKeeps

LEMMA MoveKeeps ==
    ASSUME PsInv, Move
    PROVE  PsInv'
<1> DEFINE q == [i \in 1 .. 3 |-> Byte("aux", "move", i)]
<1>1. \A i \in 1..3 : Byte("aux", "move", i) \in Bytes("aux")
  BY DEF Byte, Bytes, Vals
<1>2. q \in Seq(Bytes("aux")) /\ Len(q) = 3 /\ \A i \in 1..Len(q) : q[i].kind \in {"code", "move"}
  BY <1>1 DEF Byte
<1>3. out' = [out EXCEPT !["aux"] = @ \o q] /\ UNCHANGED <<port, ctr, todo, cmd>> /\ "aux" \in Ports
  BY DEF Move, Ports
<1> HIDE DEF q
<1> QED
  BY <1>2, <1>3, AppendKeeps

-----------------------------------------------------------------------------
(* The interrupt handlers *)

\* The buffer is emptied.
LEMMA Dropped ==
    ASSUME PsType, port'.obf = Empty, out' = out, NEW t \in Ports, NEW i \in Nat
    PROVE  (There(t, i)' <=> There(t, i) /\ i # 0) /\ (There(t, i)' => Pend(t, i)' = Pend(t, i))
<1>1. Empty.from \notin Ports
  BY DEF Empty, Ports
<1>2. Len(out[t]) \in Nat
  BY LenProperties DEF PsType, Ports
<1> QED
  BY <1>1, <1>2 DEF There, Pend

\* Interrupts are served when no command reads the buffer.
LEMMA ServeKeeps ==
    ASSUME PsInv, port.irq # {}, UNCHANGED <<out, ctr, todo, cmd>>,
           NEW c \in {port.ctr, port.ctr \ {"KBDDIS"}}, c # port.ctr => "KBDINT" \in ctr,
           port' = [ctr |-> c, obf |-> Empty, irq |-> {}]
    PROVE  PsInv'
<1> USE DEF PsInv
<1>1. cmd.pc \in {"off", "yield"}
  BY DEF IrqOwn, PsType
<1>2. PsType'
  BY DEF PsType
<1>3. IrqOwn'
  BY DEF IrqOwn
<1>4. CtrRight'
  BY DEF CtrRight, Sound
<1>5. GotLens' /\ GotOwn'
  BY DEF GotLens, GotOwn, Sends, Recvs, To
<1>6. OneAnswer'
  <2>1. ASSUME NEW t \in Ports, Quiet(t) PROVE Quiet(t)'
    BY <2>1, Dropped DEF Quiet
  <2> QED
    BY <1>1, <2>1 DEF OneAnswer
<1> QED
  BY <1>2, <1>3, <1>4, <1>5, <1>6

LEMMA HandleKeeps ==
    ASSUME PsInv, Handle09 \/ Handle74
    PROVE  PsInv'
<1>1. port = [ctr |-> port.ctr, obf |-> port.obf, irq |-> port.irq] /\ UNCHANGED <<out, ctr, todo, cmd>>
  BY DEF Handle09, Handle74, PsInv, PsType
<1>2. ASSUME NEW i \in Ports, i \in port.irq PROVE port.obf.from = i /\ port.irq \ {i} = {}
  BY <1>2 DEF PsInv, IrqOwn
<1>3. CASE Handle09
  <2> DEFINE c == IF "KBDINT" \in ctr THEN port.ctr \ {"KBDDIS"} ELSE port.ctr
  <2>1. "kbd" \in port.irq /\ port.obf.from = "kbd" /\ port.irq \ {"kbd"} = {}
    BY <1>2, <1>3 DEF Handle09, Ports
  <2>2. port' = [ctr |-> c, obf |-> Empty, irq |-> {}]
    BY <1>1, <1>3, <2>1 DEF Handle09
  <2>3. c \in {port.ctr, port.ctr \ {"KBDDIS"}} /\ (c # port.ctr => "KBDINT" \in ctr)
    OBVIOUS
  <2> HIDE DEF c
  <2> QED
    BY <1>1, <2>1, <2>2, <2>3, ServeKeeps
<1>4. CASE Handle74
  <2>1. "aux" \in port.irq /\ port.obf.from = "aux" /\ port.irq \ {"aux"} = {}
    BY <1>2, <1>4 DEF Handle74, Ports
  <2>2. port' = [ctr |-> port.ctr, obf |-> Empty, irq |-> {}]
    BY <1>1, <1>4, <2>1 DEF Handle74
  <2> QED
    BY <1>1, <2>1, <2>2, ServeKeeps
<1> QED
  BY <1>3, <1>4

-----------------------------------------------------------------------------
(* The commands *)

\* The register that is written: no interrupt is raised but that of the byte which waits.
LEMMA WrittenIs ==
    ASSUME PsInv, NEW c \in SUBSET (Off \union Ints)
    PROVE  /\ Written(c) \in [ctr : SUBSET (Off \union Ints), obf : AllBytes \union {Empty}, irq : SUBSET Ports]
           /\ Written(c).ctr = c /\ Written(c).obf = port.obf
           /\ \A i \in Written(c).irq : port.obf.from = i
           /\ c \cap Ints = {} => Written(c).irq = port.irq
<1> DEFINE more == (IF port.obf.from = "kbd" /\ "KBDINT" \in c /\ "KBDINT" \notin port.ctr THEN {"kbd"} ELSE {})
                   \union (IF port.obf.from = "aux" /\ "AUXINT" \in c /\ "AUXINT" \notin port.ctr THEN {"aux"} ELSE {})
<1>1. port \in [ctr : SUBSET (Off \union Ints), obf : AllBytes \union {Empty}, irq : SUBSET Ports]
  BY DEF PsInv, PsType
<1>2. Written(c) = [ctr |-> c, obf |-> port.obf, irq |-> port.irq \union more]
  <2> DEFINE k == IF port.obf.from = "kbd" /\ "KBDINT" \in c /\ "KBDINT" \notin port.ctr THEN {"kbd"} ELSE {}
             a == IF port.obf.from = "aux" /\ "AUXINT" \in c /\ "AUXINT" \notin port.ctr THEN {"aux"} ELSE {}
  <2>1. Written(c) = [port EXCEPT !.ctr = c, !.irq = @ \union k \union a]
    BY DEF Written
  <2>2. port.irq \union k \union a = port.irq \union more
    OBVIOUS
  <2> HIDE DEF k, a, more
  <2> QED
    BY <1>1, <2>1, <2>2
<1>3. more \subseteq Ports /\ (\A i \in more : port.obf.from = i) /\ (c \cap Ints = {} => more = {})
  BY DEF Ports, Ints
<1>4. \A i \in port.irq : port.obf.from = i
  BY DEF PsInv, IrqOwn
<1> HIDE DEF more
<1> QED
  BY <1>1, <1>2, <1>3, <1>4

\* Only the command changes.
LEMMA SameBytes ==
    ASSUME out' = out, port'.obf = port.obf, NEW t
    PROVE  /\ \A i : (There(t, i)' <=> There(t, i)) /\ Pend(t, i)' = Pend(t, i)
           /\ Quiet(t)' <=> Quiet(t)
BY DEF There, Pend, Quiet

\* A command begins when nothing of an earlier one is on its way.
LEMMA BeginKeeps ==
    ASSUME PsInv, NEW name \in DOMAIN Commands, NEW c \in SUBSET (Off \union Ints), Sound(c),
           PsBegin(name, c), todo' \in Seq(DOMAIN Commands)
    PROVE  PsInv'
<1> USE DEF PsInv
<1>1. cmd.pc = "off" /\ ctr' = c /\ out' = out
  BY DEF PsBegin
<1>2. ~cmd.late => \A t \in Ports : Quiet(t)
  BY <1>1 DEF OneAnswer
<1>3. CASE /\ port' = Written((c \union Off) \ Ints)
           /\ cmd' = [cmd EXCEPT !.pc = "yield", !.name = name, !.n = @ + 1, !.saved = c, !.sent = 0, !.got = <<>>]
  <2>1. /\ cmd'.pc = "yield" /\ cmd'.saved = c /\ cmd'.sent = 0 /\ cmd'.got = <<>> /\ cmd'.late = cmd.late
        /\ cmd'.name = name
    BY <1>3 DEF PsType
  <2>2. (c \union Off) \ Ints \in SUBSET (Off \union Ints) /\ ((c \union Off) \ Ints) \cap Ints = {}
    BY DEF Off, Ints
  <2>3. /\ port' \in [ctr : SUBSET (Off \union Ints), obf : AllBytes \union {Empty}, irq : SUBSET Ports]
        /\ port'.ctr \cap Ints = {} /\ port'.obf = port.obf /\ port'.irq = port.irq
    BY <1>3, <2>2, WrittenIs
  <2>4. PsType'
    <3> DEFINE k1 == [cmd EXCEPT !.pc = "yield"]
               k2 == [k1 EXCEPT !.name = name]
               k3 == [k2 EXCEPT !.n = @ + 1]
               k4 == [k3 EXCEPT !.saved = c]
               k5 == [k4 EXCEPT !.sent = 0]
               k6 == [k5 EXCEPT !.got = <<>>]
    <3>1. cmd' = k6
      BY <1>3, Zenon
    <3>2. k1 \in CmdSet
      BY CmdFields DEF PsType, Phases
    <3> HIDE DEF k1
    <3>3. k2 \in CmdSet
      BY <3>2, CmdFields, Zenon
    <3> HIDE DEF k2
    <3>4. k3 \in CmdSet
      <4>1. k2.n + 1 \in Nat
        BY <3>3, CmdFields
      <4> QED
        BY <3>3, <4>1, CmdFields, Zenon
    <3> HIDE DEF k3
    <3>5. k4 \in CmdSet
      BY <3>4, CmdFields, Zenon
    <3> HIDE DEF k4
    <3>6. k5 \in CmdSet
      BY <3>5, CmdFields
    <3> HIDE DEF k5
    <3>7. k6 \in CmdSet
      <4>1. <<>> \in Seq(AllBytes)
        OBVIOUS
      <4> QED
        BY <3>6, <4>1, CmdFields, Zenon
    <3>8. cmd' \in CmdSet
      BY <3>1, <3>7
    <3> HIDE DEF k6
    <3> QED
      BY <1>1, <2>3, <3>8, Zenon DEF PsType
  <2>5. IrqOwn' /\ CtrRight'
    BY <1>1, <2>1, <2>3 DEF IrqOwn, CtrRight, Sound
  <2>6. GotLens' /\ GotOwn'
    <3>1. Sends' \in Nat
      BY <2>1, CommandsType DEF Sends
    <3> QED
      BY <2>1, <3>1 DEF GotLens, GotOwn
  <2>7. OneAnswer'
    BY <1>1, <1>2, <2>1, <2>3, SameBytes DEF OneAnswer
  <2> QED
    BY <2>4, <2>5, <2>6, <2>7
<1>4. CASE /\ port' = port
           /\ cmd' = [cmd EXCEPT !.name = name, !.n = @ + 1, !.got = <<>>, !.ok = FALSE, !.wrote = FALSE]
  <2>1. cmd'.pc = "off" /\ cmd'.saved = cmd.saved /\ cmd'.got = <<>> /\ cmd'.late = cmd.late /\ cmd'.wrote = FALSE
    BY <1>1, <1>4 DEF PsType
  <2>2. PsType'
    <3> DEFINE k1 == [cmd EXCEPT !.name = name]
               k2 == [k1 EXCEPT !.n = @ + 1]
               k3 == [k2 EXCEPT !.got = <<>>]
               k4 == [k3 EXCEPT !.ok = FALSE]
               k5 == [k4 EXCEPT !.wrote = FALSE]
    <3>1. cmd' = k5
      BY <1>4, Zenon
    <3>2. k1 \in CmdSet
      BY CmdFields DEF PsType
    <3> HIDE DEF k1
    <3>3. k2 \in CmdSet
      <4>1. k1.n + 1 \in Nat
        BY <3>2, CmdFields
      <4> QED
        BY <3>2, <4>1, CmdFields, Zenon
    <3> HIDE DEF k2
    <3>4. k3 \in CmdSet
      <4>1. <<>> \in Seq(AllBytes)
        OBVIOUS
      <4> QED
        BY <3>3, <4>1, CmdFields, Zenon
    <3> HIDE DEF k3
    <3>5. k4 \in CmdSet
      BY <3>4, CmdFields, Zenon
    <3> HIDE DEF k4
    <3>6. k5 \in CmdSet
      BY <3>5, CmdFields, Zenon
    <3>7. cmd' \in CmdSet
      BY <3>1, <3>6
    <3> HIDE DEF k5
    <3> QED
      BY <1>1, <1>4, <3>7, Zenon DEF PsType
  <2>3. IrqOwn' /\ CtrRight'
    BY <1>1, <1>4, <2>1 DEF IrqOwn, CtrRight, Sound
  <2>4. GotLens' /\ GotOwn'
    BY <2>1 DEF GotLens, GotOwn
  <2>5. OneAnswer'
    BY <1>1, <1>2, <1>4, <2>1, SameBytes DEF OneAnswer
  <2> QED
    BY <2>2, <2>3, <2>4, <2>5
<1> QED
  BY <1>3, <1>4 DEF PsBegin

LEMMA SetupKeeps ==
    ASSUME PsInv, Setup
    PROVE  PsInv'
<1> DEFINE c == IF Len(todo) = 1 THEN {"AUXDIS", "KBDINT"} ELSE ctr
<1>1. todo \in Seq(DOMAIN Commands) /\ todo # <<>> /\ PsBegin(Head(todo), c) /\ todo' = Tail(todo)
  BY DEF PsInv, PsType, Setup
<1>2. Head(todo) \in DOMAIN Commands /\ todo' \in Seq(DOMAIN Commands)
  BY <1>1, HeadTailProperties
<1>3. c \in SUBSET (Off \union Ints) /\ Sound(c)
  BY DEF PsInv, PsType, CtrRight, Sound, Off, Ints
<1> HIDE DEF c
<1> QED
  BY <1>1, <1>2, <1>3, BeginKeeps

LEMMA IssueKeeps ==
    ASSUME PsInv,
           NEW name \in {"SETLEDS", "KGETID", "MENABLE", "MDISABLE", "SETRATE", "GETINFO"}, Issue(name)
    PROVE  PsInv'
<1>1. PsBegin(name, MouseCtr(name)) /\ todo' \in Seq(DOMAIN Commands)
  BY DEF PsInv, PsType, Issue
<1>2. MouseCtr(name) \in SUBSET (Off \union Ints) /\ Sound(MouseCtr(name))
  BY DEF PsInv, PsType, CtrRight, Sound, Off, Ints, MouseCtr
<1>3. name \in DOMAIN Commands
  BY CommandsType
<1> QED
  BY <1>1, <1>2, <1>3, BeginKeeps

LEMMA MouseInitKeeps ==
    ASSUME PsInv, MouseInit
    PROVE  PsInv'
<1>1. PsBegin("MRESET", ctr) /\ todo' \in Seq(DOMAIN Commands)
  BY DEF PsInv, PsType, MouseInit
<1>2. ctr \in SUBSET (Off \union Ints) /\ Sound(ctr)
  BY DEF PsInv, PsType, CtrRight
<1>3. "MRESET" \in DOMAIN Commands
  BY CommandsType
<1> QED
  BY <1>1, <1>2, <1>3, BeginKeeps

\* What a command does to its record.
LEMMA CmdSteps ==
    ASSUME NEW r \in CmdSet, NEW p \in Phases
    PROVE  /\ [r EXCEPT !.pc = p] \in CmdSet
           /\ \A b \in BOOLEAN : [r EXCEPT !.pc = p, !.ok = b] \in CmdSet
           /\ \A b \in BOOLEAN : [r EXCEPT !.pc = p, !.wrote = b] \in CmdSet
           /\ \A b, w \in BOOLEAN : [r EXCEPT !.pc = p, !.ok = b, !.wrote = w] \in CmdSet
           /\ \A b, w \in BOOLEAN : [r EXCEPT !.pc = p, !.ok = b, !.late = w] \in CmdSet
           /\ \A g \in Seq(AllBytes) : [r EXCEPT !.pc = p, !.got = g] \in CmdSet
           /\ \A g \in Seq(AllBytes), b \in BOOLEAN : [r EXCEPT !.pc = p, !.got = g, !.ok = b] \in CmdSet
           /\ \A g \in Seq(AllBytes), b \in BOOLEAN : [r EXCEPT !.got = g, !.pc = p, !.ok = b] \in CmdSet
           /\ \A g \in Seq(AllBytes), n \in Nat : [r EXCEPT !.pc = p, !.sent = n, !.got = g] \in CmdSet
<1>1. PICK s \in CmdSet : s = [r EXCEPT !.pc = p]
  BY CmdFields, Zenon
<1>2. ASSUME NEW b \in BOOLEAN
      PROVE  [r EXCEPT !.pc = p, !.ok = b] \in CmdSet /\ [r EXCEPT !.pc = p, !.wrote = b] \in CmdSet
  <2>1. [s EXCEPT !.ok = b] \in CmdSet /\ [s EXCEPT !.wrote = b] \in CmdSet
    BY CmdFields, Zenon
  <2>2. /\ [r EXCEPT !.pc = p, !.ok = b] = [[r EXCEPT !.pc = p] EXCEPT !.ok = b]
        /\ [r EXCEPT !.pc = p, !.wrote = b] = [[r EXCEPT !.pc = p] EXCEPT !.wrote = b]
    BY Zenon
  <2> QED
    BY <1>1, <2>1, <2>2, Zenon
<1>3. ASSUME NEW b \in BOOLEAN, NEW w \in BOOLEAN
      PROVE  /\ [r EXCEPT !.pc = p, !.ok = b, !.wrote = w] \in CmdSet
             /\ [r EXCEPT !.pc = p, !.ok = b, !.late = w] \in CmdSet
  <2>1. [[r EXCEPT !.pc = p, !.ok = b] EXCEPT !.wrote = w] \in CmdSet
        /\ [[r EXCEPT !.pc = p, !.ok = b] EXCEPT !.late = w] \in CmdSet
    BY <1>2, CmdFields, Zenon
  <2>2. /\ [r EXCEPT !.pc = p, !.ok = b, !.wrote = w] = [[r EXCEPT !.pc = p, !.ok = b] EXCEPT !.wrote = w]
        /\ [r EXCEPT !.pc = p, !.ok = b, !.late = w] = [[r EXCEPT !.pc = p, !.ok = b] EXCEPT !.late = w]
    BY Zenon
  <2> QED
    BY <2>1, <2>2, Zenon
<1>4. ASSUME NEW g \in Seq(AllBytes) PROVE [r EXCEPT !.pc = p, !.got = g] \in CmdSet
  <2>1. [s EXCEPT !.got = g] \in CmdSet
    BY CmdFields, Zenon
  <2>2. [r EXCEPT !.pc = p, !.got = g] = [[r EXCEPT !.pc = p] EXCEPT !.got = g]
    BY Zenon
  <2> QED
    BY <1>1, <2>1, <2>2, Zenon
<1>5. ASSUME NEW g \in Seq(AllBytes), NEW b \in BOOLEAN
      PROVE  [r EXCEPT !.pc = p, !.got = g, !.ok = b] \in CmdSet /\ [r EXCEPT !.got = g, !.pc = p, !.ok = b] \in CmdSet
  <2>1. [[r EXCEPT !.pc = p, !.got = g] EXCEPT !.ok = b] \in CmdSet
    BY <1>4, CmdFields, Zenon
  <2>2. [r EXCEPT !.pc = p, !.got = g, !.ok = b] = [[r EXCEPT !.pc = p, !.got = g] EXCEPT !.ok = b]
    BY Zenon
  <2>3. [r EXCEPT !.got = g] \in CmdSet
    BY CmdFields, Zenon
  <2>4. [[r EXCEPT !.got = g] EXCEPT !.pc = p] \in CmdSet
    BY <2>3, CmdFields, Zenon
  <2>5. [[[r EXCEPT !.got = g] EXCEPT !.pc = p] EXCEPT !.ok = b] \in CmdSet
    BY <2>4, CmdFields, Zenon
  <2>6. [r EXCEPT !.got = g, !.pc = p, !.ok = b] = [[[r EXCEPT !.got = g] EXCEPT !.pc = p] EXCEPT !.ok = b]
    BY Zenon
  <2> QED
    BY <2>1, <2>2, <2>5, <2>6, Zenon
<1>6. ASSUME NEW g \in Seq(AllBytes), NEW n \in Nat PROVE [r EXCEPT !.pc = p, !.sent = n, !.got = g] \in CmdSet
  <2>1. [s EXCEPT !.sent = n] \in CmdSet
    BY CmdFields, Zenon
  <2>2. [[s EXCEPT !.sent = n] EXCEPT !.got = g] \in CmdSet
    BY <2>1, CmdFields, Zenon
  <2>3. [r EXCEPT !.pc = p, !.sent = n, !.got = g] = [[[r EXCEPT !.pc = p] EXCEPT !.sent = n] EXCEPT !.got = g]
    BY Zenon
  <2> QED
    BY <1>1, <2>2, <2>3, Zenon
<1> QED
  BY <1>1, <1>2, <1>3, <1>4, <1>5, <1>6, Zenon

\* The port of a command is turned on once the interrupts raised before are served.
LEMMA EnableKeeps ==
    ASSUME PsInv, Enable
    PROVE  PsInv'
<1> USE DEF PsInv
<1>1. cmd \in CmdSet /\ cmd.pc = "yield" /\ port.irq = {} /\ out' = out /\ todo' = todo
  BY DEF Enable, Flushed, PsType
<1>2. ctr' = (cmd.saved \union Off) \ Ints /\ ctr' \in SUBSET (Off \union Ints) /\ Sound(ctr')
  <2>1. ctr' = (cmd.saved \union Off) \ Ints
    BY DEF Enable
  <2> QED
    BY <1>1, <2>1, CmdFields DEF Sound, Off, Ints
<1>3. \A t \in Ports : ~cmd.late => Quiet(t)
  BY <1>1 DEF OneAnswer
<1>4. CASE /\ port' = Written(((cmd.saved \union Off) \ Ints) \ {Dis(To)})
           /\ cmd' = [cmd EXCEPT !.pc = "send"]
  <2> DEFINE c == ((cmd.saved \union Off) \ Ints) \ {Dis(To)}
  <2>1. c \in SUBSET (Off \union Ints) /\ c \cap Ints = {}
    BY <1>1, CmdFields DEF Off, Ints
  <2> HIDE DEF c
  <2>2. port' = Written(c)
    BY <1>4 DEF c
  <2>3. /\ port' \in [ctr : SUBSET (Off \union Ints), obf : AllBytes \union {Empty}, irq : SUBSET Ports]
        /\ port'.ctr = c /\ port'.obf = port.obf /\ port'.irq = {}
    BY <1>1, <2>1, <2>2, WrittenIs
  <2>4. cmd' \in CmdSet
    BY <1>1, <1>4, CmdSteps, Zenon DEF Phases
  <2>5. /\ cmd'.pc = "send" /\ cmd'.name = cmd.name /\ cmd'.n = cmd.n /\ cmd'.saved = cmd.saved
        /\ cmd'.sent = cmd.sent /\ cmd'.got = cmd.got /\ cmd'.late = cmd.late
    BY <1>1, <1>4 DEF CmdSet
  <2>6. PsType'
    BY <1>1, <1>2, <2>3, <2>4, Zenon DEF PsType
  <2>7. IrqOwn' /\ CtrRight'
    BY <1>2, <2>1, <2>3, <2>5 DEF IrqOwn, CtrRight, Sound
  <2>8. GotLens' /\ GotOwn'
    BY <1>1, <2>5 DEF GotLens, GotOwn, Sends, Recvs, To
  <2>9. OneAnswer'
    BY <1>1, <1>3, <2>3, <2>5, SameBytes DEF OneAnswer
  <2> QED
    BY <2>6, <2>7, <2>8, <2>9
<1>5. CASE port' = port /\ cmd' = [cmd EXCEPT !.pc = "restore", !.ok = FALSE]
  <2>1. cmd' \in CmdSet
    BY <1>1, <1>5, CmdSteps, Zenon DEF Phases
  <2>2. /\ cmd'.pc = "restore" /\ cmd'.name = cmd.name /\ cmd'.n = cmd.n /\ cmd'.saved = cmd.saved
        /\ cmd'.sent = cmd.sent /\ cmd'.got = cmd.got /\ cmd'.late = cmd.late
    BY <1>1, <1>5 DEF CmdSet
  <2>3. PsType'
    BY <1>1, <1>2, <1>5, <2>1, Zenon DEF PsType
  <2>4. IrqOwn' /\ CtrRight'
    BY <1>1, <1>2, <1>5, <2>2 DEF IrqOwn, CtrRight, Sound
  <2>5. GotLens' /\ GotOwn'
    BY <1>1, <2>2 DEF GotLens, GotOwn, To
  <2>6. OneAnswer'
    BY <1>1, <1>3, <1>5, <2>2, SameBytes DEF OneAnswer
  <2> QED
    BY <2>3, <2>4, <2>5, <2>6
<1> QED
  BY <1>4, <1>5 DEF Enable

LEMMA ExpireKeeps ==
    ASSUME PsInv, Expire
    PROVE  PsInv'
<1> USE DEF PsInv
<1>1. /\ cmd \in CmdSet /\ cmd.pc \in {"ack", "recv"}
      /\ UNCHANGED <<port, out, ctr, todo>> /\ cmd' = [cmd EXCEPT !.pc = "restore", !.ok = FALSE, !.late = TRUE]
  BY DEF Expire, PsType
<1>2. cmd' \in CmdSet
  BY <1>1, CmdSteps, Zenon DEF Phases
<1>3. cmd'.pc = "restore" /\ cmd'.saved = cmd.saved
  BY <1>1 DEF CmdSet
<1>4. cmd'.late
  BY <1>1 DEF CmdSet
<1>5. PsType'
  BY <1>1, <1>2, Zenon DEF PsType
<1>6. IrqOwn' /\ CtrRight'
  BY <1>1, <1>3 DEF IrqOwn, CtrRight, Sound
<1>7. GotLens' /\ GotOwn'
  BY <1>3, <1>4 DEF GotLens, GotOwn
<1>8. OneAnswer'
  BY <1>4 DEF OneAnswer
<1> QED
  BY <1>5, <1>6, <1>7, <1>8

\* What was on before is on again, unless the controller does not listen.
LEMMA RestoreKeeps ==
    ASSUME PsInv, Restore
    PROVE  PsInv'
<1> USE DEF PsInv
<1>1. cmd \in CmdSet /\ cmd.pc = "restore" /\ out' = out /\ ctr' = cmd.saved
  BY DEF Restore, Restored, PsType
<1>2. todo' \in Seq(DOMAIN Commands)
  <2>1. <<>> \in Seq(DOMAIN Commands) /\ todo \in Seq(DOMAIN Commands)
    BY DEF PsType
  <2>2. todo' = todo \/ todo' = <<>>
    BY DEF Restore
  <2> QED
    BY <2>1, <2>2
<1>3. cmd.saved \in SUBSET (Off \union Ints) /\ Sound(cmd.saved)
  BY <1>1, CmdFields DEF CtrRight
<1>4. \A t \in Ports : ~cmd.late => Quiet(t)
  BY <1>1 DEF OneAnswer
<1>5. CASE port' = Written(cmd.saved) /\ cmd' = [cmd EXCEPT !.pc = "off", !.wrote = TRUE]
  <2>1. /\ port' \in [ctr : SUBSET (Off \union Ints), obf : AllBytes \union {Empty}, irq : SUBSET Ports]
        /\ port'.ctr = cmd.saved /\ port'.obf = port.obf /\ \A i \in port'.irq : port'.obf.from = i
    BY <1>3, <1>5, WrittenIs
  <2>2. cmd' \in CmdSet
    BY <1>1, <1>5, CmdSteps, Zenon DEF Phases
  <2>3. /\ cmd'.pc = "off" /\ cmd'.name = cmd.name /\ cmd'.n = cmd.n /\ cmd'.saved = cmd.saved
        /\ cmd'.got = cmd.got /\ cmd'.late = cmd.late
    BY <1>1, <1>5 DEF CmdSet
  <2>4. PsType'
    BY <1>1, <1>2, <1>3, <2>1, <2>2, Zenon DEF PsType
  <2>5. IrqOwn' /\ CtrRight'
    BY <1>1, <1>3, <2>1, <2>3 DEF IrqOwn, CtrRight, Sound
  <2>6. GotLens' /\ GotOwn'
    BY <2>3 DEF GotLens, GotOwn, To
  <2>7. OneAnswer'
    BY <1>1, <1>4, <2>1, <2>3, SameBytes DEF OneAnswer
  <2> QED
    BY <2>4, <2>5, <2>6, <2>7
<1>6. CASE port' = port /\ cmd' = [cmd EXCEPT !.pc = "off", !.ok = FALSE, !.wrote = FALSE]
  <2>1. cmd' \in CmdSet
    BY <1>1, <1>6, CmdSteps, Zenon DEF Phases
  <2>2. /\ cmd'.pc = "off" /\ cmd'.name = cmd.name /\ cmd'.n = cmd.n /\ cmd'.saved = cmd.saved
        /\ cmd'.got = cmd.got /\ cmd'.late = cmd.late
    BY <1>1, <1>6 DEF CmdSet
  <2>3. ~cmd'.wrote
    BY <1>1, <1>6 DEF CmdSet
  <2>4. PsType'
    BY <1>1, <1>2, <1>3, <1>6, <2>1, Zenon DEF PsType
  <2>5. IrqOwn' /\ CtrRight'
    BY <1>1, <1>3, <1>6, <2>2, <2>3 DEF IrqOwn, CtrRight, Sound
  <2>6. GotLens' /\ GotOwn'
    BY <2>2 DEF GotLens, GotOwn, To
  <2>7. OneAnswer'
    BY <1>1, <1>4, <1>6, <2>2, SameBytes DEF OneAnswer
  <2> QED
    BY <2>4, <2>5, <2>6, <2>7
<1> QED
  BY <1>5, <1>6 DEF Restore

-----------------------------------------------------------------------------
(* The answers *)

\* The queues, and whether keyboard and mouse send of their own accord.
OutSet == [kbd : Seq(Bytes("kbd")), aux : Seq(Bytes("aux")), scan : BOOLEAN, stream : BOOLEAN]

LEMMA OutFields ==
    ASSUME NEW o \in OutSet, NEW f \in Ports, NEW q \in Seq(Bytes(f)), NEW c \in BOOLEAN, NEW m \in BOOLEAN
    PROVE  /\ o[f] \in Seq(Bytes(f))
           /\ [o EXCEPT ![f] = q] \in OutSet
           /\ [o EXCEPT ![f] = q, !.scan = c, !.stream = m] \in OutSet
<1>1. o[f] \in Seq(Bytes(f))
  BY DEF OutSet, Ports
<1>2. [o EXCEPT ![f] = q] \in OutSet
  <2>1. CASE f = "kbd"
    BY <2>1 DEF OutSet
  <2>2. CASE f = "aux"
    BY <2>2 DEF OutSet
  <2> QED
    BY <2>1, <2>2 DEF Ports
<1>3. \A r \in OutSet : [r EXCEPT !.scan = c] \in OutSet /\ [r EXCEPT !.stream = m] \in OutSet
  BY DEF OutSet
<1>4. [o EXCEPT ![f] = q, !.scan = c, !.stream = m] \in OutSet
  <2>1. [[[o EXCEPT ![f] = q] EXCEPT !.scan = c] EXCEPT !.stream = m] \in OutSet
    BY <1>2, <1>3, Zenon
  <2>2. [o EXCEPT ![f] = q, !.scan = c, !.stream = m] = [[[o EXCEPT ![f] = q] EXCEPT !.scan = c] EXCEPT !.stream = m]
    BY Zenon
  <2> QED
    BY <2>1, <2>2, Zenon
<1> QED
  BY <1>1, <1>2, <1>4

\* An answer, with its parameters, is put behind keys and moves.
AnswerPut(t, kind, L, m) ==
    /\ L = Len(out[t]) /\ m = IF kind = "ack" THEN Params ELSE 0
    /\ Len(out'[t]) = L + 1 + m
    /\ \A i \in 1..L : out'[t][i] = out[t][i]
    /\ out'[t][L + 1] = Byte(t, kind, cmd.n)
    /\ \A i \in 1..m : out'[t][L + 1 + i] = Byte(t, "data", cmd.n)

LEMMA Answered ==
    ASSUME port' = port, cmd'.name = cmd.name, cmd'.n = cmd.n, cmd'.sent = cmd.sent,
           NEW t \in Ports, Quiet(t), NEW kind \in {"ack", "nak"},
           NEW L \in Nat, NEW m \in Nat, AnswerPut(t, kind, L, m)
    PROVE  AnswerAt(t, L + 1)'
<1>1. There(t, L + 1)' /\ Pend(t, L + 1)' = Byte(t, kind, cmd.n)
  <2>1. L + 1 \in 1..(L + 1 + m) /\ L + 1 # 0
    OBVIOUS
  <2>2. Len(out'[t]) = L + 1 + m /\ out'[t][L + 1] = Byte(t, kind, cmd.n)
    BY DEF AnswerPut
  <2> QED
    BY <2>1, <2>2 DEF There, Pend
<1>2. Pend(t, L + 1)'.kind = kind /\ Pend(t, L + 1)'.val = cmd.n
  BY <1>1 DEF Byte
<1>3. Span(t, L + 1)' = m
  <2>1. Params' = Params
    BY DEF Params, Sends, Recvs
  <2> QED
    BY <1>2, <2>1 DEF Span, AnswerPut
<1>4. ASSUME NEW i \in Nat, There(t, i)', i # L + 1
      PROVE  IF L + 1 < i /\ i <= L + 1 + m THEN Pend(t, i)' = Byte(t, "data", cmd.n)
             ELSE Pend(t, i)'.kind \in {"code", "move"}
  <2>1. CASE i = 0
    <3>1. There(t, i) /\ Pend(t, i)' = Pend(t, i)
      BY <1>4, <2>1 DEF There, Pend
    <3> QED
      BY <2>1, <3>1 DEF Quiet
  <2>2. CASE i \in 1..L
    <3>1. There(t, i) /\ Pend(t, i)' = Pend(t, i)
      BY <2>2 DEF There, Pend, AnswerPut
    <3>2. ~(L + 1 < i)
      BY <2>2
    <3> QED
      BY <3>1, <3>2 DEF Quiet
  <2>3. CASE i > L + 1
    <3>1. i \in 1..(L + 1 + m) /\ i # 0
      <4>1. Len(out'[t]) = L + 1 + m
        BY DEF AnswerPut
      <4> QED
        BY <1>4, <2>3, <4>1 DEF There
    <3>2. i - (L + 1) \in 1..m /\ L + 1 + (i - (L + 1)) = i
      BY <2>3, <3>1
    <3>3. out'[t][L + 1 + (i - (L + 1))] = Byte(t, "data", cmd.n)
      BY <3>2, Zenon DEF AnswerPut
    <3>4. Pend(t, i)' = Byte(t, "data", cmd.n)
      BY <3>1, <3>2, <3>3 DEF Pend
    <3> QED
      BY <2>3, <3>1, <3>4
  <2>4. i = 0 \/ i \in 1..L \/ i > L + 1
    BY <1>4
  <2> QED
    BY <2>1, <2>2, <2>3, <2>4
<1>5. L + 1 + m <= Len(out'[t])
  <2>1. Len(out'[t]) = L + 1 + m
    BY DEF AnswerPut
  <2> QED
    BY <2>1
<1> QED
  BY <1>1, <1>2, <1>3, <1>4, <1>5 DEF AnswerAt

\* What is put behind a queue, byte by byte.
AnswerAdded(t, kind, q) ==
    /\ Len(q) = IF kind = "ack" THEN Params ELSE 0
    /\ \A i \in 1..Len(q) : q[i] = Byte(t, "data", cmd.n)
    /\ out'[t] = out[t] \o (<<Byte(t, kind, cmd.n)>> \o q)

LEMMA Put ==
    ASSUME PsInv, NEW t \in Ports, NEW kind \in {"ack", "nak"}, NEW q \in Seq(Bytes(t)), AnswerAdded(t, kind, q)
    PROVE  /\ Len(out[t]) \in Nat /\ Len(q) \in Nat /\ AnswerPut(t, kind, Len(out[t]), Len(q))
           /\ out'[t] \in Seq(Bytes(t))
<1> DEFINE b == Byte(t, kind, cmd.n)
           w == <<b>> \o q
<1>1. PsType /\ cmd.n \in Nat
  BY CmdNumbers DEF PsInv
<1>2. b \in Bytes(t)
  BY <1>1 DEF Byte, Bytes, Vals
<1> HIDE DEF b
<1>3. <<b>> \in Seq(Bytes(t)) /\ Len(<<b>>) = 1 /\ <<b>>[1] = b
  BY <1>2
<1>4. /\ w \in Seq(Bytes(t)) /\ Len(w) = 1 + Len(q) /\ Len(q) \in Nat
      /\ \A i \in 1..(1 + Len(q)) : w[i] = IF i <= 1 THEN <<b>>[i] ELSE q[i - 1]
  BY <1>3, ConcatProperties, LenProperties
<1>5. w[1] = b /\ \A i \in 1..Len(q) : w[1 + i] = q[i]
  BY <1>3, <1>4
<1>6. out'[t] = out[t] \o w
  BY DEF b, AnswerAdded
<1> HIDE DEF w
<1>7. /\ out'[t] \in Seq(Bytes(t)) /\ Len(out'[t]) = Len(out[t]) + Len(w)
      /\ Len(out[t]) \in Nat /\ Len(w) \in Nat
      /\ \A i \in 1..Len(out[t]) : out'[t][i] = out[t][i]
      /\ \A i \in 1..Len(w) : out'[t][Len(out[t]) + i] = w[i]
  BY <1>1, <1>4, <1>6, Grown
<1> DEFINE lo == Len(out[t])
           lq == Len(q)
<1>8. Len(out'[t]) = lo + 1 + lq /\ lo \in Nat /\ lq \in Nat /\ Len(w) = 1 + lq
  <2>1. Len(out'[t]) = lo + Len(w) /\ lo \in Nat /\ lq \in Nat /\ Len(w) = 1 + lq
    BY <1>4, <1>7, Zenon
  <2> HIDE DEF lo, lq
  <2> QED
    BY <2>1
<1>9. out'[t][Len(out[t]) + 1] = b
  BY <1>4, <1>5, <1>7
<1>10. ASSUME NEW i \in 1..Len(q) PROVE out'[t][Len(out[t]) + 1 + i] = Byte(t, "data", cmd.n)
  <2>1. 1 + i \in 1..Len(w) /\ Len(out[t]) + (1 + i) = Len(out[t]) + 1 + i
    <3>1. i \in 1..lq
      OBVIOUS
    <3>2. 1 + i \in 1..Len(w) /\ lo + (1 + i) = lo + 1 + i
      <4> HIDE DEF lo, lq
      <4> QED
        BY <1>8, <3>1
    <3> QED
      BY <3>2, Zenon
  <2>2. q[i] = Byte(t, "data", cmd.n)
    BY DEF AnswerAdded
  <2> QED
    BY <1>5, <1>7, <2>1, <2>2
<1>11. Len(q) = IF kind = "ack" THEN Params ELSE 0
  BY DEF AnswerAdded
<1> QED
  BY <1>4, <1>7, <1>8, <1>9, <1>10, <1>11, Zenon DEF AnswerPut, b

\* What a device answers.
LEMMA AnswerIs ==
    ASSUME PsInv, out' = Answer
    PROVE  \E q \in Seq(Bytes(To)) :
               /\ AnswerAdded(To, "ack", q)
               /\ out' \in OutSet
               /\ \A g \in Ports : g # To => out'[g] = out[g]
<1> DEFINE t == To
           q == IF cmd.sent = Sends THEN [i \in 1 .. Recvs |-> Byte(To, "data", cmd.n)] ELSE <<>>
           a == <<Byte(To, "ack", cmd.n)>>
           c == CASE cmd.name = "KRESETDIS" -> FALSE [] cmd.name \in {"KENABLE", "KRESET"} -> TRUE [] OTHER -> out.scan
           m == CASE cmd.name = "MENABLE" -> TRUE [] cmd.name \in {"MDISABLE", "MRESET"} -> FALSE
                  [] OTHER -> out.stream
<1>1. t \in Ports /\ Recvs \in Nat /\ Sends \in Nat /\ cmd.n \in Nat
  BY CmdNumbers DEF PsInv
<1>2. out \in OutSet /\ out[t] \in Seq(Bytes(t))
  BY <1>1, OutFields DEF PsInv, PsType, OutSet, Ports
<1>3. Byte(t, "data", cmd.n) \in Bytes(t) /\ Byte(t, "ack", cmd.n) \in Bytes(t)
  BY <1>1 DEF Byte, Bytes, Vals
<1>4. q \in Seq(Bytes(t)) /\ Len(q) = Params /\ \A i \in 1..Len(q) : q[i] = Byte(t, "data", cmd.n)
  <2> DEFINE d == Byte(t, "data", cmd.n)
  <2> HIDE DEF d, t
  <2>1. CASE cmd.sent = Sends
    <3>1. q = [i \in 1..Recvs |-> d] /\ Params = Recvs
      BY <2>1 DEF d, t, Params
    <3> HIDE DEF q
    <3> QED
      BY <1>1, <1>3, <3>1 DEF d
  <2>2. CASE cmd.sent # Sends
    BY <2>2 DEF Params
  <2> QED
    BY <2>1, <2>2
<1>5. a \in Seq(Bytes(t))
  BY <1>3
<1>6. out' = [out EXCEPT ![t] = (out[t] \o a) \o q, !.scan = c, !.stream = m]
  BY DEF Answer, Sends, Recvs
<1>7. c \in BOOLEAN /\ m \in BOOLEAN
  <2>1. out.scan \in BOOLEAN /\ out.stream \in BOOLEAN
    BY <1>2 DEF OutSet
  <2> QED
    BY <2>1, Zenon
<1>8. AnswerAdded(t, "ack", q) <=> out'[t] = out[t] \o (a \o q)
  BY <1>4, Zenon DEF AnswerAdded
<1> HIDE DEF t, q, a, c, m
<1>9. (out[t] \o a) \o q = out[t] \o (a \o q)
  <2>1. \A S : \A x, y, z \in Seq(S) : (x \o y) \o z = x \o (y \o z)
    BY ConcatAssociative
  <2>2. \A x, y, z \in Seq(Bytes(t)) : (x \o y) \o z = x \o (y \o z)
    BY <2>1
  <2> QED
    BY <1>2, <1>4, <1>5, <2>2, Zenon
<1>10. PICK w \in Seq(Bytes(t)) : w = out[t] \o (a \o q)
  BY <1>2, <1>4, <1>5, ConcatProperties
<1>11. out' = [out EXCEPT ![t] = w, !.scan = c, !.stream = m]
  BY <1>6, <1>9, <1>10
<1>12. out' \in OutSet /\ out'[t] = w /\ \A g \in Ports : g # t => out'[g] = out[g]
  <2>1. out \in OutSet /\ t \in Ports /\ c \in BOOLEAN /\ m \in BOOLEAN /\ w \in Seq(Bytes(t))
    BY <1>1, <1>2, <1>7, <1>10
  <2>2. [out EXCEPT ![t] = w, !.scan = c, !.stream = m] \in OutSet
    BY <2>1, OutFields, Zenon
  <2>3. PICK p : p = [out EXCEPT ![t] = w, !.scan = c, !.stream = m]
    BY Zenon
  <2>4. out' = p
    BY <1>11, <2>3, Zenon
  <2>5. p \in OutSet
    BY <2>2, <2>3, Zenon
  <2>6. p[t] = w /\ \A g \in Ports : g # t => p[g] = out[g]
    BY <2>1, <2>3 DEF OutSet, Ports
  <2> QED
    BY <2>4, <2>5, <2>6
<1>13. AnswerAdded(t, "ack", q)
  BY <1>8, <1>10, <1>12
<1> QED
  BY <1>4, <1>12, <1>13, Zenon DEF t

LEMMA SendKeeps ==
    ASSUME PsInv, Send
    PROVE  PsInv'
<1>0. PICK t \in Ports : t = To
  BY CmdNumbers DEF PsInv
<1>1. /\ cmd \in CmdSet /\ cmd.pc = "send" /\ cmd' = [cmd EXCEPT !.pc = "ack"]
      /\ UNCHANGED <<port, ctr, todo>>
  BY DEF Send, PsInv, PsType
<1>2. cmd' \in CmdSet
  BY <1>1, CmdSteps, Zenon DEF Phases
<1>3. /\ cmd'.pc = "ack" /\ cmd'.name = cmd.name /\ cmd'.n = cmd.n /\ cmd'.saved = cmd.saved
      /\ cmd'.sent = cmd.sent /\ cmd'.got = cmd.got /\ cmd'.late = cmd.late
  BY <1>1 DEF CmdSet
<1>4. t \in Ports /\ To' = t
  BY <1>0, <1>3 DEF To
<1>5. out \in OutSet
  BY DEF PsInv, PsType, OutSet
<1>6. ~cmd.late => \A g \in Ports : Quiet(g)
  BY <1>1 DEF PsInv, OneAnswer
<1>7. IrqOwn' /\ CtrRight'
  BY <1>1, <1>3 DEF PsInv, IrqOwn, CtrRight, Sound
<1>8. GotLens' /\ GotOwn'
  BY <1>1, <1>3 DEF PsInv, GotLens, GotOwn, Sends, Recvs, To
<1>9. ASSUME out' \in OutSet,
             \A g \in Ports : g # t => out'[g] = out[g],
             ~cmd.late => \/ out'[t] = out[t]
                          \/ \E a \in Nat : AnswerAt(t, a)'
      PROVE  PsInv'
  <2>1. PsType'
    BY <1>1, <1>2, <1>9 DEF PsInv, PsType, OutSet
  <2>2. ASSUME NEW g \in Ports, Quiet(g), out'[g] = out[g] PROVE Quiet(g)'
    BY <1>1, <2>2 DEF Quiet, There, Pend
  <2>3. OneAnswer'
    <3> SUFFICES ASSUME ~cmd.late, NEW g \in Ports
                 PROVE  /\ g # t => Quiet(g)'
                        /\ g = t => Quiet(g)' \/ \E a \in Nat : AnswerAt(g, a)'
      BY <1>3, <1>4 DEF OneAnswer
    <3>1. CASE g # t
      BY <1>6, <1>9, <2>2, <3>1
    <3>2. CASE g = t /\ out'[t] = out[t]
      BY <1>6, <2>2, <3>2
    <3>3. CASE g = t /\ \E a \in Nat : AnswerAt(t, a)'
      BY <3>3
    <3> QED
      BY <1>9, <3>1, <3>2, <3>3
  <2> QED
    BY <1>7, <1>8, <2>1, <2>3 DEF PsInv
<1>10. ASSUME NEW kind \in {"ack", "nak"}, NEW q \in Seq(Bytes(t)), AnswerAdded(t, kind, q), out' \in OutSet,
              \A g \in Ports : g # t => out'[g] = out[g]
       PROVE  PsInv'
  <2>1. PICK L \in Nat, m \in Nat : AnswerPut(t, kind, L, m)
    BY <1>10, Put
  <2>2. ASSUME ~cmd.late PROVE AnswerAt(t, L + 1)'
    <3>1. Quiet(t)
      BY <1>6, <2>2
    <3> QED
      BY <1>1, <1>3, <2>1, <3>1, Answered
  <2>3. L + 1 \in Nat
    OBVIOUS
  <2> QED
    BY <1>9, <1>10, <2>2, <2>3
<1>11. CASE out' = Answer
  BY <1>0, <1>10, <1>11, AnswerIs
<1>12. CASE out' = [out EXCEPT ![To] = Append(@, Byte(To, "nak", cmd.n))]
  <2>1. out[t] \in Seq(Bytes(t)) /\ cmd.n \in Nat
    BY <1>4, <1>5, CmdNumbers DEF PsInv, OutSet, Ports
  <2> DEFINE b == Byte(t, "nak", cmd.n)
             w == Append(out[t], b)
  <2>2. b \in Bytes(t)
    BY <1>4, <2>1 DEF Byte, Bytes, Vals
  <2> HIDE DEF b
  <2>3. w \in Seq(Bytes(t)) /\ w = out[t] \o (<<b>> \o <<>>) /\ <<>> \in Seq(Bytes(t))
    BY <2>1, <2>2
  <2> HIDE DEF w
  <2>4. out' = [out EXCEPT ![t] = w]
    BY <1>0, <1>12 DEF b, w
  <2>5. out' \in OutSet
    BY <1>4, <1>5, <2>3, <2>4, OutFields
  <2>6. out'[t] = w /\ \A g \in Ports : g # t => out'[g] = out[g]
    BY <1>4, <1>5, <2>4 DEF OutSet, Ports
  <2>7. AnswerAdded(t, "nak", <<>>)
    BY <2>3, <2>6 DEF AnswerAdded, b
  <2> QED
    BY <1>10, <2>3, <2>5, <2>6, <2>7
<1>13. CASE out' = out
  BY <1>5, <1>9, <1>13
<1> QED
  BY <1>11, <1>12, <1>13 DEF Send

\* A byte that is read leaves the buffer to the next one.
LEMMA RecvFrame ==
    ASSUME PsInv, Recv
    PROVE  /\ cmd \in CmdSet /\ cmd.pc \in {"ack", "recv"} /\ out' = out
           /\ port.obf \in AllBytes /\ port.obf.from \in Ports /\ port'.obf = Empty
           /\ cmd' \in CmdSet /\ cmd'.pc # "off" /\ cmd'.pc # "yield" /\ cmd'.saved = cmd.saved
                  => PsType' /\ IrqOwn' /\ CtrRight'
           /\ \A t \in Ports : Quiet(t) => Quiet(t)'
<1> USE DEF PsInv
<1>1. /\ cmd \in CmdSet /\ cmd.pc \in {"ack", "recv"} /\ UNCHANGED <<out, ctr, todo>>
      /\ port.obf \in AllBytes /\ port' = [port EXCEPT !.obf = Empty]
  BY DEF Recv, PsType
<1>2. port.obf.from \in Ports
  BY <1>1 DEF AllBytes, Bytes, Ports
<1>3. /\ port' \in [ctr : SUBSET (Off \union Ints), obf : AllBytes \union {Empty}, irq : SUBSET Ports]
      /\ port'.obf = Empty /\ port'.ctr = port.ctr /\ port'.irq = port.irq
  BY <1>1 DEF PsType
<1>4. port.irq = {} /\ port.ctr \cap Ints = {}
  BY <1>1 DEF IrqOwn
<1>5. ASSUME cmd' \in CmdSet, cmd'.pc # "off", cmd'.pc # "yield", cmd'.saved = cmd.saved
      PROVE  PsType' /\ IrqOwn' /\ CtrRight'
  <2>1. PsType'
    BY <1>1, <1>3, <1>5 DEF PsType
  <2>2. IrqOwn'
    BY <1>3, <1>4 DEF IrqOwn
  <2>3. CtrRight'
    BY <1>1, <1>5 DEF CtrRight, Sound
  <2> QED
    BY <2>1, <2>2, <2>3
<1>6. ASSUME NEW t \in Ports, Quiet(t) PROVE Quiet(t)'
  BY <1>1, <1>3, <1>6, Dropped DEF Quiet
<1> QED
  BY <1>1, <1>2, <1>3, <1>5, <1>6

\* What is no part of the command is discarded.
LEMMA OtherKeeps ==
    ASSUME PsInv, Recv, ~PartOf(port.obf)
    PROVE  PsInv'
<1>0. PICK t \in Ports : t = To
  BY CmdNumbers DEF PsInv
<1>1. /\ cmd \in CmdSet /\ cmd.pc \in {"ack", "recv"} /\ out' = out /\ port.obf.from \in Ports /\ port'.obf = Empty
      /\ \A g \in Ports : Quiet(g) => Quiet(g)'
  BY RecvFrame
<1>2. cmd' = cmd /\ To' = t
  BY <1>0 DEF Recv, To
<1>3. PsType' /\ IrqOwn' /\ CtrRight'
  BY <1>1, <1>2, RecvFrame
<1>4. GotLens' /\ GotOwn'
  BY <1>2 DEF PsInv, GotLens, GotOwn, Sends, Recvs, To
<1>5. Params' = Params /\ Left' = Left /\ cmd'.n = cmd.n
  BY <1>2 DEF Params, Left, Sends, Recvs
<1>6. OneAnswer'
  <2> SUFFICES ASSUME ~cmd.late, NEW g \in Ports
               PROVE  /\ g # t => Quiet(g)'
                      /\ g = t /\ cmd.pc = "ack" => Quiet(g)' \/ \E a \in Nat : AnswerAt(g, a)'
                      /\ g = t /\ cmd.pc = "recv" => DataNow(g)'
    BY <1>1, <1>2 DEF OneAnswer
  <2>1. CASE g # t
    BY <1>0, <1>1, <2>1 DEF PsInv, OneAnswer
  <2>2. CASE g = t /\ cmd.pc = "ack"
    <3>1. ASSUME NEW a \in Nat, AnswerAt(g, a) PROVE AnswerAt(g, a)'
      <4>1. a # 0
        BY <1>0, <2>2, <3>1 DEF AnswerAt, There, Pend, PartOf
      <4>2. There(g, a)' /\ Pend(g, a)' = Pend(g, a)
        BY <1>1, <3>1, <4>1, Dropped DEF PsInv, AnswerAt
      <4>3. Span(g, a)' = Span(g, a)
        BY <1>5, <4>2 DEF Span
      <4>4. ASSUME NEW i \in Nat, There(g, i)' PROVE There(g, i) /\ Pend(g, i)' = Pend(g, i)
        BY <1>1, <4>4, Dropped DEF PsInv
      <4> QED
        BY <1>1, <1>5, <3>1, <4>2, <4>3, <4>4 DEF AnswerAt
    <3> QED
      BY <1>0, <1>1, <2>2, <3>1 DEF PsInv, OneAnswer
  <2>3. CASE g = t /\ cmd.pc = "recv"
    <3>1. DataNow(g)
      BY <1>0, <2>3 DEF PsInv, OneAnswer
    <3>2. port.obf.from # g
      BY <1>0, <2>3 DEF PartOf
    <3>3. First(g) = 1 /\ First(g)' = 1
      BY <1>1, <3>2 DEF First, Empty, Ports
    <3>4. ASSUME NEW i \in Nat, There(g, i)' PROVE There(g, i) /\ Pend(g, i)' = Pend(g, i)
      BY <1>1, <3>4, Dropped DEF PsInv
    <3> QED
      BY <1>1, <1>5, <2>3, <3>1, <3>3, <3>4 DEF DataNow
  <2> QED
    BY <1>1, <2>1, <2>2, <2>3
<1> QED
  BY <1>3, <1>4, <1>6 DEF PsInv

\* One more byte has been received.
LEMMA GotMore ==
    ASSUME PsInv, NEW b \in AllBytes
    PROVE  /\ Append(cmd.got, b) \in Seq(AllBytes) /\ Len(Append(cmd.got, b)) = Len(cmd.got) + 1
           /\ ~cmd.late /\ b.from = To /\ b.kind \in {"ack", "data"} /\ b.val = cmd.n =>
                  \A i \in 1..(Len(cmd.got) + 1) :
                      /\ Append(cmd.got, b)[i].from = To /\ Append(cmd.got, b)[i].kind \in {"ack", "data"}
                      /\ Append(cmd.got, b)[i].val = cmd.n
<1>1. cmd.got \in Seq(AllBytes) /\ Len(cmd.got) \in Nat
  BY CmdFields DEF PsInv, PsType
<1>2. /\ Append(cmd.got, b) \in Seq(AllBytes) /\ Len(Append(cmd.got, b)) = Len(cmd.got) + 1
      /\ \A i \in 1..Len(cmd.got) : Append(cmd.got, b)[i] = cmd.got[i]
      /\ Append(cmd.got, b)[Len(cmd.got) + 1] = b
  BY <1>1, AppendProperties
<1>3. ASSUME ~cmd.late, b.from = To, b.kind \in {"ack", "data"}, b.val = cmd.n, NEW i \in 1..(Len(cmd.got) + 1)
      PROVE  /\ Append(cmd.got, b)[i].from = To /\ Append(cmd.got, b)[i].kind \in {"ack", "data"}
             /\ Append(cmd.got, b)[i].val = cmd.n
  <2>1. CASE i \in 1..Len(cmd.got)
    BY <1>2, <1>3, <2>1 DEF PsInv, GotOwn
  <2>2. CASE i = Len(cmd.got) + 1
    BY <1>2, <1>3, <2>2
  <2> QED
    BY <1>1, <2>1, <2>2
<1> QED
  BY <1>2, <1>3

\* The answer is at hand: an acknowledgement is followed by the next byte of the
\* command, by the parameters, or by the end.
LEMMA AckKeeps ==
    ASSUME PsInv, Recv, cmd.pc = "ack", PartOf(port.obf)
    PROVE  PsInv'
<1>0. PICK t \in Ports : t = To
  BY CmdNumbers DEF PsInv
<1>1. PICK b \in AllBytes : b = port.obf
  BY RecvFrame
<1>2. /\ cmd \in CmdSet /\ out' = out /\ port'.obf = Empty /\ \A g \in Ports : Quiet(g) => Quiet(g)'
  BY RecvFrame
<1>3. b.from = t /\ b.kind \in {"ack", "nak"} /\ cmd' = AckNext(b)
  BY <1>0, <1>1 DEF Recv, PartOf
<1>4. /\ Sends \in Nat /\ Recvs \in Nat /\ cmd.sent \in Nat /\ cmd.n \in Nat
      /\ Len(cmd.got) = cmd.sent /\ cmd.sent <= Sends
  BY CmdNumbers DEF PsInv, GotLens
<1>5. ASSUME ~cmd.late
      PROVE  /\ b.val = cmd.n /\ Span(t, 0) \in Nat /\ Span(t, 0) <= Len(out[t])
             /\ Span(t, 0) = IF b.kind = "ack" THEN Params ELSE 0
             /\ \A i \in Nat : There(t, i) /\ i # 0 =>
                    IF i <= Span(t, 0) THEN Pend(t, i) = Byte(t, "data", cmd.n) ELSE Pend(t, i).kind \in {"code", "move"}
  <2>1. There(t, 0) /\ Pend(t, 0) = b
    BY <1>1, <1>3 DEF There, Pend
  <2>2. ~Quiet(t)
    BY <1>3, <2>1 DEF Quiet
  <2>3. PICK a \in Nat : AnswerAt(t, a)
    BY <1>0, <1>5, <2>2 DEF PsInv, OneAnswer
  <2>4. a = 0
    BY <1>3, <2>1, <2>3 DEF AnswerAt
  <2>5. Span(t, 0) = IF b.kind = "ack" THEN Params ELSE 0
    BY <2>1 DEF Span
  <2>6. Params \in Nat
    BY CmdNumbers DEF PsInv
  <2>7. Span(t, 0) \in Nat
    BY <2>5, <2>6
  <2>8. AnswerAt(t, 0)
    BY <2>3, <2>4
  <2>9. b.val = cmd.n /\ 0 + Span(t, 0) <= Len(out[t])
    BY <2>1, <2>8 DEF AnswerAt
  <2>10. ASSUME NEW i \in Nat, There(t, i), i # 0
         PROVE  IF i <= Span(t, 0) THEN Pend(t, i) = Byte(t, "data", cmd.n) ELSE Pend(t, i).kind \in {"code", "move"}
    <3>1. IF 0 < i /\ i <= 0 + Span(t, 0) THEN Pend(t, i) = Byte(t, "data", cmd.n)
          ELSE Pend(t, i).kind \in {"code", "move"}
      BY <2>8, <2>10 DEF AnswerAt
    <3> QED
      BY <2>7, <2>10, <3>1
  <2> QED
    BY <2>5, <2>7, <2>9, <2>10
<1>6. ASSUME NEW i \in Nat, There(t, i)' PROVE There(t, i) /\ i # 0 /\ Pend(t, i)' = Pend(t, i)
  BY <1>2, <1>6, Dropped DEF PsInv
<1>7. ASSUME ~cmd.late, Span(t, 0) = 0 PROVE Quiet(t)'
  BY <1>5, <1>6, <1>7 DEF Quiet
<1>8. ASSUME ~cmd.late, NEW g \in Ports, g # t PROVE Quiet(g)'
  BY <1>0, <1>2, <1>8 DEF PsInv, OneAnswer
<1> DEFINE got == Append(cmd.got, b)
<1>9. got \in Seq(AllBytes) /\ Len(got) = Len(cmd.got) + 1
  BY GotMore
<1>10. ASSUME ~cmd.late, b.kind = "ack"
       PROVE  \A i \in 1..Len(got) : got[i].from = t /\ got[i].kind \in {"ack", "data"} /\ got[i].val = cmd.n
  BY <1>0, <1>3, <1>5, <1>9, <1>10, GotMore
<1> HIDE DEF got
<1>11. ASSUME cmd' \in CmdSet, cmd'.pc \in {"send", "restore"}, cmd'.saved = cmd.saved, cmd'.name = cmd.name,
              cmd'.n = cmd.n, cmd'.late = cmd.late, ~cmd.late => Span(t, 0) = 0, GotLens', GotOwn'
       PROVE  PsInv'
  <2>1. PsType' /\ IrqOwn' /\ CtrRight'
    BY <1>11, RecvFrame
  <2>2. OneAnswer'
    BY <1>7, <1>8, <1>11 DEF OneAnswer
  <2> QED
    BY <1>11, <2>1, <2>2 DEF PsInv
<1>12. CASE b.kind = "nak"
  <2>1. cmd' = [cmd EXCEPT !.pc = "restore", !.ok = FALSE]
    BY <1>3, <1>12 DEF AckNext
  <2>2. cmd' \in CmdSet
    BY <1>2, <2>1, CmdSteps, Zenon DEF Phases
  <2>3. /\ cmd'.pc = "restore" /\ cmd'.name = cmd.name /\ cmd'.n = cmd.n /\ cmd'.saved = cmd.saved
        /\ cmd'.got = cmd.got /\ cmd'.late = cmd.late
    BY <1>2, <2>1 DEF CmdSet
  <2>4. GotLens' /\ GotOwn'
    BY <2>3 DEF PsInv, GotLens, GotOwn, To
  <2>5. ~cmd.late => Span(t, 0) = 0
    BY <1>5, <1>12
  <2> QED
    BY <1>11, <2>2, <2>3, <2>4, <2>5
<1>13. CASE b.kind = "ack" /\ cmd.sent < Sends
  <2>1. cmd' = [cmd EXCEPT !.pc = "send", !.sent = @ + 1, !.got = got]
    BY <1>3, <1>13 DEF AckNext, Sends, got
  <2>2. cmd' \in CmdSet
    <3>1. cmd.sent + 1 \in Nat
      BY <1>4
    <3> QED
      BY <1>2, <1>9, <2>1, <3>1, CmdSteps, Zenon DEF Phases
  <2>3. /\ cmd'.pc = "send" /\ cmd'.name = cmd.name /\ cmd'.n = cmd.n /\ cmd'.saved = cmd.saved
        /\ cmd'.got = got /\ cmd'.sent = cmd.sent + 1 /\ cmd'.late = cmd.late
    BY <1>2, <2>1 DEF CmdSet
  <2>4. GotLens'
    BY <1>4, <1>9, <1>13, <2>3 DEF GotLens, Sends, Recvs
  <2>5. GotOwn'
    BY <1>0, <1>10, <1>13, <2>3 DEF GotOwn, To
  <2>6. ~cmd.late => Span(t, 0) = 0
    BY <1>4, <1>5, <1>13 DEF Params
  <2> QED
    BY <1>11, <2>2, <2>3, <2>4, <2>5, <2>6
<1>14. CASE b.kind = "ack" /\ ~(cmd.sent < Sends) /\ Recvs > 0
  <2>1. cmd' = [cmd EXCEPT !.pc = "recv", !.got = got]
    BY <1>3, <1>14 DEF AckNext, Sends, Recvs, got
  <2>2. cmd' \in CmdSet
    BY <1>2, <1>9, <2>1, CmdSteps, Zenon DEF Phases
  <2>3. /\ cmd'.pc = "recv" /\ cmd'.name = cmd.name /\ cmd'.n = cmd.n /\ cmd'.saved = cmd.saved
        /\ cmd'.got = got /\ cmd'.sent = cmd.sent /\ cmd'.late = cmd.late
    BY <1>2, <2>1 DEF CmdSet
  <2>4. cmd.sent = Sends /\ Params = Recvs
    BY <1>4, <1>14 DEF Params
  <2>5. GotLens'
    BY <1>4, <1>9, <1>14, <2>3, <2>4 DEF GotLens, Sends, Recvs
  <2>6. GotOwn'
    BY <1>0, <1>10, <1>14, <2>3 DEF GotOwn, To
  <2>7. ASSUME ~cmd.late PROVE DataNow(t)'
    <3>1. Left' = Recvs
      <4>1. Sends' = Sends /\ Recvs' = Recvs
        BY <2>3 DEF Sends, Recvs
      <4>2. Len(cmd'.got) = Sends + 1
        BY <1>4, <1>9, <2>3, <2>4
      <4> QED
        BY <1>4, <4>1, <4>2 DEF Left
    <3>2. First(t)' = 1
      BY <1>2 DEF First, Empty, Ports
    <3>3. Span(t, 0) = Recvs
      BY <1>5, <1>14, <2>4, <2>7
    <3> QED
      BY <1>2, <1>4, <1>5, <1>6, <2>3, <2>7, <3>1, <3>2, <3>3 DEF DataNow
  <2>8. PsType' /\ IrqOwn' /\ CtrRight'
    BY <2>2, <2>3, RecvFrame
  <2>9. OneAnswer'
    <3>1. To' = t
      BY <1>0, <2>3 DEF To
    <3> QED
      BY <1>8, <2>3, <2>7, <3>1 DEF OneAnswer
  <2> QED
    BY <2>5, <2>6, <2>8, <2>9 DEF PsInv
<1>15. CASE b.kind = "ack" /\ ~(cmd.sent < Sends) /\ ~(Recvs > 0)
  <2>1. cmd' = [cmd EXCEPT !.pc = "restore", !.got = got, !.ok = TRUE]
    BY <1>3, <1>15 DEF AckNext, Sends, Recvs, got
  <2>2. cmd' \in CmdSet
    BY <1>2, <1>9, <2>1, CmdSteps, Zenon DEF Phases
  <2>3. /\ cmd'.pc = "restore" /\ cmd'.name = cmd.name /\ cmd'.n = cmd.n /\ cmd'.saved = cmd.saved
        /\ cmd'.got = got /\ cmd'.late = cmd.late
    BY <1>2, <2>1 DEF CmdSet
  <2>4. GotLens'
    BY <2>3 DEF GotLens
  <2>5. GotOwn'
    BY <1>0, <1>10, <1>15, <2>3 DEF GotOwn, To
  <2>6. ~cmd.late => Span(t, 0) = 0
    BY <1>4, <1>5, <1>15 DEF Params
  <2> QED
    BY <1>11, <2>2, <2>3, <2>4, <2>5, <2>6
<1> QED
  BY <1>3, <1>12, <1>13, <1>14, <1>15

\* A parameter is at hand: the rest follows, or the command is at its end.
LEMMA DataKeeps ==
    ASSUME PsInv, Recv, cmd.pc = "recv", PartOf(port.obf)
    PROVE  PsInv'
<1>0. PICK t \in Ports : t = To
  BY CmdNumbers DEF PsInv
<1>1. PICK b \in AllBytes : b = port.obf
  BY RecvFrame
<1>2. /\ cmd \in CmdSet /\ out' = out /\ port'.obf = Empty /\ \A g \in Ports : Quiet(g) => Quiet(g)'
  BY RecvFrame
<1>3. b.from = t /\ cmd' = DataNext(b)
  BY <1>0, <1>1 DEF Recv, PartOf
<1>4. /\ Sends \in Nat /\ Recvs \in Nat /\ Len(cmd.got) \in Nat /\ cmd.n \in Nat /\ Left \in Int
      /\ 1 + Sends <= Len(cmd.got) /\ Len(cmd.got) < 1 + Sends + Recvs /\ cmd.sent = Sends
  BY CmdNumbers DEF PsInv, GotLens
<1>5. Left = 1 + Sends + Recvs - Len(cmd.got) /\ Left >= 1
  BY <1>4 DEF Left
<1>6. First(t) = 0 /\ First(t)' = 1
  BY <1>1, <1>2, <1>3 DEF First, Empty, Ports
<1>7. ASSUME ~cmd.late
      PROVE  /\ b = Byte(t, "data", cmd.n) /\ Left - 1 <= Len(out[t])
             /\ \A i \in Nat : There(t, i) =>
                    IF i < Left THEN Pend(t, i) = Byte(t, "data", cmd.n) ELSE Pend(t, i).kind \in {"code", "move"}
  <2>1. DataNow(t)
    BY <1>0, <1>7 DEF PsInv, OneAnswer
  <2>2. There(t, 0) /\ Pend(t, 0) = b
    BY <1>1, <1>3 DEF There, Pend
  <2>3. \A i \in Nat : There(t, i) =>
            IF i < Left THEN Pend(t, i) = Byte(t, "data", cmd.n) ELSE Pend(t, i).kind \in {"code", "move"}
    BY <1>4, <1>6, <2>1 DEF DataNow
  <2>4. Left - 1 <= Len(out[t])
    BY <1>4, <1>6, <2>1 DEF DataNow
  <2>5. 0 \in Nat /\ 0 < Left
    <3>1. Left \in Int /\ Left >= 1
      BY <1>4, <1>5
    <3> QED
      BY <3>1
  <2>6. Pend(t, 0) = Byte(t, "data", cmd.n)
    BY <2>2, <2>3, <2>5
  <2> QED
    BY <2>2, <2>3, <2>4, <2>6
<1>8. ASSUME NEW i \in Nat, There(t, i)' PROVE There(t, i) /\ i # 0 /\ Pend(t, i)' = Pend(t, i)
  BY <1>2, <1>8, Dropped DEF PsInv
<1>9. ASSUME ~cmd.late, NEW g \in Ports, g # t PROVE Quiet(g)'
  BY <1>0, <1>2, <1>9 DEF PsInv, OneAnswer
<1> DEFINE got == Append(cmd.got, b)
           all == Len(got) = 1 + Sends + Recvs
<1>10. got \in Seq(AllBytes) /\ Len(got) = Len(cmd.got) + 1
  BY GotMore
<1>11. ~cmd.late => \A i \in 1..Len(got) : got[i].from = t /\ got[i].kind \in {"ack", "data"} /\ got[i].val = cmd.n
  <2>1. ~cmd.late => b.kind = "data" /\ b.val = cmd.n
    BY <1>7 DEF Byte
  <2> QED
    BY <1>0, <1>3, <1>10, <2>1, GotMore
<1>12. cmd' = [cmd EXCEPT !.got = got, !.pc = IF all THEN "restore" ELSE "recv", !.ok = all]
  BY <1>3 DEF DataNext, Sends, Recvs
<1> HIDE DEF got
<1>13. cmd' \in CmdSet
  <2>1. (IF all THEN "restore" ELSE "recv") \in Phases /\ all \in BOOLEAN
    BY DEF Phases
  <2> HIDE DEF all
  <2> QED
    BY <1>2, <1>10, <1>12, <2>1, CmdSteps, Zenon
<1>14. /\ cmd'.name = cmd.name /\ cmd'.n = cmd.n /\ cmd'.saved = cmd.saved
       /\ cmd'.got = got /\ cmd'.sent = cmd.sent /\ cmd'.late = cmd.late
       /\ cmd'.pc = IF all THEN "restore" ELSE "recv"
  <2> HIDE DEF all
  <2> QED
    BY <1>2, <1>12 DEF CmdSet
<1>15. PsType' /\ IrqOwn' /\ CtrRight'
  BY <1>13, <1>14, RecvFrame
<1>16. GotOwn'
  BY <1>0, <1>11, <1>14 DEF GotOwn, To
<1>17. To' = t /\ Sends' = Sends /\ Recvs' = Recvs
  BY <1>0, <1>14 DEF To, Sends, Recvs
<1>18. CASE all
  <2>1. cmd'.pc = "restore"
    BY <1>14, <1>18
  <2>2. Left = 1
    BY <1>4, <1>5, <1>10, <1>18
  <2>3. ~cmd.late => Quiet(t)'
    BY <1>7, <1>8, <2>2 DEF Quiet
  <2> QED
    BY <1>9, <1>14, <1>15, <1>16, <2>1, <2>3 DEF PsInv, GotLens, OneAnswer
<1>19. CASE ~all
  <2>1. cmd'.pc = "recv"
    BY <1>14, <1>19
  <2>2. 1 + Sends <= Len(got) /\ Len(got) < 1 + Sends + Recvs
    BY <1>4, <1>10, <1>19
  <2>3. GotLens'
    BY <1>4, <1>14, <1>17, <2>1, <2>2 DEF GotLens
  <2>4. Left' = Left - 1
    <3>1. Len(cmd'.got) = Len(cmd.got) + 1
      BY <1>10, <1>14
    <3> QED
      BY <1>4, <1>5, <1>17, <3>1 DEF Left
  <2>5. ~cmd.late => DataNow(t)'
    BY <1>2, <1>4, <1>6, <1>7, <1>8, <1>14, <2>4 DEF DataNow
  <2>6. OneAnswer'
    BY <1>9, <1>14, <1>17, <2>1, <2>5 DEF OneAnswer
  <2> QED
    BY <1>15, <1>16, <2>3, <2>6 DEF PsInv
<1> QED
  BY <1>18, <1>19

LEMMA RecvKeeps ==
    ASSUME PsInv, Recv
    PROVE  PsInv'
BY OtherKeeps, AckKeeps, DataKeeps DEF Recv

-----------------------------------------------------------------------------
(***************************************************************************)
(* The theorems.                                                           *)
(***************************************************************************)

LEMMA PsInitial == PsInit => PsInv
<1> SUFFICES ASSUME PsInit PROVE PsInv
  OBVIOUS
<1>1. cmd \in CmdSet
  <2>1. "KRESET" \in DOMAIN Commands /\ <<>> \in Seq(AllBytes)
    BY CommandsType
  <2> QED
    BY <2>1 DEF PsInit, CmdSet, Phases, Off
<1>2. todo \in Seq(DOMAIN Commands)
  BY CommandsType DEF PsInit
<1>3. PsType
  BY <1>1, <1>2 DEF PsInit, PsType, Off
<1>4. IrqOwn /\ CtrRight /\ GotLens /\ GotOwn
  BY DEF PsInit, IrqOwn, CtrRight, Sound, GotLens, GotOwn, Off
<1>5. OneAnswer
  BY DEF PsInit, OneAnswer, Quiet, There, Pend, Ports, Empty
<1> QED
  BY <1>3, <1>4, <1>5 DEF PsInv

\* SetHandler, and a key the guest takes, leave the controller and its commands alone.
LEMMA StayKeeps ==
    ASSUME PsInv, UNCHANGED <<port, out, ctr, todo, cmd>>
    PROVE  PsInv'
BY DEF PsInv, PsType, IrqOwn, CtrRight, Sound, GotLens, GotOwn, OneAnswer, Quiet, AnswerAt, DataNow, First, Left,
       Span, Params, There, Pend, Sends, Recvs, To

\* Whatever is typed and moved meanwhile, and whichever controller writes, bytes and
\* answers fail: a command that succeeds has got its own answers, an interrupt finds
\* the byte it was raised for, and the controller does what Ps2ctr says.
THEOREM AnswersStayOwn == PsSpec => []AnswersOwn
<1>1. KbdInit /\ PsInit => PsInv
  BY PsInitial
<1>2. PsInv /\ [PsNext]_<<psVars, kbdVars>> => PsInv'
  <2> SUFFICES ASSUME PsInv, [PsNext]_<<psVars, kbdVars>> PROVE PsInv'
    OBVIOUS
  <2>1. ASSUME NEW from \in {"kbd", "aux"}, Arrive(from) PROVE PsInv'
    BY <2>1, ArriveKeeps DEF Ports
  <2>2. ASSUME NEW k \in PsKeys, Type(k) PROVE PsInv'
    BY <2>2, TypeKeeps
  <2>3. CASE Move \/ Handle09 \/ Handle74
    BY <2>3, MoveKeeps, HandleKeeps
  <2>4. CASE Setup \/ MouseInit
    BY <2>4, SetupKeeps, MouseInitKeeps
  <2>5. ASSUME NEW name \in {"SETLEDS", "KGETID", "MENABLE", "MDISABLE", "SETRATE", "GETINFO"}, Issue(name)
        PROVE  PsInv'
    BY <2>5, IssueKeeps
  <2>6. CASE SetHandler
    BY <2>6, StayKeeps DEF SetHandler
  <2>7. CASE Enable \/ Send
    BY <2>7, EnableKeeps, SendKeeps
  <2>8. CASE Recv \/ Expire \/ Restore
    BY <2>8, RecvKeeps, ExpireKeeps, RestoreKeeps
  <2>9. CASE Dequeue(TRUE) /\ UNCHANGED psVars
    BY <2>9, StayKeeps
  <2>10. CASE UNCHANGED <<psVars, kbdVars>>
    BY <2>10, StayKeeps
  <2> QED
    BY <2>1, <2>2, <2>3, <2>4, <2>5, <2>6, <2>7, <2>8, <2>9, <2>10 DEF PsNext
<1>3. PsInv => AnswersOwn
  <2> SUFFICES ASSUME PsInv PROVE AnswersOwn
    OBVIOUS
  <2>1. cmd.got \in Seq(AllBytes)
    BY CmdFields DEF PsInv, PsType
  <2>2. DOMAIN cmd.got = 1..Len(cmd.got)
    BY <2>1, LenProperties
  <2> QED
    BY <2>2 DEF PsInv, IrqOwn, CtrRight, GotOwn, AnswersOwn
<1> QED
  BY <1>1, <1>2, <1>3, PTL DEF PsSpec


-----------------------------------------------------------------------------
(* Transfers: what driver and controller have agreed on so far.             *)

Parts(n) == [i \in 1 .. n |-> i]
XferCalls == [pc : {"idle", "fill", "refuse", "wait", "tick"}, n : Nat, cmd : BOOLEAN,
              parts : Nat, pos : Nat, ret : {0, -1}]
XferTds == [st : {"idle", "active", "done", "err"}, part : Nat, link : Slots \union {TERM}, tog : {0, 1}]
TrbArgs == [part : Nat, call : Nat, last : BOOLEAN]
XferTrbs == [part : Nat, call : Nat, last : BOOLEAN, cs : {0, 1}]
XferEvents == [eidx : 1 .. RingItems - 1, cc : {"ok", "err"}]
XferRings == [trb : [0 .. RingItems - 1 -> XferTrbs], nidx : 0 .. RingItems - 1, eidx : 0 .. RingItems - 1,
              cs : {0, 1}, deq : 0 .. RingItems - 1, dcs : {0, 1}, halt : BOOLEAN,
              cc : {"none", "ok", "err"}, evts : Seq(XferEvents), owed : Nat]

XferTypeOK ==
    /\ xk \in {"uhci", "ohci", "ehci", "xhci"} /\ call \in XferCalls /\ td \in [Slots -> XferTds]
    /\ elem \in Slots \union {TERM} /\ fetched \in Slots \union {TERM}
    /\ ring \in XferRings /\ ring.trb[RingItems - 1].part = 0
    /\ moved \in Seq(Nat) /\ tog \in [pipe : {0, 1}, dev : {0, 1}] /\ broken \in BOOLEAN /\ late \in BOOLEAN

\* Which controller waits where.
XferRoles ==
    /\ call.pc = "fill" => xk = "uhci"
    /\ call.pc = "refuse" => xk \in {"ohci", "ehci"}
    /\ xk = "xhci" => call.pc \in {"idle", "wait"} /\ elem = TERM /\ fetched = TERM /\ ~late
    /\ late => broken

\* When the controller may touch the descriptors.
XferPlaces ==
    /\ call.pc = "fill" => xk = "uhci" /\ call.pos < call.parts
    /\ call.pc = "refuse" => xk \in {"ohci", "ehci"}
    /\ xk = "xhci" => call.pc \in {"idle", "wait"} /\ elem = TERM /\ fetched = TERM
    /\ call.pc \in {"idle", "refuse"} => fetched = TERM /\ (elem = TERM \/ td[elem].st # "active")
    /\ call.pc = "tick" => elem = TERM
    /\ fetched # TERM => td[fetched].st = "active" /\ (call.pc # "tick" => elem = fetched)
    /\ call.pc # "idle" => call.parts > 0

\* OHCI and EHCI: k descriptors are done, one may have failed, the others wait.
ListedTo(k) ==
    /\ call.parts <= Tds
    /\ \A i \in 0 .. call.parts - 1 : /\ td[i].part = i + 1
                                      /\ td[i].link = IF i + 1 = call.parts THEN TERM ELSE i + 1
    /\ \A i \in 0 .. k - 1 : td[i].st = "done"
    /\ \A i \in (k + 1) .. (call.parts - 1) : td[i].st = "active"
    /\ k < call.parts => td[k].st \in {"active", "err"}
    /\ moved = Parts(k)
    /\ elem = IF k = call.parts \/ (xk = "ohci" /\ k = call.parts - 1 /\ td[k].st = "err") THEN TERM ELSE k
    /\ xk = "ehci" => call.pos <= k /\ call.pos < call.parts
ListInv == xk \in {"ohci", "ehci"} =>
    /\ call.pc = "wait" => \E k \in 0 .. call.parts : ListedTo(k)
    /\ call.pc = "idle" /\ call.ret = 0 /\ call.n > 0 => moved = Parts(call.parts) \/ OhciHaltMissed

\* UHCI: of the parts filled in, k are done; the others are in the descriptors that
\* follow one another around the stack's, and their toggles alternate up to the pipe's.
Slot(p) == p % Tds
WindowAt(k) ==
    /\ k <= call.pos /\ call.pos <= call.parts /\ call.pos <= k + Tds
    /\ call.pc = "wait" => call.pos = call.parts
    /\ \A p \in k .. call.pos - 1 :
          /\ td[Slot(p)].part = p + 1
          /\ td[Slot(p)].link = IF p + 1 = call.parts THEN TERM ELSE Slot(p + 1)
          /\ td[Slot(p)].st = "active" \/ (p = k /\ td[Slot(p)].st = "err")
    /\ elem = IF k = call.parts THEN TERM ELSE Slot(k)
    /\ \A p \in call.pos .. k + Tds - 1 : td[Slot(p)].st \in {"idle", "done"}
Toggled(k) ==
    /\ call.cmd \/ ~broken => moved = Parts(k)
    /\ ~call.cmd /\ ~broken =>
          /\ \A p \in k .. call.pos - 2 : td[Slot(p + 1)].tog = 1 - td[Slot(p)].tog
          /\ k < call.pos => td[Slot(k)].tog = tog.dev /\ tog.pipe = 1 - td[Slot(call.pos - 1)].tog
          /\ k = call.pos => tog.pipe = tog.dev
    /\ call.cmd /\ ~broken => tog.pipe = tog.dev
UhciInv == xk = "uhci" =>
    /\ call.pc \in {"fill", "wait"} => \E k \in 0 .. call.parts : WindowAt(k) /\ Toggled(k)
    /\ call.pc = "idle" /\ ~broken => /\ tog.pipe = tog.dev
                                      /\ call.ret = 0 /\ call.n > 0 => moved = Parts(call.parts)

\* XHCI: the distance of a place of the ring from the next free one, backwards; the
\* TRBs that were not executed; and the newest answer.
Ahead(r, e) == IF e <= r.nidx THEN r.nidx - e ELSE r.nidx + (RingItems - 1) - e
Back(r, j) == IF j <= r.nidx THEN r.nidx - j ELSE r.nidx + (RingItems - 1) - j
Pending(r) == IF r.dcs = r.cs THEN r.nidx - r.deq ELSE r.nidx + (RingItems - 1) - r.deq
Newest(r) == IF r.evts = <<>> THEN r.eidx ELSE r.evts[Len(r.evts)].eidx
NewestCc(r) == IF r.evts = <<>> THEN r.cc ELSE r.evts[Len(r.evts)].cc

\* What is before the next free place has its cycle bit, what is after it the other.
Laps(r) ==
    /\ \A i \in 0 .. RingItems - 1 : r.trb[i].cs = IF i < r.nidx THEN r.cs ELSE 1 - r.cs
    /\ IF r.dcs = r.cs THEN r.deq <= r.nidx ELSE r.nidx <= r.deq /\ r.nidx > 0
    /\ \A i \in 0 .. RingItems - 2 : r.trb[i].part = 0 => r.dcs = r.cs /\ i >= r.nidx
    /\ r.nidx = 0 => r.eidx = 0 /\ r.evts = <<>>
RingAnswered(r) ==
    /\ Pending(r) <= Ahead(r, Newest(r)) /\ Ahead(r, Newest(r)) <= Ahead(r, r.eidx)
    /\ Ahead(r, r.eidx) <= r.owed
\* The last TRBs of the ring are those of the transfer that is waited for.
Queued(r) ==
    /\ \A j \in 1 .. Pending(r) :
          LET t == r.trb[Back(r, j)] IN
          IF j <= call.parts THEN t.call = call.n /\ t.part = call.parts - j + 1 ELSE t.call # call.n
    /\ moved = Parts(IF Pending(r) <= call.parts THEN call.parts - Pending(r) ELSE 0)
RingInv == xk = "xhci" =>
    /\ \A i \in 0 .. RingItems - 1 : ring.trb[i].call <= call.n
    /\ ring.halt => NewestCc(ring) = "err"
    /\ ring.owed < RingItems - 1 /\ ~ring.halt =>
          Laps(ring) /\ RingAnswered(ring) /\ (call.pc = "wait" => Queued(ring))
    /\ ring.owed < RingItems - 1 /\ call.pc = "idle" /\ call.ret = 0 /\ call.n > 0 =>
          ~ring.halt /\ Pending(ring) = 0 /\ moved = Parts(call.parts)

\* As long as no controller was late; after that nothing is agreed on but the types.
XferInv == /\ XferTypeOK /\ XferRoles
           /\ late \/ (XferPlaces /\ ListInv /\ UhciInv /\ RingInv)

LEMMA XferSafe == XferInv => TransfersClean
<1> SUFFICES ASSUME XferInv, call.pc = "idle"
             PROVE  MovedExactly /\ (late \/ (fetched = TERM /\ ~CanFetch))
  BY DEF TransfersClean
<1>1. ~late => fetched = TERM /\ ~CanFetch
  BY DEF XferInv, XferPlaces, CanFetch
<1>2. MovedExactly
  BY DEF XferInv, XferRoles, XferTypeOK, ListInv, UhciInv, RingInv, MovedExactly, Parts
<1> QED
  BY <1>1, <1>2

LEMMA XferInvInit == XferInit => XferInv
<1> SUFFICES ASSUME XferInit PROVE XferInv
  OBVIOUS
<1> USE XferAssumption DEF XferInit
<1>1. 0 \in Slots /\ 0 \in 0 .. RingItems - 1 /\ RingItems - 1 \in 0 .. RingItems - 1
  BY DEF Slots
<1>2. call \in XferCalls
  BY DEF Idle, XferCalls
<1>3. td \in [Slots -> XferTds]
  BY DEF EmptyTds, XferTds
<1>4. <<>> \in Seq(XferEvents) /\ <<>> \in Seq(Nat)
  OBVIOUS
<1>5. ring \in XferRings
  <2>1. ring.trb \in [0 .. RingItems - 1 -> XferTrbs]
    BY DEF EmptyRing, XferTrbs
  <2> QED
    BY <1>1, <1>4, <2>1 DEF EmptyRing, XferRings
<1>6. XferTypeOK
  BY <1>1, <1>2, <1>3, <1>4, <1>5 DEF XferTypeOK, EmptyRing
<1>7. XferPlaces /\ ListInv /\ UhciInv /\ XferRoles
  BY DEF XferPlaces, ListInv, UhciInv, XferRoles, Idle
<1>8. RingInv
  <2>1. Pending(ring) = 0 /\ Newest(ring) = 0 /\ Ahead(ring, 0) = 0
    BY DEF EmptyRing, Pending, Newest, Ahead
  <2>2. Laps(ring) /\ RingAnswered(ring)
    BY <2>1 DEF Laps, RingAnswered, EmptyRing
  <2>3. \A i \in 0 .. RingItems - 1 : ring.trb[i].call <= call.n
    BY DEF EmptyRing, Idle
  <2> QED
    BY <2>2, <2>3 DEF RingInv, EmptyRing, Idle
<1> QED
  BY <1>6, <1>7, <1>8 DEF XferInv

LEMMA RingWith ==
    ASSUME NEW r \in XferRings
    PROVE  /\ \A v \in 0 .. RingItems - 1 : [r EXCEPT !.nidx = v] \in XferRings
           /\ \A v \in 0 .. RingItems - 1 : [r EXCEPT !.eidx = v] \in XferRings
           /\ \A v \in {0, 1} : [r EXCEPT !.cs = v] \in XferRings
           /\ \A v \in 0 .. RingItems - 1 : [r EXCEPT !.deq = v] \in XferRings
           /\ \A v \in {0, 1} : [r EXCEPT !.dcs = v] \in XferRings
           /\ \A v \in BOOLEAN : [r EXCEPT !.halt = v] \in XferRings
           /\ \A v \in {"none", "ok", "err"} : [r EXCEPT !.cc = v] \in XferRings
           /\ \A v \in Seq(XferEvents) : [r EXCEPT !.evts = v] \in XferRings
           /\ \A v \in Nat : [r EXCEPT !.owed = v] \in XferRings
           /\ \A v \in [0 .. RingItems - 1 -> XferTrbs] : [r EXCEPT !.trb = v] \in XferRings
BY DEF XferRings

-----------------------------------------------------------------------------
\* xhci_trb_queue: one TRB more, in the next free place, and perhaps a link before it.
Place(r) == IF r.nidx = RingItems - 1 THEN 0 ELSE r.nidx
OneMore(r, t, q) ==
    /\ q \in XferRings /\ q.trb[RingItems - 1].part = 0
    /\ q.nidx = Place(r) + 1
    /\ q.cs = IF r.nidx = RingItems - 1 THEN 1 - r.cs ELSE r.cs
    /\ q.eidx = r.eidx /\ q.deq = r.deq /\ q.dcs = r.dcs /\ q.halt = r.halt
    /\ q.cc = r.cc /\ q.evts = r.evts /\ q.owed = r.owed
    /\ Place(r) \in 0 .. RingItems - 2
    /\ q.trb[Place(r)] = [part |-> t.part, call |-> t.call, last |-> t.last, cs |-> q.cs]
    /\ r.nidx = RingItems - 1 =>
          q.trb[RingItems - 1] = [part |-> 0, call |-> 0, last |-> FALSE, cs |-> r.cs]
    /\ \A i \in 0 .. RingItems - 1 :
          i # Place(r) /\ (r.nidx = RingItems - 1 => i # RingItems - 1) => q.trb[i] = r.trb[i]

LEMMA QueueOne ==
    ASSUME NEW r \in XferRings, r.trb[RingItems - 1].part = 0,
           NEW t \in TrbArgs, NEW q, q = TrbQueue(r, t)
    PROVE  OneMore(r, t, q)
<1> DEFINE link == [part |-> 0, call |-> 0, last |-> FALSE, cs |-> r.cs]
           new(c) == [part |-> t.part, call |-> t.call, last |-> t.last, cs |-> c]
<1> USE XferAssumption
<1>1. /\ r.nidx \in 0 .. RingItems - 1 /\ r.cs \in {0, 1} /\ r.trb \in [0 .. RingItems - 1 -> XferTrbs]
      /\ 0 \in 0 .. RingItems - 1 /\ RingItems - 1 \in 0 .. RingItems - 1 /\ 0 # RingItems - 1
  BY DEF XferRings
<1>2. link \in XferTrbs /\ new(0) \in XferTrbs /\ new(1) \in XferTrbs
  BY <1>1 DEF XferTrbs, TrbArgs
<1>3. CASE r.nidx = RingItems - 1
  <2> DEFINE s == [r EXCEPT !.trb[r.nidx] = link, !.nidx = 0, !.cs = 1 - @]
  <2>1. q = [s EXCEPT !.trb[s.nidx] = new(s.cs), !.nidx = @ + 1]
    BY <1>1, <1>3 DEF TrbQueue
  <2>2. /\ s.nidx = 0 /\ s.cs = 1 - r.cs /\ s.trb = [r.trb EXCEPT ![RingItems - 1] = link]
        /\ s.eidx = r.eidx /\ s.deq = r.deq /\ s.dcs = r.dcs /\ s.halt = r.halt
        /\ s.cc = r.cc /\ s.evts = r.evts /\ s.owed = r.owed
    BY <1>3 DEF XferRings
  <2>3. s \in XferRings
    <3> DEFINE a == [r EXCEPT !.trb = s.trb]  b == [a EXCEPT !.nidx = 0]
    <3>1. s.trb \in [0 .. RingItems - 1 -> XferTrbs]
      BY <1>1, <1>2, <2>2
    <3>2. a \in XferRings
      BY <3>1 DEF XferRings
    <3>3. b \in XferRings
      BY <1>1, <3>2 DEF XferRings
    <3>4. s = [b EXCEPT !.cs = 1 - r.cs] /\ 1 - r.cs \in {0, 1}
      BY <1>1, <1>3, <2>2 DEF XferRings
    <3> QED
      BY <3>3, <3>4 DEF XferRings
  <2> HIDE DEF s, link, new
  <2>4. /\ q.nidx = 1 /\ q.cs = 1 - r.cs /\ q.trb = [s.trb EXCEPT ![0] = new(1 - r.cs)]
        /\ q.eidx = r.eidx /\ q.deq = r.deq /\ q.dcs = r.dcs /\ q.halt = r.halt
        /\ q.cc = r.cc /\ q.evts = r.evts /\ q.owed = r.owed
    BY <2>1, <2>2, <2>3 DEF XferRings
  <2>5. new(1 - r.cs) \in XferTrbs
    BY <1>1, <1>2
  <2>6. q.trb \in [0 .. RingItems - 1 -> XferTrbs]
    BY <1>1, <2>3, <2>4, <2>5 DEF XferRings
  <2>7. q \in XferRings
    <3> DEFINE a == [s EXCEPT !.trb = q.trb]
    <3>1. a \in XferRings
      BY <2>3, <2>6 DEF XferRings
    <3>2. 1 \in 0 .. RingItems - 1
      BY <1>1
    <3>3. q = [a EXCEPT !.nidx = 1]
      BY <2>1, <2>2, <2>3, <2>4, <2>6 DEF XferRings
    <3> QED
      BY <3>1, <3>2, <3>3 DEF XferRings
  <2>8. /\ q.trb[0] = new(1 - r.cs) /\ q.trb[RingItems - 1] = link
        /\ \A i \in 0 .. RingItems - 1 : i # 0 /\ i # RingItems - 1 => q.trb[i] = r.trb[i]
    BY <1>1, <2>2, <2>4
  <2> QED
    BY <1>3, <2>4, <2>7, <2>8 DEF Place, link, new, OneMore
<1>4. CASE r.nidx # RingItems - 1
  <2>1. q = [r EXCEPT !.trb[r.nidx] = new(r.cs), !.nidx = @ + 1]
    <3>1. ~(r.nidx >= RingItems - 1)
      BY <1>1, <1>4
    <3> QED
      BY <3>1 DEF TrbQueue
  <2> HIDE DEF new
  <2>2. /\ q.nidx = r.nidx + 1 /\ q.cs = r.cs /\ q.trb = [r.trb EXCEPT ![r.nidx] = new(r.cs)]
        /\ q.eidx = r.eidx /\ q.deq = r.deq /\ q.dcs = r.dcs /\ q.halt = r.halt
        /\ q.cc = r.cc /\ q.evts = r.evts /\ q.owed = r.owed
    BY <2>1 DEF XferRings
  <2>3. new(r.cs) \in XferTrbs
    BY <1>1, <1>2
  <2>4. q.trb \in [0 .. RingItems - 1 -> XferTrbs]
    BY <1>1, <2>2, <2>3
  <2>5. q \in XferRings
    <3> DEFINE a == [r EXCEPT !.trb = q.trb]
    <3>1. a \in XferRings
      BY <2>4 DEF XferRings
    <3>2. (r.nidx + 1) \in 0 .. RingItems - 1
      BY <1>1, <1>4
    <3>3. q = [a EXCEPT !.nidx = (r.nidx + 1)]
      BY <2>1, <2>2, <2>3, <2>4 DEF XferRings
    <3> QED
      BY <3>1, <3>2, <3>3 DEF XferRings
  <2>6. /\ q.trb[r.nidx] = new(r.cs)
        /\ \A i \in 0 .. RingItems - 1 : i # r.nidx => q.trb[i] = r.trb[i]
    BY <1>1, <2>2
  <2> QED
    BY <1>1, <1>4, <2>2, <2>5, <2>6 DEF Place, new, OneMore
<1> QED
  BY <1>3, <1>4

LEMMA QueueKeeps ==
    ASSUME NEW r \in XferRings, r.trb[RingItems - 1].part = 0, NEW t \in TrbArgs,
           NEW q, q = TrbQueue(r, t)
    PROVE  /\ q \in XferRings /\ q.trb[RingItems - 1].part = 0
           /\ q.eidx = r.eidx /\ q.evts = r.evts
<1>1. OneMore(r, t, q)
  BY QueueOne
<1> QED
  BY <1>1 DEF OneMore

LEMMA TrbOfType ==
    ASSUME NEW n \in Nat, NEW parts \in 1 .. 3, NEW i \in 1 .. 3
    PROVE  /\ TrbOf(n, parts, i) \in TrbArgs
           /\ TrbOf(n, parts, i).part = i /\ TrbOf(n, parts, i).call = n
BY DEF TrbOf, TrbArgs

\* The TRBs of a transfer, up to three, are queued.
LEMMA QueueAllType ==
    ASSUME NEW r \in XferRings, r.trb[RingItems - 1].part = 0, NEW n \in Nat, NEW parts \in 1 .. 3,
           \A i \in 0 .. RingItems - 1 : r.trb[i].call <= n
    PROVE  /\ QueueAll(r, n, parts) \in XferRings
           /\ QueueAll(r, n, parts).trb[RingItems - 1].part = 0
           /\ \A i \in 0 .. RingItems - 1 : QueueAll(r, n, parts).trb[i].call <= n
           /\ QueueAll(r, n, parts).owed = r.owed /\ QueueAll(r, n, parts).halt = r.halt
           /\ NewestCc(QueueAll(r, n, parts)) = NewestCc(r)
<1> DEFINE Good(s) == /\ s \in XferRings /\ s.trb[RingItems - 1].part = 0
                      /\ \A i \in 0 .. RingItems - 1 : s.trb[i].call <= n
                      /\ s.owed = r.owed /\ s.halt = r.halt /\ NewestCc(s) = NewestCc(r)
           two == TrbQueue(TrbQueue(r, TrbOf(n, parts, 1)), TrbOf(n, parts, 2))
<1> USE XferAssumption
<1>1. ASSUME NEW s, NEW i \in 1 .. 3, Good(s) PROVE Good(TrbQueue(s, TrbOf(n, parts, i)))
  <2> DEFINE t == TrbOf(n, parts, i)  q == TrbQueue(s, t)
  <2>1. t \in TrbArgs /\ t.call = n
    BY TrbOfType
  <2> HIDE DEF t
  <2>2. /\ q \in XferRings /\ q.trb[RingItems - 1].part = 0
        /\ q.owed = r.owed /\ q.halt = r.halt /\ q.cc = s.cc /\ q.evts = s.evts
        /\ q.trb[Place(s)] = [part |-> t.part, call |-> t.call, last |-> t.last, cs |-> q.cs]
        /\ s.nidx = RingItems - 1 =>
             q.trb[RingItems - 1] = [part |-> 0, call |-> 0, last |-> FALSE, cs |-> s.cs]
        /\ \A k \in 0 .. RingItems - 1 :
              k # Place(s) /\ (s.nidx = RingItems - 1 => k # RingItems - 1) => q.trb[k] = s.trb[k]
    BY <1>1, <2>1, QueueOne DEF OneMore
  <2> HIDE DEF q
  <2>3. \A k \in 0 .. RingItems - 1 : q.trb[k].call <= n
    BY <1>1, <2>1, <2>2
  <2>4. NewestCc(q) = NewestCc(s)
    BY <2>2 DEF NewestCc
  <2> QED
    BY <1>1, <2>2, <2>3, <2>4 DEF q, t
<1>2. Good(r)
  OBVIOUS
<1> HIDE DEF Good
<1>3. Good(TrbQueue(r, TrbOf(n, parts, 1)))
  BY <1>1, <1>2
<1>4. Good(two)
  BY <1>1, <1>3
<1>5. Good(TrbQueue(two, TrbOf(n, parts, 3)))
  BY <1>1, <1>4
<1>6. Good(QueueAll(r, n, parts))
  BY <1>3, <1>4, <1>5 DEF QueueAll
<1> QED
  BY <1>6 DEF Good

LEMMA ProcessedType ==
    ASSUME NEW r \in XferRings
    PROVE  /\ Processed(r) \in XferRings /\ Processed(r).trb = r.trb /\ Processed(r).nidx = r.nidx
           /\ Processed(r).cs = r.cs /\ Processed(r).deq = r.deq /\ Processed(r).dcs = r.dcs
           /\ Processed(r).halt = r.halt /\ Processed(r).owed = r.owed
           /\ Processed(r).evts = <<>> /\ Processed(r).eidx = Newest(r) /\ Processed(r).cc = NewestCc(r)
<1>1. CASE r.evts = <<>>
  BY <1>1 DEF Processed, Newest, NewestCc
<1>2. CASE r.evts # <<>>
  <2>1. r.evts[Len(r.evts)] \in XferEvents /\ <<>> \in Seq(XferEvents)
    BY <1>2 DEF XferRings
  <2>2. /\ r.evts[Len(r.evts)].eidx \in 0 .. RingItems - 1
        /\ r.evts[Len(r.evts)].cc \in {"none", "ok", "err"}
    BY <2>1, XferAssumption DEF XferEvents
  <2>3. Processed(r) = [r EXCEPT !.eidx = Newest(r), !.cc = NewestCc(r), !.evts = <<>>]
    BY <1>2 DEF Processed, Newest, NewestCc
  <2>4. Newest(r) \in 0 .. RingItems - 1 /\ NewestCc(r) \in {"none", "ok", "err"}
    BY <1>2, <2>2 DEF Newest, NewestCc
  <2> DEFINE a == [r EXCEPT !.eidx = Newest(r)]  b == [a EXCEPT !.cc = NewestCc(r)]
  <2>5. a \in XferRings
    BY <2>4 DEF XferRings
  <2>6. b \in XferRings
    BY <2>4, <2>5 DEF XferRings
  <2>7. Processed(r) = [b EXCEPT !.evts = <<>>]
    BY <2>3 DEF XferRings
  <2> QED
    BY <2>1, <2>3, <2>6, <2>7 DEF XferRings
<1> QED
  BY <1>1, <1>2

-----------------------------------------------------------------------------
\* The actions by the kind of controller.
UhciStep == \/ \E n \in 1 .. MaxParts, control \in BOOLEAN : UhciSend(n, control)
            \/ UhciFill \/ UhciDone \/ UhciFail \/ WaitTick \/ TickOver \/ Fetch \/ Complete
ListStep == \/ \E n \in 1 .. MaxParts, control \in BOOLEAN : TdSend(n, control)
            \/ TdRefuse \/ OhciDone \/ OhciFail \/ EhciWait \/ EhciFail \/ WaitTick \/ TickOver \/ Fetch \/ Complete
RingStep == \/ \E n \in 1 .. MaxParts, control \in BOOLEAN : XhciSend(n, control)
            \/ XhciExec \/ XhciWait

LEMMA XferKindStep ==
    ASSUME XferTypeOK, XferRoles, XferNext
    PROVE  /\ xk' = xk
           /\ xk = "uhci" => UhciStep
           /\ xk \in {"ohci", "ehci"} => ListStep
           /\ xk = "xhci" => RingStep
<1>1. CASE \E n \in 1 .. MaxParts, control \in BOOLEAN : UhciSend(n, control)
  BY <1>1 DEF UhciSend, UhciStep
<1>2. CASE \E n \in 1 .. MaxParts, control \in BOOLEAN : OhciSend(n, control)
  BY <1>2 DEF OhciSend, TdSend, ListStep
<1>3. CASE \E n \in 1 .. MaxParts, control \in BOOLEAN : EhciSend(n, control)
  BY <1>3 DEF EhciSend, TdSend, ListStep
<1>4. CASE \E n \in 1 .. MaxParts, control \in BOOLEAN : XhciSend(n, control)
  BY <1>4 DEF XhciSend, RingStep
<1>5. CASE UhciFill
  BY <1>5 DEF UhciFill, UhciStep
<1>6. CASE UhciDone
  BY <1>6 DEF UhciDone, UhciStep
<1>7. CASE UhciFail
  BY <1>7 DEF UhciFail, UhciStep
<1>8. CASE TdRefuse
  BY <1>8 DEF TdRefuse, ListStep, XferRoles
<1>9. CASE OhciDone
  BY <1>9 DEF OhciDone, ListStep
<1>10. CASE OhciFail
  BY <1>10 DEF OhciFail, ListStep
<1>11. CASE EhciWait
  BY <1>11 DEF EhciWait, ListStep
<1>12. CASE EhciFail
  BY <1>12 DEF EhciFail, ListStep
<1>13. CASE WaitTick
  BY <1>13 DEF WaitTick, UhciStep, ListStep, XferRoles
<1>14. CASE Fetch
  BY <1>14 DEF Fetch, CanFetch, UhciStep, ListStep
<1>15. CASE Complete
  BY <1>15 DEF Complete, UhciStep, ListStep, XferRoles
<1>16. CASE XhciExec
  BY <1>16 DEF XhciExec, RingStep
<1>17. CASE XhciWait
  BY <1>17 DEF XhciWait, RingStep
<1>18. CASE TickOver
  BY <1>18 DEF TickOver, UhciStep, ListStep, XferRoles
<1> QED
  BY <1>1, <1>2, <1>3, <1>4, <1>5, <1>6, <1>7, <1>8, <1>9, <1>10, <1>11, <1>12, <1>13, <1>14, <1>15,
     <1>16, <1>17, <1>18 DEF XferNext

LEMMA BeginType ==
    ASSUME XferTypeOK, NEW n \in 1 .. MaxParts, NEW control \in BOOLEAN,
           NEW p \in {"fill", "wait", "refuse"}, Begin(n, control, p)
    PROVE  /\ call' \in XferCalls /\ moved' \in Seq(Nat) /\ moved' = <<>>
           /\ call'.pc = p /\ call'.n = call.n + 1 /\ call'.cmd = control /\ call'.parts = n
           /\ call'.pos = 0 /\ call'.ret = 0
<1>1. n \in Nat /\ call.n \in Nat /\ call.n + 1 \in Nat
  BY XferAssumption DEF XferTypeOK, XferCalls
<1>2. call' = [pc |-> p, n |-> call.n + 1, cmd |-> control, parts |-> n, pos |-> 0, ret |-> 0] /\ moved' = <<>>
  BY DEF Begin
<1> QED
  BY <1>1, <1>2 DEF XferCalls

LEMMA ReturnsType ==
    ASSUME XferTypeOK, NEW r \in {0, -1}, Returns(r)
    PROVE  /\ call' \in XferCalls /\ broken' \in BOOLEAN /\ broken' = (broken \/ r # 0) /\ late' = late
           /\ call'.pc = "idle" /\ call'.n = call.n /\ call'.cmd = call.cmd /\ call'.parts = call.parts
           /\ call'.ret = r
<1>1. call' = [call EXCEPT !.pc = "idle", !.ret = r] /\ call \in XferCalls
  BY DEF Returns, XferTypeOK
<1>2. call' \in XferCalls
  BY <1>1 DEF XferCalls
<1> QED
  BY <1>1, <1>2 DEF XferCalls, XferTypeOK, Returns

\* What a descriptor that was worked on becomes.
LEMMA CompleteIs ==
    ASSUME XferTypeOK, Complete
    PROVE  /\ fetched \in Slots /\ td[fetched] \in XferTds /\ td' \in [Slots -> XferTds]
           /\ elem' \in Slots \union {TERM} /\ fetched' = TERM
           /\ moved' \in Seq(Nat) /\ tog' \in [pipe : {0, 1}, dev : {0, 1}]
           /\ UNCHANGED <<xk, call, ring, broken, late>>
           /\ \A i \in Slots : i # fetched => td'[i] = td[i]
           /\ td'[fetched].part = td[fetched].part /\ td'[fetched].link = td[fetched].link
           /\ td'[fetched].tog = td[fetched].tog
           /\ \/ /\ td'[fetched].st = "done"
                 /\ elem' = IF elem = fetched THEN td[fetched].link ELSE elem
                 /\ IF xk # "uhci" \/ call.cmd \/ td[fetched].tog = tog.dev
                    THEN /\ moved' = Append(moved, td[fetched].part)
                         /\ tog' = IF call.cmd THEN tog ELSE [tog EXCEPT !.dev = 1 - @]
                    ELSE UNCHANGED <<moved, tog>>
              \/ /\ td'[fetched].st = "err"
                 /\ elem' = IF elem = fetched /\ xk = "ohci" /\ td[fetched].link = TERM THEN TERM ELSE elem
                 /\ UNCHANGED <<moved, tog>>
<1> DEFINE t == td[fetched]  takes == xk # "uhci" \/ call.cmd \/ t.tog = tog.dev
<1>1. fetched \in Slots /\ t \in XferTds /\ td \in [Slots -> XferTds] /\ tog \in [pipe : {0, 1}, dev : {0, 1}]
      /\ moved \in Seq(Nat) /\ t.part \in Nat /\ t.link \in Slots \union {TERM}
  BY DEF Complete, XferTypeOK, XferTds
<1>2. fetched' = TERM /\ UNCHANGED <<xk, call, ring, broken, late>>
  BY DEF Complete
<1>3. CASE /\ td' = [td EXCEPT ![fetched].st = "done"]
           /\ elem' = IF elem = fetched THEN t.link ELSE elem
           /\ moved' = IF takes THEN Append(moved, t.part) ELSE moved
           /\ tog' = IF takes /\ ~call.cmd THEN [tog EXCEPT !.dev = 1 - @] ELSE tog
  <2>1. td' = [td EXCEPT ![fetched] = [t EXCEPT !.st = "done"]] /\ [t EXCEPT !.st = "done"] \in XferTds
    BY <1>1, <1>3 DEF XferTds
  <2>2. td' \in [Slots -> XferTds] /\ \A i \in Slots : i # fetched => td'[i] = td[i]
    BY <1>1, <2>1
  <2>3. td'[fetched] = [t EXCEPT !.st = "done"]
    BY <1>1, <2>1
  <2>4. /\ td'[fetched].part = t.part /\ td'[fetched].link = t.link /\ td'[fetched].tog = t.tog
        /\ td'[fetched].st = "done"
    BY <1>1, <2>3 DEF XferTds
  <2>5. moved' \in Seq(Nat) /\ elem' \in Slots \union {TERM}
    BY <1>1, <1>3, AppendProperties DEF XferTypeOK
  <2>6. tog' \in [pipe : {0, 1}, dev : {0, 1}]
    BY <1>1, <1>3
  <2> QED
    BY <1>1, <1>2, <1>3, <2>2, <2>4, <2>5, <2>6
<1>4. CASE /\ td' = [td EXCEPT ![fetched].st = "err"]
           /\ elem' = IF elem = fetched /\ xk = "ohci" /\ t.link = TERM THEN TERM ELSE elem
           /\ UNCHANGED <<moved, tog>>
  <2>1. td' = [td EXCEPT ![fetched] = [t EXCEPT !.st = "err"]] /\ [t EXCEPT !.st = "err"] \in XferTds
    BY <1>1, <1>4 DEF XferTds
  <2>2. td' \in [Slots -> XferTds] /\ \A i \in Slots : i # fetched => td'[i] = td[i]
    BY <1>1, <2>1
  <2>3. td'[fetched] = [t EXCEPT !.st = "err"]
    BY <1>1, <2>1
  <2>4. /\ td'[fetched].part = t.part /\ td'[fetched].link = t.link /\ td'[fetched].tog = t.tog
        /\ td'[fetched].st = "err"
    BY <1>1, <2>3 DEF XferTds
  <2>5. moved' \in Seq(Nat) /\ tog' \in [pipe : {0, 1}, dev : {0, 1}] /\ elem' \in Slots \union {TERM}
    BY <1>1, <1>4 DEF XferTypeOK
  <2> QED
    BY <1>1, <1>2, <1>4, <2>2, <2>4, <2>5
<1> QED
  BY <1>3, <1>4 DEF Complete

LEMMA XferTypeUhci ==
    ASSUME XferTypeOK, UhciStep, xk = "uhci", xk' = xk
    PROVE  XferTypeOK'
<1> USE XferAssumption
<1>0. /\ 0 \in Slots /\ call \in XferCalls /\ td \in [Slots -> XferTds] /\ tog \in [pipe : {0, 1}, dev : {0, 1}]
      /\ call.pos \in Nat /\ call.parts \in Nat
  BY DEF XferTypeOK, Slots, XferCalls
<1>1. ASSUME NEW n \in 1 .. MaxParts, NEW control \in BOOLEAN, UhciSend(n, control) PROVE XferTypeOK'
  <2>1. call' \in XferCalls /\ moved' \in Seq(Nat)
    BY <1>1, BeginType DEF UhciSend
  <2>2. td' \in [Slots -> XferTds]
    BY <1>1 DEF UhciSend, EmptyTds, XferTds
  <2> QED
    BY <1>0, <1>1, <2>1, <2>2 DEF UhciSend, XferTypeOK
<1>2. CASE UhciFill
  <2> DEFINE i == call.pos % Tds
             t == [st |-> "active", part |-> call.pos + 1, tog |-> tog.pipe,
                   link |-> IF call.pos + 1 = call.parts THEN TERM ELSE (i + 1) % Tds]
  <2>1. i \in Slots /\ (i + 1) % Tds \in Slots
    BY <1>0 DEF Slots
  <2> HIDE DEF i
  <2>2. t \in XferTds
    BY <1>0, <2>1 DEF XferTds
  <2>3. td' = [td EXCEPT ![i] = t]
    BY <1>2 DEF UhciFill, i
  <2> HIDE DEF t
  <2>4. td' \in [Slots -> XferTds]
    BY <1>0, <2>1, <2>2, <2>3
  <2>5. call' \in XferCalls
    <3> DEFINE a == [call EXCEPT !.pos = @ + 1]
    <3>1. a \in XferCalls
      BY <1>0 DEF XferCalls
    <3>2. call' = [a EXCEPT !.pc = IF call.pos + 1 = call.parts THEN "wait" ELSE "fill"]
      BY <1>0, <1>2 DEF UhciFill, XferCalls
    <3> QED
      BY <3>1, <3>2 DEF XferCalls
  <2>6. tog' \in [pipe : {0, 1}, dev : {0, 1}]
    BY <1>0, <1>2 DEF UhciFill
  <2> QED
    BY <1>2, <2>4, <2>5, <2>6 DEF UhciFill, XferTypeOK
<1>3. CASE UhciDone
  BY <1>3, ReturnsType DEF UhciDone, XferTypeOK
<1>4. CASE UhciFail
  <2>1. (tog.pipe + call.pos) % 2 \in {0, 1}
    BY <1>0
  <2>2. tog' \in [pipe : {0, 1}, dev : {0, 1}]
    BY <1>0, <1>4, <2>1 DEF UhciFail
  <2>3. call' \in XferCalls
    BY <1>0, <1>4 DEF UhciFail, XferCalls
  <2> QED
    BY <1>4, <2>2, <2>3 DEF UhciFail, XferTypeOK
<1>5. CASE WaitTick
  BY <1>5, ReturnsType DEF WaitTick, XferTypeOK
<1>6. CASE Fetch
  BY <1>6 DEF Fetch, XferTypeOK
<1>7. CASE Complete
  BY <1>7, CompleteIs DEF XferTypeOK
<1>8. CASE TickOver
  <2>1. call' \in XferCalls
    BY <1>0, <1>8 DEF TickOver, XferCalls
  <2> QED
    BY <1>8, <2>1 DEF TickOver, XferTypeOK
<1> QED
  BY <1>1, <1>2, <1>3, <1>4, <1>5, <1>6, <1>7, <1>8 DEF UhciStep

LEMMA XferTypeList ==
    ASSUME XferTypeOK, ListStep, xk \in {"ohci", "ehci"}, xk' = xk
    PROVE  XferTypeOK'
<1> USE XferAssumption
<1>0. /\ 0 \in Slots /\ call \in XferCalls /\ td \in [Slots -> XferTds] /\ Tds \in Nat
      /\ call.pos \in Nat /\ call.parts \in Nat
  BY DEF XferTypeOK, Slots, XferCalls
<1>1. ASSUME NEW n \in 1 .. MaxParts, NEW control \in BOOLEAN, TdSend(n, control) PROVE XferTypeOK'
  <2>1. call' \in XferCalls /\ moved' \in Seq(Nat)
    BY <1>1, BeginType DEF TdSend
  <2>2. td' \in [Slots -> XferTds] /\ elem' \in Slots \union {TERM}
    <3>1. CASE n > Tds
      BY <1>0, <1>1, <3>1 DEF TdSend, XferTypeOK
    <3>2. CASE ~(n > Tds)
      <4> DEFINE F(i) == IF i < n THEN [st |-> "active", part |-> i + 1, tog |-> 0,
                                        link |-> IF i + 1 = n THEN TERM ELSE i + 1]
                         ELSE EmptyTds[i]
      <4>1. td' = [i \in Slots |-> F(i)] /\ elem' = 0
        BY <1>1, <3>2 DEF TdSend
      <4>2. ASSUME NEW i \in Slots PROVE F(i) \in XferTds
        <5>1. i \in Nat /\ (i < n /\ i + 1 # n => i + 1 \in Slots)
          BY <3>2 DEF Slots
        <5> QED
          BY <5>1 DEF XferTds, EmptyTds
      <4> HIDE DEF F
      <4> QED
        BY <1>0, <4>1, <4>2
    <3> QED
      BY <3>1, <3>2
  <2> QED
    BY <1>0, <1>1, <2>1, <2>2 DEF TdSend, XferTypeOK
<1>2. CASE TdRefuse
  BY <1>2, ReturnsType DEF TdRefuse, XferTypeOK
<1>3. CASE OhciDone
  BY <1>3, ReturnsType DEF OhciDone, XferTypeOK
<1>4. CASE OhciFail
  <2>1. call' \in XferCalls
    BY <1>0, <1>4 DEF OhciFail, XferCalls
  <2> QED
    BY <1>4, <2>1 DEF OhciFail, XferTypeOK
<1>5. CASE EhciWait
  <2>1. CASE td[call.pos].st = "err"
    BY <1>5, <2>1, ReturnsType DEF EhciWait, XferTypeOK
  <2>2. CASE td[call.pos].st # "err" /\ call.pos + 1 = call.parts
    BY <1>5, <2>2, ReturnsType DEF EhciWait, XferTypeOK
  <2>3. CASE td[call.pos].st # "err" /\ call.pos + 1 # call.parts
    <3>1. call' \in XferCalls
      BY <1>0, <1>5, <2>3 DEF EhciWait, XferCalls
    <3> QED
      BY <1>5, <2>3, <3>1 DEF EhciWait, XferTypeOK
  <2> QED
    BY <2>1, <2>2, <2>3
<1>6. CASE EhciFail
  <2>1. call' \in XferCalls
    BY <1>0, <1>6 DEF EhciFail, XferCalls
  <2> QED
    BY <1>6, <2>1 DEF EhciFail, XferTypeOK
<1>7. CASE WaitTick
  BY <1>7, ReturnsType DEF WaitTick, XferTypeOK
<1>8. CASE Fetch
  BY <1>8 DEF Fetch, XferTypeOK
<1>9. CASE Complete
  BY <1>9, CompleteIs DEF XferTypeOK
<1>10. CASE TickOver
  <2>1. call' \in XferCalls
    BY <1>0, <1>10 DEF TickOver, XferCalls
  <2> QED
    BY <1>10, <2>1 DEF TickOver, XferTypeOK
<1> QED
  BY <1>1, <1>2, <1>3, <1>4, <1>5, <1>6, <1>7, <1>8, <1>9, <1>10 DEF ListStep

LEMMA XferTypeRing ==
    ASSUME XferTypeOK, RingStep, xk = "xhci", xk' = xk,
           \A i \in 0 .. RingItems - 1 : ring.trb[i].call <= call.n
    PROVE  XferTypeOK' /\ \A i \in 0 .. RingItems - 1 : ring'.trb[i].call <= call'.n
<1> USE XferAssumption
<1>0. /\ call \in XferCalls /\ call.n \in Nat /\ ring \in XferRings /\ ring.trb[RingItems - 1].part = 0
      /\ moved \in Seq(Nat) /\ ring.trb \in [0 .. RingItems - 1 -> XferTrbs]
      /\ \A i \in 0 .. RingItems - 1 : ring.trb[i].call \in Nat
  BY DEF XferTypeOK, XferCalls, XferRings, XferTrbs
<1>1. ASSUME NEW n \in 1 .. MaxParts, NEW control \in BOOLEAN, XhciSend(n, control)
      PROVE  XferTypeOK' /\ \A i \in 0 .. RingItems - 1 : ring'.trb[i].call <= call'.n
  <2>1. call' \in XferCalls /\ moved' \in Seq(Nat) /\ call'.n = call.n + 1
    BY <1>1, BeginType DEF XhciSend
  <2> DEFINE r == QueueAll(ring, call.n + 1, n)
  <2>2. n \in 1 .. 3 /\ call.n + 1 \in Nat
    BY <1>0, <1>1 DEF XhciSend
  <2>3. \A i \in 0 .. RingItems - 1 : ring.trb[i].call <= call.n + 1
    BY <1>0
  <2>4. /\ r \in XferRings /\ r.trb[RingItems - 1].part = 0 /\ r.owed = ring.owed
        /\ \A i \in 0 .. RingItems - 1 : r.trb[i].call <= call.n + 1
    BY <1>0, <2>2, <2>3, QueueAllType
  <2>5. PICK o : ring' = [r EXCEPT !.owed = o] /\ o \in {r.owed + n, n}
    BY <1>1 DEF XhciSend
  <2> HIDE DEF r
  <2>6. o \in Nat
    BY <2>2, <2>4, <2>5 DEF XferRings
  <2>7. ring' \in XferRings /\ ring'.trb = r.trb
    BY <2>4, <2>5, <2>6 DEF XferRings
  <2> QED
    BY <1>1, <2>1, <2>4, <2>7 DEF XhciSend, XferTypeOK
<1>2. CASE XhciExec
  <2> DEFINE t == ring.trb[ring.deq]
  <2>1. /\ ring.deq \in 0 .. RingItems - 1 /\ t \in XferTrbs /\ t.part \in Nat
        /\ UNCHANGED <<xk, call, td, elem, fetched, tog, broken, late>>
        /\ ring.evts \in Seq(XferEvents)
    BY <1>0, <1>2 DEF XferRings, XferTrbs, XhciExec
  <2>2. CASE t.part = 0
    <3>1. ring' = [ring EXCEPT !.deq = 0, !.dcs = 1 - @] /\ moved' = moved
      BY <1>2, <2>2 DEF XhciExec
    <3> DEFINE a == [ring EXCEPT !.deq = 0]
    <3>2. 0 \in 0 .. RingItems - 1 /\ ring.dcs \in {0, 1} /\ 1 - ring.dcs \in {0, 1}
      BY <1>0 DEF XferRings
    <3>3. a \in XferRings
      BY <1>0, <3>2, RingWith
    <3>4. ring' = [a EXCEPT !.dcs = 1 - ring.dcs] /\ ring'.trb = ring.trb
      BY <1>0, <3>1 DEF XferRings
    <3> HIDE DEF a
    <3>5. ring' \in XferRings
      BY <3>2, <3>3, <3>4, RingWith
    <3> QED
      BY <2>1, <3>1, <3>4, <3>5 DEF XferTypeOK
  <2>3. CASE t.part # 0
    <3>1. ring.deq + 1 \in 1 .. RingItems - 1
      BY <1>0, <2>1, <2>3
    <3> DEFINE e(c) == [eidx |-> ring.deq + 1, cc |-> c]
    <3>2. Append(ring.evts, e("ok")) \in Seq(XferEvents) /\ Append(ring.evts, e("err")) \in Seq(XferEvents)
      BY <2>1, <3>1 DEF XferEvents
    <3> DEFINE x == IF t.last THEN Append(ring.evts, e("ok")) ELSE ring.evts
    <3>3. x \in Seq(XferEvents)
      BY <2>1, <3>2
    <3>4. \/ ring' = [ring EXCEPT !.deq = ring.deq + 1, !.evts = x] /\ moved' \in {moved, Append(moved, t.part)}
          \/ ring' = [ring EXCEPT !.halt = TRUE, !.evts = Append(ring.evts, e("err"))] /\ moved' = moved
      BY <1>2, <2>3 DEF XhciExec
    <3> HIDE DEF x, e
    <3>5. moved' \in Seq(Nat)
      <4>1. Append(moved, t.part) \in Seq(Nat)
        BY <1>0, <2>1, AppendProperties
      <4>2. moved' \in {moved, Append(moved, t.part)}
        BY <3>4
      <4> HIDE DEF t
      <4> QED
        BY <1>0, <4>1, <4>2
    <3> DEFINE a == [ring EXCEPT !.deq = ring.deq + 1]
               b == [ring EXCEPT !.halt = TRUE]
    <3>6. a \in XferRings /\ b \in XferRings
      <4>1. ring.deq + 1 \in 0 .. RingItems - 1 /\ TRUE \in BOOLEAN
        BY <3>1
      <4> QED
        BY <1>0, <4>1, RingWith
    <3>7. ring' = [a EXCEPT !.evts = x] \/ ring' = [b EXCEPT !.evts = Append(ring.evts, e("err"))]
      BY <3>4
    <3>8. ring' \in XferRings /\ ring'.trb = ring.trb
      <4>1. /\ [a EXCEPT !.evts = x] \in XferRings
            /\ [b EXCEPT !.evts = Append(ring.evts, e("err"))] \in XferRings
        BY <3>2, <3>3, <3>6, RingWith
      <4>2. [a EXCEPT !.evts = x].trb = ring.trb /\ [b EXCEPT !.evts = Append(ring.evts, e("err"))].trb = ring.trb
        BY <1>0 DEF XferRings
      <4> QED
        BY <3>7, <4>1, <4>2
    <3> QED
      BY <2>1, <3>5, <3>8 DEF XferTypeOK
  <2> QED
    BY <2>2, <2>3
<1>3. CASE XhciWait
  <2>1. ring' = Processed(ring) /\ (Returns(-1) \/ Returns(0)) /\ UNCHANGED <<xk, td, elem, fetched, moved, tog>>
    BY <1>3 DEF XhciWait
  <2>2. call' \in XferCalls /\ broken' \in BOOLEAN /\ call'.n = call.n /\ late' = late
    BY <2>1, ReturnsType
  <2>3. ring' \in XferRings /\ ring'.trb = ring.trb
    BY <1>0, <2>1, ProcessedType
  <2> QED
    BY <2>1, <2>2, <2>3 DEF XferTypeOK
<1> QED
  BY <1>1, <1>2, <1>3 DEF RingStep

-----------------------------------------------------------------------------
LEMMA PartsGrow ==
    /\ Parts(0) = <<>>
    /\ \A k \in Nat : Append(Parts(k), k + 1) = Parts(k + 1)
<1>1. Parts(0) = <<>>
  BY DEF Parts
<1>2. ASSUME NEW k \in Nat PROVE Append(Parts(k), k + 1) = Parts(k + 1)
  <2>1. Parts(k) \in Seq(Nat) /\ Len(Parts(k)) = k /\ Parts(k + 1) \in Seq(Nat) /\ Len(Parts(k + 1)) = k + 1
    BY DEF Parts
  <2>2. \A i \in 1 .. k : Parts(k)[i] = i
    BY DEF Parts
  <2>3. \A i \in 1 .. k + 1 : Parts(k + 1)[i] = i
    BY DEF Parts
  <2>4. /\ Append(Parts(k), k + 1) \in Seq(Nat) /\ Len(Append(Parts(k), k + 1)) = k + 1
        /\ \A i \in 1 .. k : Append(Parts(k), k + 1)[i] = i
        /\ Append(Parts(k), k + 1)[k + 1] = k + 1
    BY <2>1, <2>2, AppendProperties
  <2>5. \A i \in 1 .. k + 1 : Append(Parts(k), k + 1)[i] = Parts(k + 1)[i]
    BY <2>3, <2>4
  <2> HIDE DEF Parts
  <2> QED
    BY <2>1, <2>4, <2>5, SeqEqual
<1> QED
  BY <1>1, <1>2

LEMMA ListComplete ==
    ASSUME XferTypeOK, XferPlaces, ListInv, Complete, xk \in {"ohci", "ehci"}, call.pc = "wait", XferTypeOK'
    PROVE  /\ \E k \in 0 .. call.parts : ListedTo(k)'
<1> USE XferAssumption
<1>0. Tds \in Nat /\ call.parts \in Nat /\ TERM \notin Slots /\ Slots = 0 .. Tds - 1 /\ call.pos \in Nat
  BY DEF TERM, Slots, XferTypeOK, XferCalls
<1>1. PICK k \in 0 .. call.parts : ListedTo(k)
  BY DEF ListInv
<1>2. fetched # TERM /\ elem = fetched /\ td[fetched].st = "active"
  BY DEF Complete, XferPlaces
<1>3. k < call.parts /\ elem = k /\ td[k].st = "active" /\ k \in 0 .. call.parts - 1 /\ k \in Slots
  BY <1>0, <1>1, <1>2 DEF ListedTo
<1>4. /\ td[k].part = k + 1 /\ td[k].link = IF k + 1 = call.parts THEN TERM ELSE k + 1
  BY <1>1, <1>3 DEF ListedTo
<1>5. /\ call.parts <= Tds /\ \A i \in 0 .. call.parts - 1 : i \in Slots
  BY <1>0, <1>1 DEF ListedTo
<1>6. /\ \A i \in Slots : i # k => td'[i] = td[i]
      /\ td'[k].part = td[k].part /\ td'[k].link = td[k].link /\ UNCHANGED <<xk, call>>
  BY <1>2, <1>3, CompleteIs
<1>7. \A i \in 0 .. call.parts - 1 : /\ td'[i].part = i + 1
                                     /\ td'[i].link = IF i + 1 = call.parts THEN TERM ELSE i + 1
  BY <1>1, <1>4, <1>5, <1>6 DEF ListedTo
<1>8. moved = Parts(k) /\ k \in Nat
  BY <1>1 DEF ListedTo
<1>9. \A i \in 0 .. k - 1 : i \in Slots /\ i # k /\ td[i].st = "done"
  <2>1. \A i \in 0 .. k - 1 : td[i].st = "done"
    BY <1>1 DEF ListedTo
  <2>2. \A i \in 0 .. k - 1 : i \in 0 .. call.parts - 1 /\ i # k
    BY <1>0, <1>3
  <2> QED
    BY <1>5, <2>1, <2>2
<1>10. CASE td'[k].st = "done" /\ elem' = td[k].link /\ moved' = Append(moved, td[k].part)
  <2>1. moved' = Parts(k + 1)
    BY <1>4, <1>10, <1>8, PartsGrow
  <2>2. \A i \in 0 .. k : td'[i].st = "done"
    <3>1. \A i \in 0 .. k : i = k \/ i \in 0 .. k - 1
      BY <1>8
    <3> QED
      BY <1>6, <1>10, <1>9, <3>1
  <2>3. \A i \in (k + 1) .. (call.parts - 1) : td'[i].st = "active"
    BY <1>0, <1>1, <1>3, <1>5, <1>6 DEF ListedTo
  <2>4. elem' = IF k + 1 = call.parts THEN TERM ELSE k + 1
    BY <1>4, <1>10
  <2>5. k + 1 \in 0 .. call.parts /\ (xk = "ehci" => call.pos <= k + 1 /\ call.pos < call.parts)
    BY <1>0, <1>1, <1>3 DEF ListedTo
  <2>6. k + 1 < call.parts => td'[k + 1].st = "active"
    BY <1>0, <1>3, <2>3
  <2>7. ListedTo(k + 1)'
    BY <1>0, <1>3, <1>5, <1>6, <1>7, <2>1, <2>2, <2>3, <2>4, <2>5, <2>6 DEF ListedTo
  <2> QED
    BY <2>5, <2>7
<1>11. CASE td'[k].st = "err" /\ moved' = moved /\ elem' = IF xk = "ohci" /\ td[k].link = TERM THEN TERM ELSE k
  <2>1. \A i \in 0 .. k - 1 : td'[i].st = "done"
    BY <1>6, <1>9
  <2>2. \A i \in (k + 1) .. (call.parts - 1) : td'[i].st = "active"
    BY <1>0, <1>1, <1>3, <1>5, <1>6 DEF ListedTo
  <2>3. td[k].link = TERM <=> k = call.parts - 1
    BY <1>0, <1>3, <1>4, <1>5 DEF TERM
  <2>4. elem' = IF k = call.parts \/ (xk = "ohci" /\ k = call.parts - 1 /\ td'[k].st = "err") THEN TERM ELSE k
    BY <1>3, <1>11, <2>3
  <2>5. moved' = Parts(k) /\ (xk = "ehci" => call.pos <= k /\ call.pos < call.parts)
    BY <1>1, <1>11 DEF ListedTo
  <2> QED
    BY <1>3, <1>5, <1>6, <1>7, <1>11, <2>1, <2>2, <2>4, <2>5 DEF ListedTo
<1> QED
  BY <1>2, <1>3, <1>10, <1>11, CompleteIs

LEMMA XferList ==
    ASSUME XferTypeOK, XferPlaces, ListInv, ListStep, xk \in {"ohci", "ehci"}, xk' = xk, XferTypeOK', ~late'
    PROVE  XferPlaces' /\ ListInv'
<1> USE XferAssumption
<1>0. /\ Tds \in Nat /\ TERM \notin Slots /\ Slots = 0 .. Tds - 1 /\ 0 \in Slots
      /\ call \in XferCalls /\ call.pos \in Nat /\ call.parts \in Nat
  BY DEF TERM, Slots, XferTypeOK, XferCalls
<1>1. ASSUME NEW n \in 1 .. MaxParts, NEW control \in BOOLEAN, TdSend(n, control) PROVE XferPlaces' /\ ListInv'
  <2>1. call.pc = "idle" /\ fetched' = TERM /\ n >= 1
    BY <1>1 DEF TdSend, Begin, XferPlaces
  <2>2. CASE n > Tds
    <3>1. call'.pc = "refuse" /\ call'.parts = n /\ UNCHANGED <<td, elem>>
      BY <1>1, <2>2, BeginType DEF TdSend
    <3> QED
      BY <2>1, <3>1 DEF XferPlaces, ListInv
  <2>3. CASE ~(n > Tds)
    <3>1. /\ call'.pc = "wait" /\ call'.parts = n /\ call'.pos = 0 /\ moved' = <<>> /\ elem' = 0
          /\ td' = [i \in Slots |-> IF i < n THEN [st |-> "active", part |-> i + 1, tog |-> 0,
                                                   link |-> IF i + 1 = n THEN TERM ELSE i + 1]
                                    ELSE EmptyTds[i]]
      BY <1>1, <2>3, BeginType DEF TdSend
    <3>2. n \in Nat /\ n <= Tds /\ \A i \in 0 .. n - 1 : i \in Slots /\ i < n
      BY <1>0, <2>1, <2>3
    <3>3. \A i \in 0 .. n - 1 : td'[i].st = "active" /\ td'[i].part = i + 1
                                /\ td'[i].link = IF i + 1 = n THEN TERM ELSE i + 1
      BY <3>1, <3>2
    <3>4. 0 \in 0 .. n - 1 /\ 0 # n /\ td'[0].st = "active"
      BY <2>1, <3>2, <3>3
    <3>6. \A i \in 0 + 1 .. n - 1 : td'[i].st = "active"
      BY <3>2, <3>3
    <3>7. moved' = Parts(0) /\ (elem' = IF 0 = n \/ (xk' = "ohci" /\ 0 = n - 1 /\ td'[0].st = "err") THEN TERM ELSE 0)
      BY <3>1, <3>4, PartsGrow
    <3>8. 0 <= 0 /\ 0 < n /\ \A i \in 0 .. 0 - 1 : FALSE
      BY <2>1, <3>2
    <3>5. ListedTo(0)'
      BY <3>1, <3>2, <3>3, <3>4, <3>6, <3>7, <3>8 DEF ListedTo
    <3> QED
      BY <2>1, <3>1, <3>2, <3>5 DEF XferPlaces, ListInv
  <2> QED
    BY <2>2, <2>3
<1>2. CASE TdRefuse
  BY <1>2, ReturnsType DEF TdRefuse, XferPlaces, ListInv
<1>3. CASE OhciDone
  <2>1. /\ call.pc = "wait" /\ elem = TERM /\ call'.pc = "idle" /\ call'.parts = call.parts
        /\ UNCHANGED <<xk, td, elem, fetched, moved>>
    BY <1>3, ReturnsType DEF OhciDone
  <2>2. PICK k \in 0 .. call.parts : ListedTo(k)
    BY <2>1 DEF ListInv
  <2>3. k = call.parts \/ (k = call.parts - 1 /\ td[k].st = "err")
    BY <1>0, <2>1, <2>2 DEF ListedTo, TERM
  <2>4. moved' = Parts(call'.parts) \/ OhciHaltMissed'
    BY <1>3, <2>1, <2>2, <2>3 DEF ListedTo, OhciHaltMissed, OhciDone
  <2>5. fetched = TERM
    BY <2>1 DEF XferPlaces
  <2> QED
    BY <2>1, <2>4, <2>5 DEF XferPlaces, ListInv
<1>4. CASE OhciFail
  <2>1. call'.pc = "tick" /\ call'.parts = call.parts /\ elem' = TERM /\ UNCHANGED <<td, fetched>> /\ call.pc = "wait"
    BY <1>0, <1>4 DEF OhciFail, XferCalls
  <2> QED
    BY <2>1 DEF XferPlaces, ListInv
<1>5. CASE EhciWait
  <2>1. call.pc = "wait" /\ call.pos < call.parts /\ td[call.pos].st # "active" /\ xk = "ehci"
        /\ UNCHANGED <<td, fetched, moved>>
    BY <1>5 DEF EhciWait
  <2>2. PICK k \in 0 .. call.parts : ListedTo(k)
    BY <2>1 DEF ListInv
  <2>3. call.pos <= k /\ (call.pos < k => td[call.pos].st = "done")
    BY <1>0, <2>1, <2>2 DEF ListedTo
  <2>4. CASE td[call.pos].st = "err"
    <3>1. call.pos = k /\ k < call.parts
      BY <1>0, <2>1, <2>3, <2>4
    <3>2. elem = k
      BY <2>1, <2>2, <3>1 DEF ListedTo
    <3>3. fetched = TERM
      BY <2>1, <2>4, <3>1, <3>2 DEF XferPlaces
    <3>4. call'.pc = "idle" /\ call'.ret = -1 /\ elem' = TERM
      BY <1>5, <2>4, ReturnsType DEF EhciWait
    <3> QED
      BY <2>1, <3>3, <3>4 DEF XferPlaces, ListInv
  <2>5. CASE td[call.pos].st # "err" /\ call.pos + 1 = call.parts
    <3>1. call.pos # k
      BY <2>1, <2>2, <2>5 DEF ListedTo
    <3>2. k = call.parts
      BY <1>0, <2>3, <2>5, <3>1
    <3>3. elem = TERM /\ moved = Parts(call.parts) /\ fetched = TERM
      BY <2>1, <2>2, <3>2 DEF ListedTo, XferPlaces
    <3>4. call'.pc = "idle" /\ call'.parts = call.parts /\ UNCHANGED elem
      BY <1>5, <2>5, ReturnsType DEF EhciWait
    <3> QED
      BY <2>1, <3>3, <3>4 DEF XferPlaces, ListInv
  <2>6. CASE td[call.pos].st # "err" /\ call.pos + 1 # call.parts
    <3>1. /\ call' = [call EXCEPT !.pos = @ + 1] /\ UNCHANGED elem
      BY <1>5, <2>6 DEF EhciWait
    <3>2. call'.pc = "wait" /\ call'.parts = call.parts /\ call'.pos = call.pos + 1 /\ call'.n = call.n
      BY <1>0, <2>1, <3>1 DEF XferCalls
    <3>3. call.pos # k
      BY <2>1, <2>2, <2>6 DEF ListedTo
    <3>4. call.pos + 1 <= k /\ call.pos + 1 < call.parts
      BY <1>0, <2>1, <2>3, <2>6, <3>3
    <3>5. ListedTo(k)'
      BY <2>1, <2>2, <3>1, <3>2, <3>4 DEF ListedTo
    <3> QED
      BY <2>1, <2>2, <3>1, <3>2, <3>5 DEF XferPlaces, ListInv
  <2> QED
    BY <2>4, <2>5, <2>6
<1>6. CASE EhciFail
  <2>1. call'.pc = "tick" /\ call'.parts = call.parts /\ elem' = TERM /\ UNCHANGED <<td, fetched>> /\ call.pc = "wait"
    BY <1>0, <1>6 DEF EhciFail, XferCalls
  <2> QED
    BY <2>1 DEF XferPlaces, ListInv
<1>7. CASE WaitTick
  BY <1>7, ReturnsType DEF WaitTick, XferPlaces, ListInv
<1>8. CASE Fetch
  <2>1. call.pc = "wait"
    BY <1>8 DEF Fetch, CanFetch, XferPlaces, XferTypeOK, XferCalls
  <2>2. fetched' = elem /\ td[elem].st = "active" /\ UNCHANGED <<call, td, elem, moved>>
    BY <1>8 DEF Fetch, CanFetch
  <2>3. \A k : ListedTo(k)' <=> ListedTo(k)
    BY <2>2 DEF ListedTo
  <2> QED
    BY <2>1, <2>2, <2>3 DEF XferPlaces, ListInv
<1>9. CASE Complete
  <2>1. call.pc \in {"wait", "tick"} /\ fetched # TERM
    BY <1>9 DEF Complete, XferPlaces, XferTypeOK, XferCalls
  <2>2. UNCHANGED call /\ fetched' = TERM
    BY <1>9, CompleteIs
  <2>3. CASE call.pc = "wait"
    BY <1>9, <2>1, <2>2, <2>3, ListComplete DEF XferPlaces, ListInv
  <2>4. CASE call.pc = "tick"
    <3>1. elem' = TERM
      BY <1>9, <2>1, <2>4, CompleteIs DEF XferPlaces
    <3> QED
      BY <2>2, <2>4, <3>1 DEF XferPlaces, ListInv
  <2> QED
    BY <2>1, <2>3, <2>4
<1>10. CASE TickOver
  BY <1>10 DEF TickOver
<1> QED
  BY <1>1, <1>2, <1>3, <1>4, <1>5, <1>6, <1>7, <1>8, <1>9, <1>10 DEF ListStep

-----------------------------------------------------------------------------
\* The descriptors of UHCI's ring: Tds parts in a row are in different ones.
LEMMA SlotFacts ==
    /\ \A p \in Nat : Slot(p) \in Slots /\ Slot(p + Tds) = Slot(p) /\ (Slot(p) + 1) % Tds = Slot(p + 1)
    /\ \A p, q \in Nat : p < q /\ q < p + Tds => Slot(p) # Slot(q)
    /\ Slot(0) = 0
<1> USE XferAssumption
<1>1. ASSUME NEW d \in Nat \ {0}, NEW n \in Int
      PROVE  n \div d \in Int /\ n % d \in 0 .. (d - 1) /\ n = d * (n \div d) + (n % d)
  <2>1. d \in Nat /\ d > 0
    OBVIOUS
  <2> QED
    BY <2>1, Z3
<1>2. ASSUME NEW d \in Nat \ {0}, NEW n \in Int, NEW q \in Int, NEW r \in 0 .. (d - 1), n = d * q + r
      PROVE  n % d = r
  BY <1>2, Z3
<1>3. ASSUME NEW p \in Nat PROVE Slot(p) \in Slots /\ Slot(p + Tds) = Slot(p) /\ (Slot(p) + 1) % Tds = Slot(p + 1)
  <2> DEFINE q == p \div Tds  r == p % Tds
  <2>1. q \in Int /\ r \in 0 .. (Tds - 1) /\ p = Tds * q + r
    BY <1>1
  <2> HIDE DEF q, r
  <2>2. p + Tds = Tds * (q + 1) + r
    BY <2>1
  <2>3. (p + Tds) % Tds = r
    BY <1>2, <2>1, <2>2
  <2>4. (r + 1) % Tds = (p + 1) % Tds
    <3>1. CASE r + 1 < Tds
      <4>1. p + 1 = Tds * q + (r + 1) /\ r + 1 = Tds * 0 + (r + 1) /\ r + 1 \in 0 .. (Tds - 1)
        BY <2>1, <3>1
      <4> QED
        BY <1>2, <2>1, <4>1
    <3>2. CASE r + 1 = Tds
      <4>1. p + 1 = Tds * (q + 1) + 0 /\ r + 1 = Tds * 1 + 0 /\ 0 \in 0 .. (Tds - 1)
        BY <2>1, <3>2
      <4>2. q + 1 \in Int /\ p + 1 \in Int /\ r + 1 \in Int
        BY <2>1
      <4>3. (p + 1) % Tds = 0
        BY <1>2, <4>1, <4>2
      <4>4. (r + 1) % Tds = 0
        BY <1>2, <4>1, <4>2
      <4> QED
        BY <4>3, <4>4
    <3> QED
      BY <2>1, <3>1, <3>2
  <2> QED
    BY <2>1, <2>3, <2>4 DEF Slot, Slots, r
<1>4. ASSUME NEW p \in Nat, NEW q \in Nat, p < q, q < p + Tds, Slot(p) = Slot(q) PROVE FALSE
  <2> DEFINE a == p \div Tds  b == q \div Tds  r == p % Tds
  <2>1. a \in Int /\ b \in Int /\ p = Tds * a + r /\ q = Tds * b + r
    BY <1>1, <1>4 DEF Slot
  <2>2. r \in Int
    BY <1>1
  <2> HIDE DEF a, b, r
  <2>3. q - p = Tds * (b - a) /\ b - a \in Int
    BY <2>1, <2>2
  <2>4. \A c \in Int : Tds * c < Tds /\ Tds * c > 0 => FALSE
    BY Z3
  <2> QED
    BY <1>4, <2>3, <2>4
<1>5. Slot(0) = 0
  <2>1. 0 = Tds * 0 + 0 /\ 0 \in 0 .. (Tds - 1)
    OBVIOUS
  <2> QED
    BY <1>2, <2>1 DEF Slot
<1> QED
  BY <1>3, <1>4, <1>5

\* What a window says of one descriptor, without the remainders.
LEMMA WindowSlots ==
    ASSUME XferTypeOK, NEW k \in Nat, WindowAt(k)
    PROVE  /\ \A p \in k .. call.pos - 1, q \in call.pos .. k + Tds - 1 : Slot(p) # Slot(q)
           /\ \A p, q \in k .. call.pos - 1 : p # q => Slot(p) # Slot(q)
           /\ \A p, q \in call.pos .. k + Tds - 1 : p # q => Slot(p) # Slot(q)
           /\ \A p \in k .. k + Tds - 1 : p \in Nat /\ Slot(p) \in Slots
<1> USE XferAssumption
<1>1. call.pos \in Nat /\ k <= call.pos /\ call.pos <= k + Tds /\ Tds \in Nat
  BY DEF WindowAt, XferTypeOK, XferCalls
<1>2. ASSUME NEW p \in k .. k + Tds - 1, NEW q \in k .. k + Tds - 1, p # q PROVE Slot(p) # Slot(q)
  <2>1. p \in Nat /\ q \in Nat /\ (p < q => q < p + Tds) /\ (q < p => p < q + Tds) /\ (p < q \/ q < p)
    BY <1>1, <1>2
  <2> QED
    BY <2>1, SlotFacts
<1>3. \A p \in k .. k + Tds - 1 : p \in Nat
  BY <1>1
<1>4. \A p \in k .. call.pos - 1 : p \in k .. k + Tds - 1
  BY <1>1
<1>5. \A p \in call.pos .. k + Tds - 1 : p \in k .. k + Tds - 1
  BY <1>1
<1>6. \A p \in k .. call.pos - 1, q \in call.pos .. k + Tds - 1 : p # q
  BY <1>1
<1> QED
  BY <1>2, <1>3, <1>4, <1>5, <1>6, SlotFacts

LEMMA UhciSendStep ==
    ASSUME XferTypeOK, XferPlaces, UhciInv, xk = "uhci", xk' = xk,
           NEW n \in 1 .. MaxParts, NEW control \in BOOLEAN, UhciSend(n, control)
    PROVE  XferPlaces' /\ UhciInv'
<1> USE XferAssumption
<1>1. /\ call.pc = "idle" /\ n \in Nat /\ n >= 1 /\ fetched' = TERM /\ elem' = 0 /\ broken' = broken
      /\ td' = EmptyTds /\ tog' = IF control THEN [pipe |-> 1, dev |-> 1] ELSE tog
  BY DEF UhciSend, Begin, XferPlaces
<1>2. call'.pc = "fill" /\ call'.parts = n /\ call'.pos = 0 /\ call'.cmd = control /\ moved' = <<>>
  BY BeginType DEF UhciSend
<1>3. \A p \in 0 .. 0 + Tds - 1 : td'[Slot(p)].st = "idle"
  <2>1. \A p \in 0 .. 0 + Tds - 1 : Slot(p) \in Slots
    BY SlotFacts
  <2> QED
    BY <1>1, <2>1 DEF EmptyTds
<1>4. elem' = IF 0 = n THEN TERM ELSE Slot(0)
  BY <1>1, SlotFacts
<1>5. \A p \in 0 .. 0 - 1 : FALSE
  OBVIOUS
<1>6. 0 <= 0 /\ 0 <= n /\ 0 <= 0 + Tds
  BY <1>1
<1>7. WindowAt(0)'
  BY <1>2, <1>3, <1>4, <1>5, <1>6 DEF WindowAt
<1>8. ~broken => tog.pipe = tog.dev
  BY <1>1 DEF UhciInv
<1>9. /\ control => tog'.pipe = tog'.dev
      /\ ~control /\ ~broken => tog'.pipe = tog'.dev
  BY <1>1, <1>8
<1>10. (\A p \in 0 .. 0 - 2 : FALSE) /\ ~(0 < 0) /\ moved' = Parts(0)
  BY <1>2, PartsGrow
<1>11. Toggled(0)'
  BY <1>1, <1>2, <1>9, <1>10 DEF Toggled
<1>12. 0 \in 0 .. n
  BY <1>1
<1> QED
  BY <1>1, <1>2, <1>6, <1>7, <1>11, <1>12 DEF XferPlaces, UhciInv

LEMMA UhciFillStep ==
    ASSUME XferTypeOK, XferPlaces, UhciInv, xk = "uhci", xk' = xk, UhciFill
    PROVE  XferPlaces' /\ UhciInv'
<1> USE XferAssumption
<1> DEFINE pos == call.pos  i == Slot(pos)
<1>1. /\ call.pc = "fill" /\ pos < call.parts /\ td[i].st \in {"idle", "done"}
      /\ td' = [td EXCEPT ![i] = [st |-> "active", part |-> pos + 1, tog |-> tog.pipe,
                                  link |-> IF pos + 1 = call.parts THEN TERM ELSE (i + 1) % Tds]]
      /\ tog' = IF call.cmd THEN tog ELSE [tog EXCEPT !.pipe = 1 - @]
      /\ call' = [call EXCEPT !.pos = @ + 1, !.pc = IF pos + 1 = call.parts THEN "wait" ELSE "fill"]
      /\ UNCHANGED <<elem, fetched, moved, broken>>
  BY DEF UhciFill, Slot
<1>2. /\ call \in XferCalls /\ pos \in Nat /\ call.parts \in Nat /\ Tds \in Nat /\ td \in [Slots -> XferTds]
      /\ tog \in [pipe : {0, 1}, dev : {0, 1}] /\ call.cmd \in BOOLEAN /\ broken \in BOOLEAN
  BY DEF XferTypeOK, XferCalls
<1>3. /\ call'.pos = pos + 1 /\ call'.parts = call.parts /\ call'.cmd = call.cmd
      /\ call'.pc = IF pos + 1 = call.parts THEN "wait" ELSE "fill"
  BY <1>1, <1>2 DEF XferCalls
<1>4. PICK k \in 0 .. call.parts : WindowAt(k) /\ Toggled(k)
  BY <1>1 DEF UhciInv
<1>5. k \in Nat /\ k <= pos /\ pos <= k + Tds
  BY <1>2, <1>4 DEF WindowAt
<1>6. /\ i \in Slots
      /\ td'[i] = [st |-> "active", part |-> pos + 1, tog |-> tog.pipe,
                   link |-> IF pos + 1 = call.parts THEN TERM ELSE Slot(pos + 1)]
      /\ \A s \in Slots : s # i => td'[s] = td[s]
  <2>1. i \in Slots /\ (i + 1) % Tds = Slot(pos + 1)
    BY <1>2, SlotFacts
  <2> HIDE DEF i
  <2> QED
    BY <1>1, <1>2, <2>1
<1>7. pos + 1 <= k + Tds
  <2>1. SUFFICES ASSUME pos = k + Tds PROVE FALSE
    BY <1>2, <1>5
  <2>2. k \in k .. call.pos - 1
    BY <1>2, <1>5, <2>1
  <2>3. td[Slot(k)].st \in {"active", "err"}
    BY <1>4, <2>2 DEF WindowAt
  <2> QED
    BY <1>1, <1>5, <2>1, <2>3, SlotFacts
<1>8. /\ \A p \in k .. pos - 1 : Slot(p) \in Slots /\ Slot(p) # i
      /\ \A p \in pos + 1 .. k + Tds - 1 : Slot(p) \in Slots /\ Slot(p) # i /\ p \in pos .. k + Tds - 1
  <2>1. pos \in pos .. k + Tds - 1
    BY <1>2, <1>5, <1>7
  <2>2. \A p \in pos + 1 .. k + Tds - 1 : p \in pos .. k + Tds - 1 /\ p # pos /\ p \in k .. k + Tds - 1
    BY <1>2, <1>5
  <2>3. \A p \in k .. pos - 1 : p \in k .. k + Tds - 1
    BY <1>2, <1>5
  <2> QED
    BY <1>4, <1>5, <2>1, <2>2, <2>3, WindowSlots
<1>9. \A p \in k .. pos : p = pos \/ p \in k .. pos - 1
  BY <1>2, <1>5
<1>10. \A p \in k .. pos :
          /\ td'[Slot(p)].part = p + 1
          /\ td'[Slot(p)].link = IF p + 1 = call.parts THEN TERM ELSE Slot(p + 1)
          /\ td'[Slot(p)].st = "active" \/ (p = k /\ td'[Slot(p)].st = "err")
  <2>1. ASSUME NEW p \in k .. pos - 1
        PROVE /\ td'[Slot(p)].part = p + 1
              /\ td'[Slot(p)].link = IF p + 1 = call.parts THEN TERM ELSE Slot(p + 1)
              /\ td'[Slot(p)].st = "active" \/ (p = k /\ td'[Slot(p)].st = "err")
    BY <1>4, <1>6, <1>8 DEF WindowAt
  <2>2. /\ td'[Slot(pos)].part = pos + 1
        /\ td'[Slot(pos)].link = IF pos + 1 = call.parts THEN TERM ELSE Slot(pos + 1)
        /\ td'[Slot(pos)].st = "active"
    BY <1>6
  <2> QED
    BY <1>9, <2>1, <2>2
<1>11. \A p \in pos + 1 .. k + Tds - 1 : td'[Slot(p)].st \in {"idle", "done"}
  BY <1>4, <1>6, <1>8 DEF WindowAt
<1>12. elem' = IF k = call.parts THEN TERM ELSE Slot(k)
  BY <1>1, <1>4 DEF WindowAt
<1>13. \A p \in k .. (pos + 1) - 1 : p \in k .. pos
  BY <1>2
<1>14. k <= pos + 1 /\ pos + 1 <= call.parts
  BY <1>1, <1>2, <1>5
<1>15. WindowAt(k)'
  <2>1. call'.pc = "wait" => pos + 1 = call.parts
    BY <1>3
  <2> HIDE DEF i
  <2> QED
    BY <1>3, <1>7, <1>10, <1>11, <1>12, <1>13, <1>14, <2>1 DEF WindowAt
<1>16. Toggled(k)'
  <2>1. call.cmd \/ ~broken => moved' = Parts(k)
    BY <1>1, <1>4 DEF Toggled
  <2>2. CASE call.cmd
    BY <1>1, <1>3, <1>4, <2>1, <2>2 DEF Toggled
  <2>3. CASE broken
    BY <1>1, <1>3, <2>1, <2>3 DEF Toggled
  <2>4. CASE ~call.cmd /\ ~broken
    <3>1. /\ tog'.pipe = 1 - tog.pipe /\ tog'.dev = tog.dev /\ td'[Slot(pos)].tog = tog.pipe
      BY <1>1, <1>2, <1>6, <2>4
    <3>2. /\ \A p \in k .. pos - 2 : td[Slot(p + 1)].tog = 1 - td[Slot(p)].tog
          /\ k < pos => td[Slot(k)].tog = tog.dev /\ tog.pipe = 1 - td[Slot(pos - 1)].tog
          /\ k = pos => tog.pipe = tog.dev
      BY <1>4, <2>4 DEF Toggled
    <3>3. \A p \in k .. pos - 1 : td'[Slot(p)].tog = td[Slot(p)].tog
      BY <1>6, <1>8
    <3>4. ASSUME NEW p \in k .. pos - 1 PROVE td'[Slot(p + 1)].tog = 1 - td'[Slot(p)].tog
      <4>1. CASE p = pos - 1
        <5>1. p + 1 = pos /\ k < pos /\ p \in k .. pos - 1
          BY <1>2, <1>5, <4>1
        <5> QED
          BY <3>1, <3>2, <3>3, <4>1, <5>1
      <4>2. CASE p # pos - 1
        <5>1. p \in k .. pos - 2 /\ p + 1 \in k .. pos - 1
          BY <1>2, <1>5, <4>2
        <5> QED
          BY <3>2, <3>3, <5>1
      <4> QED
        BY <4>1, <4>2
    <3>5. td'[Slot(k)].tog = tog.dev
      <4>1. CASE k = pos
        BY <3>1, <3>2, <4>1
      <4>2. CASE k < pos
        <5>1. k \in k .. pos - 1
          BY <1>2, <1>5, <4>2
        <5> QED
          BY <3>2, <3>3, <4>2, <5>1
      <4> QED
        BY <1>2, <1>5, <4>1, <4>2
    <3>6. \A p \in k .. (pos + 1) - 2 : p \in k .. pos - 1
      BY <1>2
    <3>7. (pos + 1) - 1 = pos /\ k # pos + 1
      BY <1>2, <1>5
    <3>8. tog'.pipe = 1 - td'[Slot((pos + 1) - 1)].tog
      BY <3>1, <3>7
    <3> QED
      BY <1>1, <1>3, <2>1, <2>4, <3>1, <3>4, <3>5, <3>6, <3>7, <3>8 DEF Toggled
  <2> QED
    BY <1>2, <2>2, <2>3, <2>4
<1>17. fetched # TERM => td'[fetched].st = "active" /\ elem = fetched
  <2>1. fetched # TERM => td[fetched].st = "active" /\ elem = fetched /\ fetched \in Slots
    BY <1>1 DEF XferPlaces, XferTypeOK
  <2> QED
    BY <1>1, <1>6, <2>1
<1>18. call'.pc = "fill" => call'.pos < call'.parts
  BY <1>1, <1>2, <1>3
<1>19. UhciInv'
  BY <1>3, <1>4, <1>15, <1>16 DEF UhciInv
<1> QED
  BY <1>1, <1>2, <1>3, <1>17, <1>18, <1>19 DEF XferPlaces

LEMMA UhciCompleteStep ==
    ASSUME XferTypeOK, XferPlaces, UhciInv, xk = "uhci", xk' = xk, Complete, call.pc \in {"fill", "wait"}
    PROVE  \E k \in 0 .. call.parts : WindowAt(k)' /\ Toggled(k)'
<1> USE XferAssumption
<1> DEFINE pos == call.pos
<1>1. PICK k \in 0 .. call.parts : WindowAt(k) /\ Toggled(k)
  BY DEF UhciInv
<1>2. /\ k \in Nat /\ pos \in Nat /\ call.parts \in Nat /\ Tds \in Nat /\ k <= pos /\ pos <= call.parts
      /\ pos <= k + Tds /\ call.cmd \in BOOLEAN /\ broken \in BOOLEAN /\ TERM \notin Slots
      /\ tog \in [pipe : {0, 1}, dev : {0, 1}] /\ Tds > 0
  BY <1>1 DEF WindowAt, XferTypeOK, XferCalls, TERM, Slots
<1>3. fetched # TERM /\ elem = fetched /\ td[fetched].st = "active"
  BY DEF Complete, XferPlaces
<1>4. k # call.parts /\ fetched = Slot(k) /\ Slot(k) \in Slots
  BY <1>1, <1>2, <1>3, SlotFacts DEF WindowAt
<1>5. k < pos
  <2>1. SUFFICES ASSUME k = pos PROVE FALSE
    BY <1>2
  <2>2. k \in pos .. k + Tds - 1
    BY <1>2, <2>1
  <2> QED
    BY <1>1, <1>3, <1>4, <2>2 DEF WindowAt
<1>6. k \in k .. pos - 1
  BY <1>2, <1>5
<1>7. td[Slot(k)].part = k + 1 /\ td[Slot(k)].link = IF k + 1 = call.parts THEN TERM ELSE Slot(k + 1)
  BY <1>1, <1>6 DEF WindowAt
<1>8. /\ UNCHANGED <<call, broken>>
      /\ \A s \in Slots : s # Slot(k) => td'[s] = td[s]
      /\ td'[Slot(k)].part = k + 1 /\ td'[Slot(k)].link = td[Slot(k)].link
      /\ td'[Slot(k)].tog = td[Slot(k)].tog
  BY <1>4, <1>7, CompleteIs
<1>9. /\ \A p \in k .. pos - 1 : Slot(p) \in Slots /\ (p # k => Slot(p) # Slot(k))
      /\ \A p \in pos .. k + Tds - 1 : Slot(p) \in Slots /\ Slot(p) # Slot(k)
  <2>1. (\A p \in k .. pos - 1 : p \in k .. k + Tds - 1) /\ (\A p \in pos .. k + Tds - 1 : p \in k .. k + Tds - 1)
    BY <1>2
  <2> QED
    BY <1>1, <1>2, <1>6, <2>1, WindowSlots
<1>10. \A p \in k .. pos - 1 : td'[Slot(p)].tog = td[Slot(p)].tog
  BY <1>8, <1>9
<1>11. \A p \in k + 1 .. pos - 1 : p \in k .. pos - 1 /\ p # k
  BY <1>2
<1>12. \A p \in pos .. k + Tds - 1 : td'[Slot(p)].st \in {"idle", "done"}
  BY <1>1, <1>8, <1>9 DEF WindowAt
<1>13. /\ ~call.cmd /\ ~broken => td[Slot(k)].tog = tog.dev /\ tog.pipe = 1 - td[Slot(pos - 1)].tog
       /\ ~call.cmd /\ ~broken => \A p \in k .. pos - 2 : td[Slot(p + 1)].tog = 1 - td[Slot(p)].tog
       /\ call.cmd /\ ~broken => tog.pipe = tog.dev
       /\ call.cmd \/ ~broken => moved = Parts(k)
  BY <1>1, <1>5 DEF Toggled
<1>14. \A p \in k .. pos - 2 : p \in k .. pos - 1 /\ p + 1 \in k .. pos - 1
  BY <1>2
<1>15. pos - 1 \in k .. pos - 1
  BY <1>2, <1>5
<1>16. CASE td'[Slot(k)].st = "err" /\ UNCHANGED <<elem, moved, tog>>
  <2>1. ASSUME NEW p \in k .. pos - 1
        PROVE  /\ td'[Slot(p)].part = p + 1
               /\ td'[Slot(p)].link = IF p + 1 = call.parts THEN TERM ELSE Slot(p + 1)
               /\ td'[Slot(p)].st = "active" \/ (p = k /\ td'[Slot(p)].st = "err")
    <3>1. CASE p = k
      BY <1>7, <1>8, <1>16, <3>1
    <3>2. CASE p # k
      BY <1>1, <1>8, <1>9, <3>2 DEF WindowAt
    <3> QED
      BY <3>1, <3>2
  <2>2. WindowAt(k)'
    BY <1>1, <1>8, <1>12, <1>16, <2>1 DEF WindowAt
  <2>3. \A p \in k .. pos - 2 : td'[Slot(p + 1)].tog = td[Slot(p + 1)].tog /\ td'[Slot(p)].tog = td[Slot(p)].tog
    BY <1>10, <1>14
  <2>4. td'[Slot(pos - 1)].tog = td[Slot(pos - 1)].tog /\ td'[Slot(k)].tog = td[Slot(k)].tog
    BY <1>6, <1>10, <1>15
  <2>5. Toggled(k)'
    BY <1>5, <1>8, <1>13, <1>16, <2>3, <2>4 DEF Toggled
  <2> QED
    BY <1>8, <2>2, <2>5
<1>17. CASE /\ td'[Slot(k)].st = "done"
            /\ elem' = td[Slot(k)].link
            /\ IF call.cmd \/ td[Slot(k)].tog = tog.dev
               THEN moved' = Append(moved, k + 1) /\ tog' = IF call.cmd THEN tog ELSE [tog EXCEPT !.dev = 1 - @]
               ELSE UNCHANGED <<moved, tog>>
  <2>1. \A p \in k + 1 .. pos - 1 :
          /\ td'[Slot(p)].part = p + 1
          /\ td'[Slot(p)].link = IF p + 1 = call.parts THEN TERM ELSE Slot(p + 1)
          /\ td'[Slot(p)].st = "active" \/ (p = k + 1 /\ td'[Slot(p)].st = "err")
    BY <1>1, <1>8, <1>9, <1>11 DEF WindowAt
  <2>2. ASSUME NEW p \in pos .. (k + 1) + Tds - 1 PROVE td'[Slot(p)].st \in {"idle", "done"}
    <3>1. CASE p = k + Tds
      <4>1. Slot(p) = Slot(k)
        BY <1>2, <3>1, SlotFacts
      <4> QED
        BY <1>17, <4>1
    <3>2. CASE p # k + Tds
      <4>1. p \in pos .. k + Tds - 1
        BY <1>2, <3>2
      <4> QED
        BY <1>12, <4>1
    <3> QED
      BY <3>1, <3>2
  <2>3. elem' = IF k + 1 = call.parts THEN TERM ELSE Slot(k + 1)
    BY <1>7, <1>17
  <2>4. k + 1 <= pos /\ pos <= call.parts /\ pos <= (k + 1) + Tds /\ (call.pc = "wait" => pos = call.parts)
    BY <1>1, <1>2, <1>5 DEF WindowAt
  <2>5. WindowAt(k + 1)'
    BY <1>8, <2>1, <2>2, <2>3, <2>4 DEF WindowAt
  <2>6. call.cmd \/ ~broken => moved' = Parts(k + 1)
    BY <1>2, <1>13, <1>17, PartsGrow
  <2>7. Toggled(k + 1)'
    <3>1. CASE broken
      BY <1>8, <2>6, <3>1 DEF Toggled
    <3>2. CASE ~broken /\ call.cmd
      BY <1>8, <1>13, <1>17, <2>6, <3>2 DEF Toggled
    <3>3. CASE ~broken /\ ~call.cmd
      <4>1. tog'.dev = 1 - tog.dev /\ tog'.pipe = tog.pipe /\ td[Slot(k)].tog = tog.dev
        BY <1>2, <1>13, <1>17, <3>3
      <4>2. \A p \in k + 1 .. pos - 2 : td'[Slot(p + 1)].tog = 1 - td'[Slot(p)].tog
        <5>1. \A p \in k + 1 .. pos - 2 : p \in k .. pos - 2
          BY <1>2
        <5> QED
          BY <1>10, <1>13, <1>14, <3>3, <5>1
      <4>3. k + 1 < pos => td'[Slot(k + 1)].tog = tog'.dev /\ tog'.pipe = 1 - td'[Slot(pos - 1)].tog
        <5>1. k + 1 < pos => k \in k .. pos - 2 /\ k + 1 \in k .. pos - 1
          BY <1>2
        <5> QED
          BY <1>10, <1>13, <1>15, <3>3, <4>1, <5>1
      <4>4. k + 1 = pos => tog'.pipe = tog'.dev
        <5>1. k + 1 = pos => pos - 1 = k
          BY <1>2
        <5> QED
          BY <1>13, <3>3, <4>1, <5>1
      <4> QED
        BY <1>8, <2>6, <3>3, <4>2, <4>3, <4>4 DEF Toggled
    <3> QED
      BY <1>2, <3>1, <3>2, <3>3
  <2>8. k + 1 \in 0 .. call.parts
    BY <1>2, <1>4
  <2> QED
    BY <1>8, <2>5, <2>7, <2>8
<1> QED
  BY <1>3, <1>4, <1>7, <1>16, <1>17, CompleteIs

LEMMA XferUhci ==
    ASSUME XferTypeOK, XferPlaces, UhciInv, UhciStep, xk = "uhci", xk' = xk, XferTypeOK', ~late'
    PROVE  XferPlaces' /\ UhciInv'
<1> USE XferAssumption
<1>0. /\ call \in XferCalls /\ call.pos \in Nat /\ call.parts \in Nat /\ TERM \notin Slots
  BY DEF XferTypeOK, XferCalls, TERM, Slots
<1>1. ASSUME NEW n \in 1 .. MaxParts, NEW control \in BOOLEAN, UhciSend(n, control) PROVE XferPlaces' /\ UhciInv'
  BY <1>1, UhciSendStep
<1>2. CASE UhciFill
  BY <1>2, UhciFillStep
<1>3. CASE UhciDone
  <2>1. /\ call.pc = "wait" /\ elem = TERM /\ call'.pc = "idle" /\ call'.parts = call.parts
        /\ broken' = broken /\ UNCHANGED <<td, elem, fetched, moved, tog>>
    BY <1>3, ReturnsType DEF UhciDone, XferTypeOK
  <2>2. PICK k \in 0 .. call.parts : WindowAt(k) /\ Toggled(k)
    BY <2>1 DEF UhciInv
  <2>3. k = call.parts /\ call.pos = call.parts
    <3>1. k \in Nat => Slot(k) \in Slots
      BY SlotFacts
    <3> QED
      BY <1>0, <2>1, <2>2, <3>1 DEF WindowAt
  <2>4. ~broken => tog.pipe = tog.dev /\ moved = Parts(call.parts)
    BY <2>2, <2>3 DEF Toggled
  <2>5. fetched = TERM
    BY <2>1 DEF XferPlaces
  <2> QED
    BY <2>1, <2>4, <2>5 DEF XferPlaces, UhciInv
<1>4. CASE UhciFail
  <2>1. call'.pc = "tick" /\ call'.parts = call.parts /\ elem' = TERM /\ UNCHANGED <<td, fetched>>
        /\ call.pc \in {"fill", "wait"}
    BY <1>0, <1>4 DEF UhciFail, XferCalls
  <2> QED
    BY <2>1 DEF XferPlaces, UhciInv
<1>5. CASE WaitTick
  <2>1. broken' = TRUE /\ call'.pc = "idle" /\ call.pc = "tick" /\ fetched = TERM /\ UNCHANGED <<td, elem, fetched>>
    BY <1>5, ReturnsType DEF WaitTick, XferTypeOK
  <2> QED
    BY <2>1 DEF XferPlaces, UhciInv
<1>6. CASE Fetch
  <2>1. call.pc \in {"fill", "wait"}
    BY <1>6 DEF Fetch, CanFetch, XferPlaces, XferTypeOK, XferCalls
  <2>2. fetched' = elem /\ td[elem].st = "active" /\ UNCHANGED <<call, td, elem, moved, tog, broken>>
    BY <1>6 DEF Fetch, CanFetch
  <2>3. \A k : WindowAt(k)' = WindowAt(k) /\ Toggled(k)' = Toggled(k)
    BY <2>2 DEF WindowAt, Toggled
  <2> QED
    BY <2>1, <2>2, <2>3 DEF XferPlaces, UhciInv
<1>7. CASE Complete
  <2>1. call.pc \in {"fill", "wait", "tick"} /\ fetched # TERM
    BY <1>7 DEF Complete, XferPlaces, XferTypeOK, XferCalls
  <2>2. UNCHANGED call /\ fetched' = TERM
    BY <1>7, CompleteIs
  <2>3. CASE call.pc \in {"fill", "wait"}
    BY <1>7, <2>2, <2>3, UhciCompleteStep DEF XferPlaces, UhciInv
  <2>4. CASE call.pc = "tick"
    <3>1. elem' = TERM
      BY <1>7, <2>1, <2>4, CompleteIs DEF XferPlaces
    <3> QED
      BY <2>2, <2>4, <3>1 DEF XferPlaces, UhciInv
  <2> QED
    BY <2>1, <2>3, <2>4
<1>8. CASE TickOver
  BY <1>8 DEF TickOver
<1> QED
  BY <1>1, <1>2, <1>3, <1>4, <1>5, <1>6, <1>7, <1>8 DEF UhciStep

-----------------------------------------------------------------------------
\* A TRB more, on a ring that has room: whatever was behind the next free place is
\* one place farther behind it.
LEMMA QueueStep ==
    ASSUME NEW r \in XferRings, r.trb[RingItems - 1].part = 0, Laps(r),
           NEW t \in TrbArgs, t.part # 0,
           Pending(r) + 1 < RingItems - 1, NEW q, q = TrbQueue(r, t)
    PROVE  /\ Laps(q) /\ Pending(q) = Pending(r) + 1 /\ Pending(r) \in Nat
           /\ \A e \in 0 .. RingItems - 1 : Ahead(r, e) + 1 < RingItems - 1 => Ahead(q, e) = Ahead(r, e) + 1
           /\ q.trb[Back(q, 1)] = [part |-> t.part, call |-> t.call, last |-> t.last, cs |-> q.cs]
           /\ \A j \in 1 .. Pending(r) : q.trb[Back(q, j + 1)] = r.trb[Back(r, j)]
<1> USE XferAssumption
<1> DEFINE R == RingItems
<1>1. /\ q \in XferRings /\ q.nidx = Place(r) + 1
      /\ q.cs = IF r.nidx = R - 1 THEN 1 - r.cs ELSE r.cs
      /\ q.eidx = r.eidx /\ q.deq = r.deq /\ q.dcs = r.dcs /\ q.evts = r.evts
      /\ Place(r) \in 0 .. R - 2
      /\ q.trb[Place(r)] = [part |-> t.part, call |-> t.call, last |-> t.last, cs |-> q.cs]
      /\ r.nidx = R - 1 => q.trb[R - 1] = [part |-> 0, call |-> 0, last |-> FALSE, cs |-> r.cs]
      /\ \A i \in 0 .. R - 1 : i # Place(r) /\ (r.nidx = R - 1 => i # R - 1) => q.trb[i] = r.trb[i]
  BY QueueOne DEF OneMore
<1>2. /\ R \in Nat /\ R >= 2 /\ r.nidx \in 0 .. R - 1 /\ r.deq \in 0 .. R - 1 /\ r.cs \in {0, 1} /\ r.dcs \in {0, 1}
  BY DEF XferRings
<1>3. Place(r) = IF r.nidx = R - 1 THEN 0 ELSE r.nidx
  BY DEF Place
<1>4. IF r.dcs = r.cs THEN r.deq <= r.nidx ELSE r.nidx <= r.deq /\ r.nidx > 0
  BY DEF Laps
<1>5. Pending(r) = IF r.dcs = r.cs THEN r.nidx - r.deq ELSE r.nidx + (R - 1) - r.deq
  BY DEF Pending
<1>6. r.nidx = R - 1 => r.dcs = r.cs
  BY <1>2, <1>4, <1>5
<1>7. r.dcs # r.cs => r.nidx + 1 <= r.deq
  BY <1>2, <1>4, <1>5
<1>8. Pending(r) \in Nat
  BY <1>2, <1>4, <1>5
<1>9. IF q.dcs = q.cs THEN q.deq <= q.nidx ELSE q.nidx <= q.deq /\ q.nidx > 0
  BY <1>1, <1>2, <1>3, <1>4, <1>5, <1>6, <1>7
<1>10. Pending(q) = Pending(r) + 1
  BY <1>1, <1>2, <1>3, <1>4, <1>5, <1>6, <1>7 DEF Pending
<1>11. \A i \in 0 .. R - 1 : r.trb[i].cs = IF i < r.nidx THEN r.cs ELSE 1 - r.cs
  BY DEF Laps
<1>12. \A i \in 0 .. R - 2 : r.trb[i].part = 0 => r.dcs = r.cs /\ i >= r.nidx
  BY DEF Laps
<1>13. q.trb[Place(r)].cs = q.cs /\ q.trb[Place(r)].part = t.part
  BY <1>1
<1>14. ASSUME NEW i \in 0 .. R - 1 PROVE q.trb[i].cs = IF i < q.nidx THEN q.cs ELSE 1 - q.cs
  <2>1. CASE i = Place(r)
    BY <1>1, <1>2, <1>3, <1>13, <2>1
  <2>2. CASE i # Place(r) /\ r.nidx = R - 1 /\ i = R - 1
    <3>1. q.trb[i].cs = r.cs
      BY <1>1, <2>2
    <3> QED
      BY <1>1, <1>2, <1>3, <2>2, <3>1
  <2>3. CASE i # Place(r) /\ (r.nidx = R - 1 => i # R - 1)
    <3>1. q.trb[i].cs = IF i < r.nidx THEN r.cs ELSE 1 - r.cs
      BY <1>1, <1>11, <2>3
    <3> QED
      BY <1>1, <1>2, <1>3, <2>3, <3>1
  <2> QED
    BY <2>1, <2>2, <2>3
<1>15. ASSUME NEW i \in 0 .. R - 2, q.trb[i].part = 0 PROVE q.dcs = q.cs /\ i >= q.nidx
  <2>1. i # Place(r)
    BY <1>13, <1>15
  <2>2. r.trb[i].part = 0 /\ i \in 0 .. R - 1
    BY <1>1, <1>2, <1>15, <2>1
  <2>3. r.dcs = r.cs /\ i >= r.nidx
    BY <1>12, <2>2
  <2> QED
    BY <1>1, <1>2, <1>3, <2>1, <2>3
<1>16. q.nidx # 0
  BY <1>1, <1>2
<1>17. Laps(q)
  BY <1>9, <1>14, <1>15, <1>16 DEF Laps
<1>18. ASSUME NEW e \in 0 .. R - 1, Ahead(r, e) + 1 < R - 1 PROVE Ahead(q, e) = Ahead(r, e) + 1
  <2>1. Ahead(r, e) = IF e <= r.nidx THEN r.nidx - e ELSE r.nidx + (R - 1) - e
    BY DEF Ahead
  <2>2. Ahead(q, e) = IF e <= q.nidx THEN q.nidx - e ELSE q.nidx + (R - 1) - e
    BY DEF Ahead
  <2> QED
    BY <1>1, <1>2, <1>3, <1>18, <2>1, <2>2
<1>19. Back(q, 1) = Place(r)
  BY <1>1, <1>2, <1>3 DEF Back
<1>20. ASSUME NEW j \in 1 .. Pending(r) PROVE q.trb[Back(q, j + 1)] = r.trb[Back(r, j)]
  <2>1. Back(r, j) = IF j <= r.nidx THEN r.nidx - j ELSE r.nidx + (R - 1) - j
    BY DEF Back
  <2>2. Back(q, j + 1) = IF j + 1 <= q.nidx THEN q.nidx - (j + 1) ELSE q.nidx + (R - 1) - (j + 1)
    BY DEF Back
  <2>3. Back(q, j + 1) = Back(r, j)
    BY <1>1, <1>2, <1>3, <1>5, <2>1, <2>2
  <2>4. Back(r, j) \in 0 .. R - 1 /\ Back(r, j) # Place(r) /\ (r.nidx = R - 1 => Back(r, j) # R - 1)
    BY <1>2, <1>3, <1>4, <1>5, <2>1
  <2> QED
    BY <1>1, <2>3, <2>4
<1> QED
  BY <1>1, <1>8, <1>10, <1>17, <1>18, <1>19, <1>20

\* Of the TRBs that were not executed, the last i are the first i parts of transfer n.
Mine(r, n, i) ==
    \A j \in 1 .. Pending(r) :
        LET t == r.trb[Back(r, j)] IN IF j <= i THEN t.call = n /\ t.part = i - j + 1 ELSE t.call # n
\* What i TRBs of transfer n made of ring r.
RingGrown(r, s, n, i) ==
    /\ s \in XferRings /\ s.trb[RingItems - 1].part = 0 /\ Laps(s)
    /\ Pending(s) = Pending(r) + i /\ Mine(s, n, i)
    /\ \A e \in 0 .. RingItems - 1 : Ahead(r, e) + i < RingItems - 1 => Ahead(s, e) = Ahead(r, e) + i
    /\ s.eidx = r.eidx /\ s.evts = r.evts

LEMMA GrowOnce ==
    ASSUME NEW r \in XferRings, NEW s, NEW n \in Nat, NEW parts \in 1 .. 3, NEW i \in 0 .. 2,
           RingGrown(r, s, n, i), Pending(r) \in Nat, Pending(r) + i + 1 < RingItems - 1,
           \A e \in 0 .. RingItems - 1 : Ahead(r, e) \in Nat
    PROVE  RingGrown(r, TrbQueue(s, TrbOf(n, parts, i + 1)), n, i + 1)
<1> USE XferAssumption
<1> DEFINE t == TrbOf(n, parts, i + 1)  q == TrbQueue(s, t)
<1>1. /\ s \in XferRings /\ s.trb[RingItems - 1].part = 0 /\ Laps(s)
      /\ Pending(s) = Pending(r) + i /\ s.eidx = r.eidx /\ s.evts = r.evts
  BY DEF RingGrown
<1>2. t \in TrbArgs /\ t.part = i + 1 /\ t.call = n
  <2>1. i + 1 \in 1 .. 3
    OBVIOUS
  <2> QED
    BY <2>1, TrbOfType
<1> HIDE DEF t
<1>3. q = TrbQueue(s, t)
  OBVIOUS
<1> HIDE DEF q
<1>4. Pending(s) + 1 < RingItems - 1 /\ t.part # 0
  BY <1>1, <1>2
<1>5. q \in XferRings /\ q.trb[RingItems - 1].part = 0 /\ q.eidx = s.eidx /\ q.evts = s.evts
  BY <1>1, <1>2, <1>3, QueueKeeps
<1>6. /\ Laps(q) /\ Pending(q) = Pending(s) + 1
      /\ \A e \in 0 .. RingItems - 1 : Ahead(s, e) + 1 < RingItems - 1 => Ahead(q, e) = Ahead(s, e) + 1
      /\ q.trb[Back(q, 1)] = [part |-> t.part, call |-> t.call, last |-> t.last, cs |-> q.cs]
      /\ \A j \in 1 .. Pending(s) : q.trb[Back(q, j + 1)] = s.trb[Back(s, j)]
  BY <1>1, <1>2, <1>4, <1>3, QueueStep
<1>7. ASSUME NEW e \in 0 .. RingItems - 1, Ahead(r, e) + (i + 1) < RingItems - 1
      PROVE  Ahead(q, e) = Ahead(r, e) + (i + 1)
  <2>1. Ahead(s, e) = Ahead(r, e) + i
    BY <1>7 DEF RingGrown
  <2> QED
    BY <1>6, <1>7, <2>1
<1>8. ASSUME NEW j \in 1 .. Pending(q)
      PROVE  LET u == q.trb[Back(q, j)] IN IF j <= i + 1 THEN u.call = n /\ u.part = (i + 1) - j + 1 ELSE u.call # n
  <2>1. CASE j = 1
    <3>1. q.trb[Back(q, j)].call = n /\ q.trb[Back(q, j)].part = i + 1
      BY <1>2, <1>6, <2>1
    <3> QED
      BY <2>1, <3>1
  <2>2. CASE j # 1
    <3>1. j - 1 \in 1 .. Pending(s) /\ (j - 1) + 1 = j
      BY <1>1, <1>6, <2>2
    <3>2. q.trb[Back(q, j)] = s.trb[Back(s, j - 1)]
      BY <1>6, <3>1
    <3>3. IF j - 1 <= i THEN s.trb[Back(s, j - 1)].call = n /\ s.trb[Back(s, j - 1)].part = i - (j - 1) + 1
          ELSE s.trb[Back(s, j - 1)].call # n
      BY <3>1 DEF RingGrown, Mine
    <3>4. j \in Nat /\ i - (j - 1) + 1 = (i + 1) - j + 1 /\ (j - 1 <= i <=> j <= i + 1)
      BY <3>1
    <3> QED
      BY <3>2, <3>3, <3>4
  <2> QED
    BY <2>1, <2>2
<1>9. Mine(q, n, i + 1)
  BY <1>8 DEF Mine
<1>10. Pending(q) = Pending(r) + (i + 1)
  BY <1>1, <1>6
<1>11. RingGrown(r, q, n, i + 1)
  BY <1>1, <1>5, <1>6, <1>7, <1>9, <1>10 DEF RingGrown
<1> QED
  BY <1>11 DEF q, t

LEMMA RingNumbers ==
    ASSUME NEW r \in XferRings, Laps(r)
    PROVE  /\ Pending(r) \in Nat /\ \A e \in 0 .. RingItems - 1 : Ahead(r, e) \in Nat
           /\ \A j \in 1 .. Pending(r) : Pending(r) < RingItems - 1 => Back(r, j) \in 0 .. RingItems - 2
           /\ Ahead(r, r.nidx) = 0
           /\ Newest(r) \in 0 .. RingItems - 1
<1> USE XferAssumption
<1>1. /\ RingItems \in Nat /\ RingItems >= 2 /\ r.nidx \in 0 .. RingItems - 1 /\ r.deq \in 0 .. RingItems - 1
      /\ IF r.dcs = r.cs THEN r.deq <= r.nidx ELSE r.nidx <= r.deq /\ r.nidx > 0
  BY DEF XferRings, Laps
<1>2. Newest(r) \in 0 .. RingItems - 1
  <2>1. r.evts # <<>> => r.evts[Len(r.evts)] \in XferEvents
    BY DEF XferRings
  <2> QED
    BY <2>1 DEF Newest, XferRings, XferEvents
<1>3. Pending(r) \in Nat /\ \A j \in 1 .. Pending(r) : Pending(r) < RingItems - 1 => Back(r, j) \in 0 .. RingItems - 2
  BY <1>1 DEF Pending, Back
<1>4. (\A e \in 0 .. RingItems - 1 : Ahead(r, e) \in Nat) /\ Ahead(r, r.nidx) = 0
  BY <1>1 DEF Ahead
<1> QED
  BY <1>2, <1>3, <1>4

LEMMA GrowAll ==
    ASSUME NEW r \in XferRings, r.trb[RingItems - 1].part = 0, Laps(r), NEW n \in Nat, NEW parts \in 1 .. 3,
           Pending(r) + parts < RingItems - 1,
           \A i \in 0 .. RingItems - 1 : r.trb[i].call \in Nat /\ r.trb[i].call < n
    PROVE  RingGrown(r, QueueAll(r, n, parts), n, parts)
<1> USE XferAssumption
<1> DEFINE one == TrbQueue(r, TrbOf(n, parts, 1))  two == TrbQueue(one, TrbOf(n, parts, 2))
           three == TrbQueue(two, TrbOf(n, parts, 3))
<1>1. /\ Pending(r) \in Nat /\ \A e \in 0 .. RingItems - 1 : Ahead(r, e) \in Nat
      /\ \A j \in 1 .. Pending(r) : Back(r, j) \in 0 .. RingItems - 1
  <2>1. Pending(r) < RingItems - 1 /\ \A k \in 0 .. RingItems - 2 : k \in 0 .. RingItems - 1
    BY RingNumbers
  <2> QED
    BY <2>1, RingNumbers
<1>2. RingGrown(r, r, n, 0)
  <2>1. Mine(r, n, 0)
    <3>1. ASSUME NEW j \in 1 .. Pending(r) PROVE r.trb[Back(r, j)].call # n /\ ~(j <= 0)
      BY <1>1
    <3> QED
      BY <3>1 DEF Mine
  <2>2. Pending(r) = Pending(r) + 0 /\ \A e \in 0 .. RingItems - 1 : Ahead(r, e) = Ahead(r, e) + 0
    BY <1>1
  <2> QED
    BY <2>1, <2>2 DEF RingGrown
<1>3. RingGrown(r, one, n, 1)
  <2>1. RingGrown(r, TrbQueue(r, TrbOf(n, parts, 0 + 1)), n, 0 + 1)
    <3>1. Pending(r) + 0 + 1 < RingItems - 1 /\ 0 \in 0 .. 2
      BY <1>1
    <3> QED
      BY <1>1, <1>2, <3>1, GrowOnce
  <2>2. 0 + 1 = 1
    OBVIOUS
  <2> QED
    BY <2>1, <2>2
<1>4. parts >= 2 => RingGrown(r, two, n, 2)
  <2> HAVE parts >= 2
  <2>1. Pending(r) + 1 + 1 < RingItems - 1 /\ 1 \in 0 .. 2 /\ 1 + 1 = 2
    BY <1>1
  <2> HIDE DEF one
  <2>2. RingGrown(r, TrbQueue(one, TrbOf(n, parts, 1 + 1)), n, 1 + 1)
    BY <1>1, <1>3, <2>1, GrowOnce
  <2> QED
    BY <2>1, <2>2
<1>5. parts = 3 => RingGrown(r, three, n, 3)
  <2> HAVE parts = 3
  <2>1. Pending(r) + 2 + 1 < RingItems - 1 /\ 2 \in 0 .. 2 /\ 2 + 1 = 3
    BY <1>1
  <2> HIDE DEF two
  <2>2. RingGrown(r, TrbQueue(two, TrbOf(n, parts, 2 + 1)), n, 2 + 1)
    BY <1>1, <1>4, <2>1, GrowOnce
  <2> QED
    BY <2>1, <2>2
<1>6. QueueAll(r, n, parts) = IF parts = 1 THEN one ELSE IF parts = 2 THEN two ELSE three
  BY DEF QueueAll
<1> HIDE DEF one, two, three
<1>7. CASE parts = 1
  BY <1>3, <1>6, <1>7
<1>8. CASE parts = 2
  BY <1>4, <1>6, <1>8
<1>9. CASE parts = 3
  BY <1>5, <1>6, <1>9
<1> QED
  BY <1>7, <1>8, <1>9
\* Rings that differ in what is owed only.
LEMMA SameRing ==
    ASSUME NEW q \in XferRings, NEW o, NEW s, s = [q EXCEPT !.owed = o]
    PROVE  /\ Laps(s) = Laps(q) /\ Pending(s) = Pending(q) /\ Newest(s) = Newest(q) /\ NewestCc(s) = NewestCc(q)
           /\ \A e : Ahead(s, e) = Ahead(q, e) /\ Back(s, e) = Back(q, e)
           /\ s.trb = q.trb /\ s.eidx = q.eidx /\ s.halt = q.halt /\ s.owed = o
<1>1. /\ s.trb = q.trb /\ s.nidx = q.nidx /\ s.eidx = q.eidx /\ s.cs = q.cs /\ s.deq = q.deq
      /\ s.dcs = q.dcs /\ s.halt = q.halt /\ s.cc = q.cc /\ s.evts = q.evts /\ s.owed = o
  BY DEF XferRings
<1> QED
  BY <1>1 DEF Laps, Pending, Newest, NewestCc, Ahead, Back

LEMMA RingSendStep ==
    ASSUME XferTypeOK, XferPlaces, RingInv, xk = "xhci", xk' = xk, XferTypeOK',
           (\A i \in 0 .. RingItems - 1 : ring.trb[i].call <= call.n)',
           NEW n \in 1 .. MaxParts, NEW control \in BOOLEAN, XhciSend(n, control)
    PROVE  XferPlaces' /\ RingInv'
<1> USE XferAssumption
<1> DEFINE R == RingItems  m == call.n + 1  q == QueueAll(ring, m, n)
           o == IF RingBusy(ring) \/ ring.owed >= R - 1 THEN ring.owed + n ELSE n
<1>1. /\ n \in 1 .. 3 /\ call'.pc = "wait" /\ call'.n = m /\ call'.parts = n /\ moved' = <<>> /\ call.pc = "idle"
      /\ UNCHANGED <<elem, fetched>>
  BY BeginType DEF XhciSend, Begin
<1>2. /\ call.n \in Nat /\ m \in Nat /\ ring \in XferRings /\ ring.trb[R - 1].part = 0 /\ ring.owed \in Nat
      /\ ring.eidx \in 0 .. R - 1 /\ ring.nidx \in 0 .. R - 1
  <2>1. call \in XferCalls /\ ring \in XferRings /\ ring.trb[R - 1].part = 0
    BY DEF XferTypeOK
  <2>2. call.n \in Nat /\ m \in Nat
    BY <2>1 DEF XferCalls
  <2>3. ring.owed \in Nat /\ ring.eidx \in 0 .. R - 1 /\ ring.nidx \in 0 .. R - 1
    BY <2>1 DEF XferRings
  <2> QED
    BY <2>1, <2>2, <2>3
<1>3. \A i \in 0 .. R - 1 : ring.trb[i].call \in Nat /\ ring.trb[i].call <= call.n
  BY <1>2 DEF RingInv, XferRings, XferTrbs
<1>4. \A i \in 0 .. R - 1 : ring.trb[i].call <= m /\ ring.trb[i].call < m
  BY <1>2, <1>3
<1>5. q \in XferRings /\ q.owed = ring.owed /\ q.halt = ring.halt /\ NewestCc(q) = NewestCc(ring)
  BY <1>1, <1>2, <1>4, QueueAllType
<1>6. ring' = [q EXCEPT !.owed = o]
  BY <1>5 DEF XhciSend
<1> HIDE DEF q
<1>7. /\ Laps(ring') = Laps(q) /\ Pending(ring') = Pending(q) /\ Newest(ring') = Newest(q)
      /\ NewestCc(ring') = NewestCc(ring)
      /\ \A e : Ahead(ring', e) = Ahead(q, e) /\ Back(ring', e) = Back(q, e)
      /\ ring'.trb = q.trb /\ ring'.eidx = q.eidx /\ ring'.halt = ring.halt /\ ring'.owed = o
  BY <1>5, <1>6, SameRing
<1>8. XferPlaces'
  BY <1>1 DEF XferPlaces
<1>9. ring'.halt => NewestCc(ring') = "err"
  BY <1>7 DEF RingInv
<1>10. ASSUME ring'.owed < R - 1, ~ring'.halt
       PROVE  Laps(ring') /\ RingAnswered(ring') /\ Queued(ring)'
  <2>1. ring.owed < R - 1 /\ o < R - 1 /\ o = IF RingBusy(ring) THEN ring.owed + n ELSE n
    BY <1>1, <1>2, <1>7, <1>10
  <2>2. Laps(ring) /\ RingAnswered(ring)
    BY <1>7, <1>10, <2>1 DEF RingInv
  <2>3. /\ Pending(ring) \in Nat /\ \A e \in 0 .. R - 1 : Ahead(ring, e) \in Nat
        /\ Ahead(ring, ring.nidx) = 0 /\ Newest(ring) \in 0 .. R - 1
    BY <1>2, <2>2, RingNumbers
  <2>4. /\ Pending(ring) <= Ahead(ring, Newest(ring)) /\ Ahead(ring, Newest(ring)) <= Ahead(ring, ring.eidx)
        /\ Ahead(ring, ring.eidx) <= ring.owed
    BY <2>2 DEF RingAnswered
  <2> DEFINE a == Pending(ring)  b == Ahead(ring, Newest(ring))  c == Ahead(ring, ring.eidx)
  <2>5. a \in Nat /\ b \in Nat /\ c \in Nat /\ a <= b /\ b <= c /\ c <= ring.owed /\ n \in Nat /\ o \in Nat
    <3>1. a \in Nat /\ b \in Nat /\ c \in Nat /\ a <= b /\ b <= c /\ c <= ring.owed
      BY <1>2, <2>3, <2>2 DEF RingAnswered
    <3>2. n \in Nat /\ o \in Nat
      BY <1>1, <1>2
    <3> QED
      BY <3>1, <3>2
  <2>6. ring.eidx = ring.nidx => c = 0
    BY <2>3
  <2> HIDE DEF a, b, c, o
  <2>7. c + n <= o
    <3>1. CASE RingBusy(ring)
      BY <1>2, <2>1, <2>5, <3>1
    <3>2. CASE ~RingBusy(ring)
      <4>1. ring.eidx = ring.nidx
        BY <3>2 DEF RingBusy
      <4> QED
        BY <2>1, <2>5, <2>6, <3>2, <4>1
    <3> QED
      BY <3>1, <3>2
  <2>8. c + n < R - 1 /\ b + n < R - 1 /\ a + n < R - 1
    BY <2>1, <2>5, <2>7
  <2>9. RingGrown(ring, q, m, n)
    BY <1>1, <1>2, <1>3, <1>4, <2>2, <2>8, GrowAll DEF q, a
  <2>10. /\ Laps(q) /\ Pending(q) = a + n /\ Mine(q, m, n)
        /\ Newest(q) = Newest(ring) /\ q.eidx = ring.eidx
        /\ Ahead(q, ring.eidx) = c + n
        /\ Ahead(q, Newest(ring)) = b + n
    BY <1>2, <2>3, <2>8, <2>9 DEF RingGrown, Newest, a, b, c
  <2>11. RingAnswered(ring')
    <3>1. /\ Pending(q) <= Ahead(q, Newest(q)) /\ Ahead(q, Newest(q)) <= Ahead(q, q.eidx)
          /\ Ahead(q, q.eidx) <= o
      BY <2>7, <2>10, <2>5
    <3> QED
      BY <1>7, <3>1 DEF RingAnswered
  <2>12. Queued(ring)'
    <3>1. \A j \in 1 .. Pending(q) : LET t == q.trb[Back(q, j)] IN
                                     IF j <= n THEN t.call = m /\ t.part = n - j + 1 ELSE t.call # m
      BY <2>10 DEF Mine
    <3>2. (IF Pending(q) <= n THEN n - Pending(q) ELSE 0) = 0
      BY <2>10, <2>5
    <3>3. moved' = Parts(IF Pending(q) <= n THEN n - Pending(q) ELSE 0)
      BY <1>1, <3>2, PartsGrow
    <3> QED
      BY <1>1, <1>7, <3>1, <3>3 DEF Queued
  <2> QED
    BY <1>7, <2>10, <2>11, <2>12
<1> QED
  BY <1>1, <1>8, <1>9, <1>10 DEF RingInv

\* Where the TRB is that the controller executes.
LEMMA ExecPlace ==
    ASSUME NEW r \in XferRings, r.trb[RingItems - 1].part = 0, Laps(r), r.trb[r.deq].cs = r.dcs
    PROVE  /\ r.nidx > 0 /\ r.deq + 1 \in 0 .. RingItems
           /\ r.dcs = r.cs => r.deq < r.nidx
           /\ r.trb[r.deq].part = 0 => r.deq = RingItems - 1 /\ r.dcs # r.cs
           /\ r.trb[r.deq].part # 0 => /\ r.deq \in 0 .. RingItems - 2
                                       /\ Pending(r) >= 1 /\ Pending(r) \in Nat
                                       /\ Back(r, Pending(r)) = r.deq
<1> USE XferAssumption
<1>1. /\ RingItems \in Nat /\ RingItems >= 2 /\ r.nidx \in 0 .. RingItems - 1 /\ r.deq \in 0 .. RingItems - 1
      /\ r.cs \in {0, 1} /\ r.dcs \in {0, 1}
  BY DEF XferRings
<1>2. /\ r.trb[r.deq].cs = IF r.deq < r.nidx THEN r.cs ELSE 1 - r.cs
      /\ IF r.dcs = r.cs THEN r.deq <= r.nidx ELSE r.nidx <= r.deq /\ r.nidx > 0
      /\ r.deq \in 0 .. RingItems - 2 /\ r.trb[r.deq].part = 0 => r.dcs = r.cs /\ r.deq >= r.nidx
  BY <1>1 DEF Laps
<1>3. (r.dcs = r.cs => r.deq < r.nidx) /\ r.nidx > 0
  BY <1>1, <1>2
<1>4. r.trb[r.deq].part = 0 => r.deq = RingItems - 1 /\ r.dcs # r.cs
  <2> HAVE r.trb[r.deq].part = 0
  <2>1. ~(r.deq \in 0 .. RingItems - 2)
    BY <1>1, <1>2, <1>3
  <2> QED
    BY <1>1, <1>3, <2>1
<1>5. r.trb[r.deq].part # 0 => r.deq \in 0 .. RingItems - 2
  <2> HAVE r.trb[r.deq].part # 0
  <2>1. r.deq # RingItems - 1
    OBVIOUS
  <2> QED
    BY <1>1, <2>1
<1>6. r.deq \in 0 .. RingItems - 2 => Pending(r) >= 1 /\ Pending(r) \in Nat /\ Back(r, Pending(r)) = r.deq
  BY <1>1, <1>2, <1>3 DEF Pending, Back
<1> QED
  BY <1>1, <1>3, <1>4, <1>5, <1>6

\* The controller follows the link.
LEMMA RingLink ==
    ASSUME XferTypeOK, XferPlaces, RingInv, xk = "xhci", XferTypeOK', ~ring.halt,
           (\A i \in 0 .. RingItems - 1 : ring.trb[i].call <= call.n)',
           ring.trb[ring.deq].part = 0, ring.trb[ring.deq].cs = ring.dcs,
           ring' = [ring EXCEPT !.deq = 0, !.dcs = 1 - @], UNCHANGED <<xk, call, elem, fetched, moved>>
    PROVE  RingInv'
<1> USE XferAssumption
<1>1. ring \in XferRings /\ ring.trb[RingItems - 1].part = 0
  BY DEF XferTypeOK
<1>2. /\ ring'.trb = ring.trb /\ ring'.nidx = ring.nidx /\ ring'.eidx = ring.eidx /\ ring'.cs = ring.cs
      /\ ring'.deq = 0 /\ ring'.dcs = 1 - ring.dcs /\ ring'.halt = ring.halt /\ ring'.cc = ring.cc
      /\ ring'.evts = ring.evts /\ ring'.owed = ring.owed
  BY <1>1 DEF XferRings
<1>3. /\ Newest(ring') = Newest(ring) /\ NewestCc(ring') = NewestCc(ring)
      /\ \A e : Ahead(ring', e) = Ahead(ring, e) /\ Back(ring', e) = Back(ring, e)
  BY <1>2 DEF Newest, NewestCc, Ahead, Back
<1>4. ASSUME ring.owed < RingItems - 1
      PROVE  Laps(ring') /\ Pending(ring') = Pending(ring) /\ RingAnswered(ring')
  <2>1. Laps(ring) /\ RingAnswered(ring)
    BY <1>4 DEF RingInv
  <2>2. ring.nidx > 0 /\ ring.deq = RingItems - 1 /\ ring.dcs # ring.cs
    BY <1>1, <2>1, ExecPlace
  <2>3. /\ ring.nidx \in 0 .. RingItems - 1 /\ ring.dcs \in {0, 1} /\ ring.cs \in {0, 1} /\ 1 - ring.dcs = ring.cs
    BY <1>1, <2>2 DEF XferRings
  <2>4. Pending(ring') = Pending(ring)
    BY <1>2, <2>2, <2>3 DEF Pending
  <2>5. \A i \in 0 .. RingItems - 2 : ring.trb[i].part # 0
    BY <2>1, <2>2 DEF Laps
  <2>6. Laps(ring')
    BY <1>2, <2>1, <2>2, <2>3, <2>5 DEF Laps
  <2>7. RingAnswered(ring')
    BY <1>2, <1>3, <2>1, <2>4 DEF RingAnswered
  <2> QED
    BY <2>4, <2>6, <2>7
<1>5. ASSUME ring.owed < RingItems - 1, Queued(ring) PROVE Queued(ring)'
  BY <1>2, <1>3, <1>4, <1>5 DEF Queued
<1> QED
  BY <1>2, <1>3, <1>4, <1>5 DEF RingInv

LEMMA AppendLast ==
    ASSUME NEW S, NEW s \in Seq(S), NEW e
    PROVE  Append(s, e) # <<>> /\ Append(s, e)[Len(Append(s, e))] = e
OBVIOUS

\* The controller executes a TRB, or fails to.
LEMMA RingExecute ==
    ASSUME XferTypeOK, XferPlaces, RingInv, xk = "xhci", XferTypeOK', ~ring.halt,
           (\A i \in 0 .. RingItems - 1 : ring.trb[i].call <= call.n)',
           NEW t, t = ring.trb[ring.deq], t.part # 0, t.cs = ring.dcs,
           NEW x, x \in {ring.evts, Append(ring.evts, [eidx |-> ring.deq + 1, cc |-> "ok"])},
           ring' = [ring EXCEPT !.deq = ring.deq + 1, !.evts = x],
           moved' = IF t.call = call.n THEN Append(moved, t.part) ELSE moved,
           UNCHANGED <<xk, call, elem, fetched>>
    PROVE  RingInv'
<1> USE XferAssumption
<1> DEFINE R == RingItems
<1>1. ring \in XferRings /\ ring.trb[R - 1].part = 0 /\ call \in XferCalls
  BY DEF XferTypeOK
<1>2. /\ ring'.trb = ring.trb /\ ring'.nidx = ring.nidx /\ ring'.eidx = ring.eidx /\ ring'.cs = ring.cs
      /\ ring'.deq = ring.deq + 1 /\ ring'.dcs = ring.dcs /\ ring'.halt = ring.halt /\ ring'.cc = ring.cc
      /\ ring'.evts = x /\ ring'.owed = ring.owed
  BY <1>1 DEF XferRings
<1>3. /\ R \in Nat /\ R >= 2 /\ ring.nidx \in 0 .. R - 1 /\ ring.deq \in 0 .. R - 1 /\ ring.cs \in {0, 1}
      /\ ring.dcs \in {0, 1} /\ ring.evts \in Seq(XferEvents)
  BY <1>1 DEF XferRings
<1>4. \A e : Ahead(ring', e) = Ahead(ring, e) /\ Back(ring', e) = Back(ring, e)
  BY <1>2 DEF Ahead, Back
<1>5. Newest(ring') \in {Newest(ring), ring.deq + 1}
  <2>1. CASE x = ring.evts
    BY <1>2, <2>1 DEF Newest
  <2>2. CASE x = Append(ring.evts, [eidx |-> ring.deq + 1, cc |-> "ok"])
    <3> DEFINE e == [eidx |-> ring.deq + 1, cc |-> "ok"]
    <3>1. e.eidx = ring.deq + 1
      OBVIOUS
    <3> HIDE DEF e
    <3>2. x = Append(ring.evts, e)
      BY <2>2 DEF e
    <3>3. x # <<>> /\ x[Len(x)] = e
      BY <1>3, <3>2, AppendLast
    <3> QED
      BY <1>2, <3>1, <3>3 DEF Newest
  <2> QED
    BY <2>1, <2>2
<1>6. ASSUME ring.owed < R - 1
      PROVE  /\ Laps(ring') /\ RingAnswered(ring') /\ Pending(ring) \in Nat /\ Pending(ring) >= 1
             /\ Pending(ring') = Pending(ring) - 1 /\ Back(ring, Pending(ring)) = ring.deq
  <2>1. Laps(ring) /\ RingAnswered(ring)
    BY <1>6 DEF RingInv
  <2>2. /\ ring.nidx > 0 /\ (ring.dcs = ring.cs => ring.deq < ring.nidx) /\ ring.deq \in 0 .. R - 2
        /\ Pending(ring) \in Nat /\ Pending(ring) >= 1 /\ Back(ring, Pending(ring)) = ring.deq
    BY <1>1, <2>1, ExecPlace
  <2>3. Pending(ring') = Pending(ring) - 1
    BY <1>2, <1>3, <2>2 DEF Pending
  <2>4. Laps(ring')
    <3>1. /\ \A i \in 0 .. R - 1 : ring.trb[i].cs = IF i < ring.nidx THEN ring.cs ELSE 1 - ring.cs
          /\ IF ring.dcs = ring.cs THEN ring.deq <= ring.nidx ELSE ring.nidx <= ring.deq /\ ring.nidx > 0
          /\ \A i \in 0 .. R - 2 : ring.trb[i].part = 0 => ring.dcs = ring.cs /\ i >= ring.nidx
      BY <2>1 DEF Laps
    <3>2. IF ring.dcs = ring.cs THEN ring.deq + 1 <= ring.nidx ELSE ring.nidx <= ring.deq + 1 /\ ring.nidx > 0
      BY <1>3, <2>2, <3>1
    <3> QED
      BY <1>2, <2>2, <3>1, <3>2 DEF Laps
  <2>5. Ahead(ring, ring.deq + 1) = Pending(ring) - 1
    <3>1. ring.dcs # ring.cs => ring.nidx <= ring.deq
      BY <2>1 DEF Laps
    <3> DEFINE d == ring.deq  n == ring.nidx
    <3>2. /\ R \in Nat /\ R >= 2 /\ n \in 0 .. R - 1 /\ d \in 0 .. R - 2
          /\ ring.dcs = ring.cs => d < n
          /\ ring.dcs # ring.cs => n <= d
      BY <1>3, <2>2, <3>1
    <3>3. /\ Ahead(ring, d + 1) = IF d + 1 <= n THEN n - (d + 1) ELSE n + (R - 1) - (d + 1)
          /\ Pending(ring) = IF ring.dcs = ring.cs THEN n - d ELSE n + (R - 1) - d
      BY DEF Ahead, Pending
    <3> HIDE DEF d, n, R
    <3>4. Ahead(ring, d + 1) = Pending(ring) - 1
      <4>1. CASE ring.dcs = ring.cs
        <5>1. d < n /\ d + 1 <= n /\ n - (d + 1) = (n - d) - 1
          BY <3>2, <4>1
        <5> QED
          BY <3>3, <4>1, <5>1
      <4>2. CASE ring.dcs # ring.cs
        <5>1. n <= d /\ ~(d + 1 <= n) /\ n + (R - 1) - (d + 1) = (n + (R - 1) - d) - 1
          BY <3>2, <4>2
        <5> QED
          BY <3>3, <4>2, <5>1
      <4> QED
        BY <4>1, <4>2
    <3> QED
      BY <3>4 DEF d
  <2>6. /\ \A e \in 0 .. R - 1 : Ahead(ring, e) \in Nat /\ Newest(ring) \in 0 .. R - 1 /\ ring.eidx \in 0 .. R - 1
        /\ ring.owed \in Nat
    BY <1>1, <2>1, RingNumbers DEF XferRings
  <2> DEFINE a == Pending(ring)  b == Ahead(ring, Newest(ring))  c == Ahead(ring, ring.eidx)
  <2>7. a \in Nat /\ b \in Nat /\ c \in Nat /\ a <= b /\ b <= c /\ c <= ring.owed
    BY <2>1, <2>2, <2>6 DEF RingAnswered
  <2>8. Ahead(ring', Newest(ring')) \in {b, a - 1} /\ Ahead(ring', ring'.eidx) = c
    BY <1>2, <1>4, <1>5, <2>5
  <2> HIDE DEF a, b, c
  <2>9. /\ a - 1 <= Ahead(ring', Newest(ring')) /\ Ahead(ring', Newest(ring')) <= Ahead(ring', ring'.eidx)
        /\ Ahead(ring', ring'.eidx) <= ring'.owed
    BY <1>2, <2>7, <2>8
  <2>10. RingAnswered(ring')
    BY <2>3, <2>9 DEF RingAnswered, a
  <2> QED
    BY <2>2, <2>3, <2>4, <2>10
<1>7. ASSUME ring.owed < R - 1, Queued(ring) PROVE Queued(ring)'
  <2> DEFINE a == Pending(ring)
  <2>1. a \in Nat /\ a >= 1 /\ a \in 1 .. a /\ Pending(ring') = a - 1 /\ ring.trb[Back(ring, a)] = t
    BY <1>6, <1>7
  <2>2. call.parts \in Nat
    BY <1>1 DEF XferCalls
  <2>3. /\ IF a <= call.parts THEN t.call = call.n /\ t.part = call.parts - a + 1 ELSE t.call # call.n
        /\ moved = Parts(IF a <= call.parts THEN call.parts - a ELSE 0)
    BY <1>7, <2>1 DEF Queued
  <2>4. \A j \in 1 .. a : LET u == ring.trb[Back(ring, j)] IN
          IF j <= call.parts THEN u.call = call.n /\ u.part = call.parts - j + 1 ELSE u.call # call.n
    BY <1>7 DEF Queued
  <2> HIDE DEF a
  <2>5. \A j \in 1 .. a - 1 : j \in 1 .. a
    BY <2>1
  <2>6. moved' = Parts(IF a - 1 <= call.parts THEN call.parts - (a - 1) ELSE 0)
    <3>1. CASE a <= call.parts
      <4>1. moved' = Append(Parts(call.parts - a), (call.parts - a) + 1)
        BY <2>3, <3>1
      <4>2. call.parts - a \in Nat /\ (call.parts - a) + 1 = call.parts - (a - 1) /\ a - 1 <= call.parts
        BY <2>1, <2>2, <3>1
      <4>3. Append(Parts(call.parts - a), (call.parts - a) + 1) = Parts((call.parts - a) + 1)
        BY <4>2, PartsGrow
      <4> QED
        BY <4>1, <4>2, <4>3
    <3>2. CASE ~(a <= call.parts)
      <4>1. moved' = Parts(0)
        BY <2>3, <3>2
      <4>2. (IF a - 1 <= call.parts THEN call.parts - (a - 1) ELSE 0) = 0
        BY <2>1, <2>2, <3>2
      <4> QED
        BY <4>1, <4>2
    <3> QED
      BY <3>1, <3>2
  <2>7. \A j \in 1 .. Pending(ring') : LET u == ring'.trb[Back(ring', j)] IN
          IF j <= call'.parts THEN u.call = call'.n /\ u.part = call'.parts - j + 1 ELSE u.call # call'.n
    BY <1>2, <1>4, <2>1, <2>4, <2>5
  <2> QED
    BY <2>1, <2>6, <2>7 DEF Queued
<1>8. ~ring'.halt
  BY <1>2
<1>9. ~(ring.owed < R - 1 /\ call.pc = "idle" /\ call.ret = 0 /\ call.n > 0)
  BY <1>6 DEF RingInv
<1> QED
  BY <1>2, <1>6, <1>7, <1>8, <1>9 DEF RingInv

LEMMA RingFail ==
    ASSUME XferTypeOK, XferPlaces, RingInv, xk = "xhci", XferTypeOK', ~ring.halt,
           (\A i \in 0 .. RingItems - 1 : ring.trb[i].call <= call.n)',
           ring.trb[ring.deq].part # 0, ring.trb[ring.deq].cs = ring.dcs,
           ring' = [ring EXCEPT !.halt = TRUE, !.evts = Append(@, [eidx |-> ring.deq + 1, cc |-> "err"])],
           UNCHANGED <<xk, call, elem, fetched, moved>>
    PROVE  RingInv'
<1> USE XferAssumption
<1>1. ring \in XferRings /\ ring.trb[RingItems - 1].part = 0 /\ ring.evts \in Seq(XferEvents)
  BY DEF XferTypeOK, XferRings
<1>2. /\ ring'.halt = TRUE /\ ring'.owed = ring.owed
      /\ ring'.evts = Append(ring.evts, [eidx |-> ring.deq + 1, cc |-> "err"])
  BY <1>1 DEF XferRings
<1>3. NewestCc(ring') = "err"
  <2>1. ring'.evts # <<>> /\ ring'.evts[Len(ring'.evts)] = [eidx |-> ring.deq + 1, cc |-> "err"]
    BY <1>1, <1>2
  <2> QED
    BY <2>1 DEF NewestCc
<1>4. ~(ring.owed < RingItems - 1 /\ call.pc = "idle" /\ call.ret = 0 /\ call.n > 0)
  <2> SUFFICES ASSUME ring.owed < RingItems - 1, Pending(ring) = 0 PROVE FALSE
    BY DEF RingInv
  <2>1. Laps(ring)
    BY DEF RingInv
  <2>2. Pending(ring) >= 1
    BY <1>1, <2>1, ExecPlace
  <2> QED
    BY <2>2
<1> QED
  BY <1>2, <1>3, <1>4 DEF RingInv

LEMMA RingWaitStep ==
    ASSUME XferTypeOK, XferPlaces, RingInv, xk = "xhci", xk' = xk, XferTypeOK',
           (\A i \in 0 .. RingItems - 1 : ring.trb[i].call <= call.n)', XhciWait
    PROVE  XferPlaces' /\ RingInv'
<1> USE XferAssumption
<1> DEFINE p == Processed(ring)
<1>1. ring \in XferRings /\ call \in XferCalls
  BY DEF XferTypeOK
<1>2. /\ ring' = p /\ call.pc = "wait" /\ UNCHANGED <<elem, fetched, moved>>
      /\ IF RingBusy(p) THEN Returns(-1) ELSE Returns(IF p.cc = "ok" THEN 0 ELSE -1)
  BY DEF XhciWait
<1>3. /\ p.trb = ring.trb /\ p.nidx = ring.nidx /\ p.cs = ring.cs /\ p.deq = ring.deq /\ p.dcs = ring.dcs
      /\ p.halt = ring.halt /\ p.owed = ring.owed /\ p.evts = <<>> /\ p.eidx = Newest(ring) /\ p.cc = NewestCc(ring)
  BY <1>1, ProcessedType
<1> HIDE DEF p
<1>4. PICK r \in {0, -1} : Returns(r) /\ (r = 0 => ~RingBusy(p) /\ p.cc = "ok")
  BY <1>2
<1>5. call'.pc = "idle" /\ call'.n = call.n /\ call'.parts = call.parts /\ call'.ret = r
  BY <1>4, ReturnsType
<1>6. /\ Newest(p) = Newest(ring) /\ NewestCc(p) = NewestCc(ring) /\ Pending(p) = Pending(ring)
      /\ \A e : Ahead(p, e) = Ahead(ring, e)
  BY <1>3 DEF Newest, NewestCc, Pending, Ahead
<1>7. XferPlaces'
  BY <1>2, <1>5 DEF XferPlaces
<1>8. ring'.halt => NewestCc(ring') = "err"
  BY <1>2, <1>3, <1>6 DEF RingInv
<1>9. ASSUME ring'.owed < RingItems - 1, ~ring'.halt PROVE Laps(ring') /\ RingAnswered(ring')
  <2>1. Laps(ring) /\ RingAnswered(ring)
    BY <1>2, <1>3, <1>9 DEF RingInv
  <2>2. Laps(p)
    BY <1>3, <2>1 DEF Laps, Newest
  <2>3. RingAnswered(p)
    <3>1. Ahead(ring, Newest(ring)) \in Nat
      BY <1>1, <2>1, RingNumbers
    <3>2. /\ Pending(ring) <= Ahead(ring, Newest(ring)) /\ Ahead(ring, Newest(ring)) <= Ahead(ring, ring.eidx)
          /\ Ahead(ring, ring.eidx) <= ring.owed /\ Ahead(ring, ring.eidx) \in Nat /\ ring.owed \in Nat
      BY <1>1, <2>1, RingNumbers DEF RingAnswered, XferRings
    <3>3. Ahead(p, p.eidx) = Ahead(ring, Newest(ring)) /\ Ahead(p, Newest(p)) = Ahead(ring, Newest(ring))
      BY <1>3, <1>6
    <3>4. Ahead(ring, Newest(ring)) <= Ahead(ring, Newest(ring)) /\ Ahead(ring, Newest(ring)) <= ring.owed
      BY <3>1, <3>2
    <3> QED
      BY <1>3, <1>6, <3>2, <3>3, <3>4 DEF RingAnswered
  <2> QED
    BY <1>2, <2>2, <2>3
<1>10. ASSUME ring'.owed < RingItems - 1, call'.ret = 0, call'.n > 0
       PROVE  ~ring'.halt /\ Pending(ring') = 0 /\ moved' = Parts(call'.parts)
  <2>1. ~RingBusy(p) /\ p.cc = "ok"
    BY <1>4, <1>5, <1>10
  <2>2. ~ring.halt
    BY <1>3, <2>1 DEF RingInv
  <2>3. Laps(ring) /\ RingAnswered(ring) /\ Queued(ring)
    BY <1>2, <1>3, <1>10, <2>2 DEF RingInv
  <2>4. Newest(ring) = ring.nidx
    BY <1>3, <2>1 DEF RingBusy
  <2>5. Pending(ring) = 0
    <3>1. Pending(ring) \in Nat /\ Ahead(ring, ring.nidx) = 0
      BY <1>1, <2>3, RingNumbers
    <3> QED
      BY <2>3, <2>4, <3>1 DEF RingAnswered
  <2>6. moved = Parts(call.parts)
    <3>1. call.parts \in Nat /\ 0 <= call.parts /\ call.parts - 0 = call.parts
      BY <1>1 DEF XferCalls
    <3> QED
      BY <2>3, <2>5, <3>1 DEF Queued
  <2> QED
    BY <1>2, <1>3, <1>5, <1>6, <2>2, <2>5, <2>6
<1> QED
  BY <1>5, <1>7, <1>8, <1>9, <1>10 DEF RingInv

LEMMA XferRing ==
    ASSUME XferTypeOK, XferPlaces, RingInv, RingStep, xk = "xhci", xk' = xk, XferTypeOK',
           (\A i \in 0 .. RingItems - 1 : ring.trb[i].call <= call.n)'
    PROVE  XferPlaces' /\ RingInv'
<1>1. ASSUME NEW n \in 1 .. MaxParts, NEW control \in BOOLEAN, XhciSend(n, control) PROVE XferPlaces' /\ RingInv'
  BY <1>1, RingSendStep
<1>2. CASE XhciExec
  <2>1. /\ UNCHANGED <<xk, call, td, elem, fetched>> /\ ~ring.halt /\ ring.trb[ring.deq].cs = ring.dcs
    BY <1>2 DEF XhciExec
  <2>2. XferPlaces'
    BY <2>1 DEF XferPlaces
  <2> DEFINE t == ring.trb[ring.deq]  e(c) == [eidx |-> ring.deq + 1, cc |-> c]
             x == IF t.last THEN Append(ring.evts, e("ok")) ELSE ring.evts
  <2>3. \/ /\ t.part = 0 /\ ring' = [ring EXCEPT !.deq = 0, !.dcs = 1 - @] /\ UNCHANGED moved
        \/ /\ t.part # 0 /\ ring' = [ring EXCEPT !.deq = ring.deq + 1, !.evts = x]
           /\ moved' = IF t.call = call.n THEN Append(moved, t.part) ELSE moved
        \/ /\ t.part # 0 /\ ring' = [ring EXCEPT !.halt = TRUE, !.evts = Append(@, e("err"))] /\ UNCHANGED moved
    BY <1>2 DEF XhciExec
  <2>4. x \in {ring.evts, Append(ring.evts, e("ok"))}
    OBVIOUS
  <2>5. CASE t.part = 0 /\ ring' = [ring EXCEPT !.deq = 0, !.dcs = 1 - @] /\ UNCHANGED moved
    BY <2>1, <2>2, <2>5, RingLink
  <2>6. CASE /\ t.part # 0 /\ ring' = [ring EXCEPT !.deq = ring.deq + 1, !.evts = x]
             /\ moved' = IF t.call = call.n THEN Append(moved, t.part) ELSE moved
    <3> HIDE DEF x
    <3> QED
      BY <2>1, <2>2, <2>4, <2>6, RingExecute
  <2>7. CASE /\ t.part # 0 /\ ring' = [ring EXCEPT !.halt = TRUE, !.evts = Append(@, e("err"))] /\ UNCHANGED moved
    BY <2>1, <2>2, <2>7, RingFail
  <2> HIDE DEF t, x
  <2> QED
    BY <2>3, <2>5, <2>6, <2>7
<1>3. CASE XhciWait
  BY <1>3, RingWaitStep
<1> QED
  BY <1>1, <1>2, <1>3 DEF RingStep

LEMMA XferRolesStep ==
    ASSUME XferTypeOK, XferRoles, XferNext
    PROVE  XferRoles' /\ (late => late')
<1>1. /\ xk' = xk /\ (xk = "uhci" => UhciStep) /\ (xk \in {"ohci", "ehci"} => ListStep)
      /\ (xk = "xhci" => RingStep) /\ xk \in {"uhci", "ohci", "ehci", "xhci"}
  BY XferKindStep DEF XferTypeOK
<1>2. CASE xk = "uhci"
  <2>1. ASSUME NEW n \in 1 .. MaxParts, NEW control \in BOOLEAN, UhciSend(n, control)
        PROVE  call'.pc = "fill" /\ UNCHANGED <<broken, late>>
    BY <2>1, BeginType DEF UhciSend
  <2>2. CASE UhciFill
    <3>1. call'.pc \in {"fill", "wait"} /\ UNCHANGED <<broken, late>>
      BY <2>2 DEF UhciFill, XferTypeOK, XferCalls
    <3> QED
      BY <1>1, <1>2, <3>1 DEF XferRoles
  <2>3. CASE UhciDone
    BY <1>1, <1>2, <2>3, ReturnsType DEF UhciDone, XferRoles
  <2>4. CASE UhciFail
    <3>1. call'.pc = "tick" /\ UNCHANGED <<broken, late>>
      BY <2>4 DEF UhciFail, XferTypeOK, XferCalls
    <3> QED
      BY <1>1, <1>2, <3>1 DEF XferRoles
  <2>5. CASE WaitTick
    BY <1>1, <1>2, <2>5, ReturnsType DEF WaitTick, XferRoles
  <2>6. CASE TickOver
    <3>1. call'.pc = "idle" /\ broken' = TRUE /\ late' = TRUE
      BY <2>6 DEF TickOver, XferTypeOK, XferCalls
    <3> QED
      BY <1>1, <1>2, <3>1 DEF XferRoles
  <2>7. CASE Fetch
    BY <1>1, <1>2, <2>7 DEF Fetch, XferRoles
  <2>8. CASE Complete
    BY <1>1, <1>2, <2>8, CompleteIs DEF XferRoles
  <2> QED
    BY <1>1, <1>2, <2>1, <2>2, <2>3, <2>4, <2>5, <2>6, <2>7, <2>8 DEF UhciStep, XferRoles
<1>3. CASE xk \in {"ohci", "ehci"}
  <2>1. ASSUME NEW n \in 1 .. MaxParts, NEW control \in BOOLEAN, TdSend(n, control)
        PROVE  call'.pc \in {"wait", "refuse"} /\ UNCHANGED <<broken, late>>
    BY <2>1, BeginType DEF TdSend
  <2>2. CASE TdRefuse
    BY <1>1, <1>3, <2>2, ReturnsType DEF TdRefuse, XferRoles
  <2>3. CASE OhciDone
    BY <1>1, <1>3, <2>3, ReturnsType DEF OhciDone, XferRoles
  <2>4. CASE OhciFail
    <3>1. call'.pc = "tick" /\ UNCHANGED <<broken, late>>
      BY <2>4 DEF OhciFail, XferTypeOK, XferCalls
    <3> QED
      BY <1>1, <1>3, <3>1 DEF XferRoles
  <2>5. CASE EhciWait
    <3>1. \/ Returns(-1) \/ Returns(0)
          \/ call' = [call EXCEPT !.pos = @ + 1] /\ broken' = broken /\ late' = late
      <4>1. CASE td[call.pos].st = "err"
        BY <2>5, <4>1 DEF EhciWait
      <4>2. CASE td[call.pos].st # "err" /\ call.pos + 1 = call.parts
        BY <2>5, <4>2 DEF EhciWait
      <4>3. CASE td[call.pos].st # "err" /\ call.pos + 1 # call.parts
        BY <2>5, <4>3 DEF EhciWait
      <4> QED
        BY <4>1, <4>2, <4>3
    <3>2. call.pc = "wait" /\ call \in XferCalls
      BY <2>5 DEF EhciWait, XferTypeOK
    <3>3. \/ call'.pc = "idle" /\ (broken => broken') /\ late' = late
          \/ call'.pc = "wait" /\ UNCHANGED <<broken, late>>
      BY <3>1, <3>2, ReturnsType DEF XferCalls
    <3> QED
      BY <1>1, <1>3, <3>3 DEF XferRoles
  <2>6. CASE EhciFail
    <3>1. call'.pc = "tick" /\ UNCHANGED <<broken, late>>
      BY <2>6 DEF EhciFail, XferTypeOK, XferCalls
    <3> QED
      BY <1>1, <1>3, <3>1 DEF XferRoles
  <2>7. CASE WaitTick
    BY <1>1, <1>3, <2>7, ReturnsType DEF WaitTick, XferRoles
  <2>8. CASE TickOver
    <3>1. call'.pc = "idle" /\ broken' = TRUE /\ late' = TRUE
      BY <2>8 DEF TickOver, XferTypeOK, XferCalls
    <3> QED
      BY <1>1, <1>3, <3>1 DEF XferRoles
  <2>9. CASE Fetch
    BY <1>1, <1>3, <2>9 DEF Fetch, XferRoles
  <2>10. CASE Complete
    BY <1>1, <1>3, <2>10, CompleteIs DEF XferRoles
  <2> QED
    BY <1>1, <1>3, <2>1, <2>2, <2>3, <2>4, <2>5, <2>6, <2>7, <2>8, <2>9, <2>10 DEF ListStep, XferRoles
<1>4. CASE xk = "xhci"
  <2>1. ASSUME NEW n \in 1 .. MaxParts, NEW control \in BOOLEAN, XhciSend(n, control)
        PROVE  call'.pc = "wait" /\ UNCHANGED <<elem, fetched, broken, late>>
    BY <2>1, BeginType DEF XhciSend
  <2>2. CASE XhciExec
    BY <1>1, <1>4, <2>2 DEF XhciExec, XferRoles
  <2>3. CASE XhciWait
    BY <1>1, <1>4, <2>3, ReturnsType DEF XhciWait, XferRoles
  <2> QED
    BY <1>1, <1>4, <2>1, <2>2, <2>3 DEF RingStep, XferRoles
<1> QED
  BY <1>1, <1>2, <1>3, <1>4

LEMMA XferInvStep == XferInv /\ [XferNext]_xferVars => XferInv'
<1> SUFFICES ASSUME XferInv, [XferNext]_xferVars PROVE XferInv'
  OBVIOUS
<1>1. XferTypeOK /\ XferRoles /\ (late \/ (XferPlaces /\ ListInv /\ UhciInv /\ RingInv))
  BY DEF XferInv
<1>2. CASE XferNext
  <2>1. /\ xk' = xk /\ (xk = "uhci" => UhciStep) /\ (xk \in {"ohci", "ehci"} => ListStep)
        /\ (xk = "xhci" => RingStep) /\ xk \in {"uhci", "ohci", "ehci", "xhci"}
    BY <1>1, <1>2, XferKindStep DEF XferTypeOK
  <2>0. XferRoles' /\ (late => late')
    BY <1>1, <1>2, XferRolesStep
  <2>2. CASE xk = "uhci"
    <3>1. XferTypeOK'
      BY <1>1, <2>1, <2>2, XferTypeUhci
    <3>2. ~late' => XferPlaces' /\ UhciInv'
      BY <1>1, <2>0, <2>1, <2>2, <3>1, XferUhci
    <3>3. ListInv' /\ RingInv'
      BY <2>1, <2>2 DEF ListInv, RingInv
    <3> QED
      BY <2>0, <3>1, <3>2, <3>3 DEF XferInv
  <2>3. CASE xk \in {"ohci", "ehci"}
    <3>1. XferTypeOK'
      BY <1>1, <2>1, <2>3, XferTypeList
    <3>2. ~late' => XferPlaces' /\ ListInv'
      BY <1>1, <2>0, <2>1, <2>3, <3>1, XferList
    <3>3. UhciInv' /\ RingInv'
      BY <2>1, <2>3 DEF UhciInv, RingInv
    <3> QED
      BY <2>0, <3>1, <3>2, <3>3 DEF XferInv
  <2>4. CASE xk = "xhci"
    <3>0. XferPlaces /\ RingInv
      BY <1>1, <2>4 DEF XferRoles
    <3>1. XferTypeOK' /\ (\A i \in 0 .. RingItems - 1 : ring.trb[i].call <= call.n)'
      BY <1>1, <2>1, <2>4, <3>0, XferTypeRing DEF RingInv
    <3>2. XferPlaces' /\ RingInv'
      BY <1>1, <2>1, <2>4, <3>0, <3>1, XferRing
    <3>3. UhciInv' /\ ListInv'
      BY <2>1, <2>4 DEF UhciInv, ListInv
    <3> QED
      BY <2>0, <3>1, <3>2, <3>3 DEF XferInv
  <2> QED
    BY <2>1, <2>2, <2>3, <2>4
<1>3. CASE UNCHANGED xferVars
  <2>1. XferTypeOK' /\ XferRoles' /\ late' = late
    BY <1>1, <1>3 DEF xferVars, XferTypeOK, XferRoles
  <2>2. ~late => XferPlaces' /\ ListInv' /\ UhciInv' /\ RingInv'
    BY <1>1, <1>3 DEF xferVars, XferPlaces, ListInv, ListedTo, UhciInv, WindowAt, Toggled, RingInv, Queued, OhciHaltMissed
  <2> QED
    BY <2>1, <2>2 DEF XferInv
<1> QED
  BY <1>2, <1>3

\* A transfer that uhci_send_pipe, ohci_send_pipe, ehci_send_pipe or xhci_event_wait
\* reports as done has moved each of its parts once and in order (with the exceptions
\* that TransfersClean names), and no controller works on, or finds, descriptors of a
\* call that has returned, until one works on a descriptor for longer than waittick
\* waits: for any number of descriptors on the stack, places of the
\* ring, parts and transfers.
THEOREM TransfersStayClean == XferSpec => []TransfersClean
<1>1. XferInit => XferInv
  BY XferInvInit
<1>2. XferInv /\ [XferNext]_xferVars => XferInv'
  BY XferInvStep
<1>3. XferInv => TransfersClean
  BY XferSafe
<1> QED
  BY <1>1, <1>2, <1>3, PTL DEF XferSpec
=============================================================================
