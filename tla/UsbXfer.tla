------------------------------ MODULE UsbXfer ------------------------------
(***************************************************************************)
(* Control and bulk transfers of the four USB host controllers: descriptors *)
(* on the stack of the caller (a ring in the pipe, with XHCI) that driver   *)
(* and controller work on at the same time. A transfer is a sequence of     *)
(* parts: packets (UHCI), buffers of a descriptor (OHCI, EHCI), or TRBs     *)
(* (XHCI); a control transfer has the setup and status stages as parts.     *)
(***************************************************************************)
EXTENDS Integers, Sequences

CONSTANTS
    XferKinds,  \* the controllers of the instance
    Tds,        \* STACKTDS, STACKQTDS, STACKOTDS: descriptors on the stack
    RingItems,  \* XHCI_RING_ITEMS
    MaxParts,   \* the longest transfer of the instance
    MaxCalls    \* bound of the model on transfers

ASSUME XferAssumption ==
    /\ XferKinds \subseteq {"uhci", "ohci", "ehci", "xhci"}
    /\ Tds \in Nat \ {0} /\ RingItems \in Nat /\ RingItems >= 2 /\ MaxParts \in Nat

VARIABLES
    xk,         \* the type of the controller
    call,       \* the transfer under way, or the last: how many there were,
                \* whether it is a control transfer, its parts, how many were
                \* filled in or waited for, and what was returned
    td,         \* the descriptors on the stack
    elem,       \* the one the controller is to work on (TERM: none)
    fetched,    \* the one it is working on
    ring,       \* the ring of an XHCI pipe (owed: the TRBs queued since it was
                \* last empty, or since it first overran)
    moved,      \* the parts that the device took or gave
    tog,        \* data toggle: of the pipe, of the device
    broken,     \* whether an earlier transfer failed, which nobody repairs
    late        \* history: whether a controller worked on a descriptor for longer
                \* than the driver waited

xferVars == <<xk, call, td, elem, fetched, ring, moved, tog, broken, late>>

TERM == -1
Slots == 0 .. Tds - 1
EmptyTds == [i \in Slots |-> [st |-> "idle", part |-> 0, link |-> TERM, tog |-> 0]]
EmptyRing == [trb |-> [i \in 0 .. RingItems - 1 |-> [part |-> 0, call |-> 0, last |-> FALSE, cs |-> 0]],
              nidx |-> 0, eidx |-> 0, cs |-> 1, deq |-> 0, dcs |-> 1, halt |-> FALSE, cc |-> "none", evts |-> <<>>, owed |-> 0]
Idle == [pc |-> "idle", n |-> 0, cmd |-> FALSE, parts |-> 0, pos |-> 0, ret |-> 0]

XferInit ==
    /\ xk \in XferKinds
    /\ call = Idle /\ td = EmptyTds /\ elem = TERM /\ fetched = TERM /\ ring = EmptyRing
    /\ moved = <<>> /\ tog = [pipe |-> 0, dev |-> 0] /\ broken = FALSE /\ late = FALSE

\* send_pipe returns.
Returns(r) == /\ call' = [call EXCEPT !.pc = "idle", !.ret = r]
              /\ broken' = (broken \/ r # 0)
              /\ UNCHANGED late

Begin(n, cmd, pc) ==
    /\ call.pc = "idle" /\ call.n < MaxCalls
    /\ n >= 1 /\ (cmd => n >= 2)
    /\ call' = [pc |-> pc, n |-> call.n + 1, cmd |-> cmd, parts |-> n, pos |-> 0, ret |-> 0]
    /\ moved' = <<>>

-----------------------------------------------------------------------------
\* uhci_send_pipe: the descriptors are cleared and given to the controller, and
\* filled in while it works.
UhciSend(n, cmd) ==
    /\ xk = "uhci" /\ Begin(n, cmd, "fill")
    /\ td' = EmptyTds /\ elem' = 0
    /\ tog' = IF cmd THEN [pipe |-> 1, dev |-> 1] ELSE tog
    /\ UNCHANGED <<xk, fetched, ring, broken, late>>

\* One part, in the next descriptor of the ring once the controller is done with
\* it (wait_td).
UhciFill ==
    LET i == call.pos % Tds
    IN  /\ xk = "uhci" /\ call.pc = "fill" /\ call.pos < call.parts
        /\ td[i].st \in {"idle", "done"}
        /\ td' = [td EXCEPT ![i] = [st |-> "active", part |-> call.pos + 1, tog |-> tog.pipe,
                                    link |-> IF call.pos + 1 = call.parts THEN TERM ELSE (i + 1) % Tds]]
        /\ tog' = IF call.cmd THEN tog ELSE [tog EXCEPT !.pipe = 1 - @]
        /\ call' = [call EXCEPT !.pos = @ + 1, !.pc = IF call.pos + 1 = call.parts THEN "wait" ELSE "fill"]
        /\ UNCHANGED <<xk, elem, fetched, ring, moved, broken, late>>

\* wait_pipe sees the end of the queue.
UhciDone ==
    /\ xk = "uhci" /\ call.pc = "wait" /\ elem = TERM
    /\ Returns(0)
    /\ UNCHANGED <<xk, td, elem, fetched, ring, moved, tog>>

\* wait_td sees an error or the time is over, in wait_td or wait_pipe: the queue
\* is taken from the controller. The toggle of the pipe was saved only when all
\* parts were filled in.
UhciFail ==
    /\ xk = "uhci" /\ call.pc \in {"fill", "wait"} /\ ~(call.pc = "wait" /\ elem = TERM)
    /\ elem' = TERM
    /\ tog' = IF call.pc = "wait" \/ call.cmd THEN tog
              ELSE [tog EXCEPT !.pipe = (@ + call.pos) % 2]
    /\ call' = [call EXCEPT !.pc = "tick"]
    /\ UNCHANGED <<xk, td, fetched, ring, moved, broken, late>>

-----------------------------------------------------------------------------
\* What ohci_send_pipe and ehci_send_pipe do: all descriptors at once, if there are
\* enough.
TdSend(n, cmd) ==
    /\ IF n > Tds
       THEN /\ Begin(n, cmd, "refuse") /\ UNCHANGED <<td, elem>>
       ELSE /\ Begin(n, cmd, "wait")
            /\ td' = [i \in Slots |-> IF i < n THEN [st |-> "active", part |-> i + 1, tog |-> 0,
                                                     link |-> IF i + 1 = n THEN TERM ELSE i + 1]
                                      ELSE EmptyTds[i]]
            /\ elem' = 0
    /\ UNCHANGED <<xk, fetched, ring, tog, broken, late>>
OhciSend(n, cmd) == xk = "ohci" /\ TdSend(n, cmd)
EhciSend(n, cmd) == xk = "ehci" /\ TdSend(n, cmd)

\* More data than the descriptors of the stack can hold.
TdRefuse ==
    /\ call.pc = "refuse" /\ Returns(-1)
    /\ UNCHANGED <<xk, td, elem, fetched, ring, moved, tog>>

\* wait_ed: the controller has come to the tail, whatever it halted for there.
OhciDone ==
    /\ xk = "ohci" /\ call.pc = "wait" /\ elem = TERM
    /\ Returns(0)
    /\ UNCHANGED <<xk, td, elem, fetched, ring, moved, tog>>

\* ED_SKIP after a timeout, then a frame is waited for.
OhciFail ==
    /\ xk = "ohci" /\ call.pc = "wait" /\ elem # TERM
    /\ elem' = TERM
    /\ call' = [call EXCEPT !.pc = "tick"]
    /\ UNCHANGED <<xk, td, fetched, ring, moved, tog, broken, late>>

\* ehci_wait_td on one descriptor after the other.
EhciWait ==
    LET t == td[call.pos]
    IN  /\ xk = "ehci" /\ call.pc = "wait" /\ call.pos < call.parts /\ t.st # "active"
        /\ IF t.st = "err"
           THEN elem' = TERM /\ Returns(-1)
           ELSE IF call.pos + 1 = call.parts THEN Returns(0) /\ UNCHANGED elem
           ELSE call' = [call EXCEPT !.pos = @ + 1] /\ UNCHANGED <<elem, broken, late>>
        /\ UNCHANGED <<xk, td, fetched, ring, moved, tog>>

\* ehci_reset_pipe after a timeout, then the doorbell.
EhciFail ==
    /\ xk = "ehci" /\ call.pc = "wait" /\ td[call.pos].st = "active"
    /\ elem' = TERM
    /\ call' = [call EXCEPT !.pc = "tick"]
    /\ UNCHANGED <<xk, td, fetched, ring, moved, tog, broken, late>>

\* Broken variant: the frame is not waited for.
WaitTickNot ==
    /\ call.pc = "tick"
    /\ Returns(-1)
    /\ UNCHANGED <<xk, td, elem, fetched, ring, moved, tog>>
\* uhci_waittick, ohci_waittick, ehci_waittick: the frame of what the controller
\* was working on is over.
WaitTick ==
    /\ call.pc = "tick" /\ fetched = TERM
    /\ Returns(-1)
    /\ UNCHANGED <<xk, td, elem, fetched, ring, moved, tog>>

\* They give up: after 5 s without a new frame (UHCI, OHCI), 100 ms without an
\* answer to the doorbell or a free one (EHCI), or, in 16 bit mode, the 10 ms for
\* which ehci_waittick sleeps. The call returns all the same, and the controller
\* still works on a descriptor of its stack.
TickOver ==
    /\ call.pc = "tick" /\ fetched # TERM
    /\ call' = [call EXCEPT !.pc = "idle", !.ret = -1]
    /\ broken' = TRUE /\ late' = TRUE
    /\ UNCHANGED <<xk, td, elem, fetched, ring, moved, tog>>

-----------------------------------------------------------------------------
\* The controller takes an active descriptor and, later, writes what came of it.
\* A device drops a packet with the wrong toggle, as a copy of the last one.
CanFetch == xk # "xhci" /\ elem # TERM /\ td[elem].st = "active" /\ fetched = TERM

Fetch ==
    /\ CanFetch /\ fetched' = elem
    /\ UNCHANGED <<xk, call, td, elem, ring, moved, tog, broken, late>>

\* After an error UHCI stays at the descriptor, EHCI halts there, and OHCI halts
\* behind it.
Complete ==
    LET t == td[fetched]
        takes == xk # "uhci" \/ call.cmd \/ t.tog = tog.dev
    IN  /\ fetched # TERM
        /\ \/ /\ td' = [td EXCEPT ![fetched].st = "done"]
              /\ elem' = IF elem = fetched THEN t.link ELSE elem
              /\ moved' = IF takes THEN Append(moved, t.part) ELSE moved
              /\ tog' = IF takes /\ ~call.cmd THEN [tog EXCEPT !.dev = 1 - @] ELSE tog
           \/ /\ td' = [td EXCEPT ![fetched].st = "err"]
              /\ elem' = IF elem = fetched /\ xk = "ohci" /\ t.link = TERM THEN TERM ELSE elem
              /\ UNCHANGED <<moved, tog>>
        /\ fetched' = TERM
        /\ UNCHANGED <<xk, call, ring, broken, late>>

-----------------------------------------------------------------------------
\* xhci_trb_queue: a link at the end of the ring turns the cycle bit.
TrbQueue(r, trb) ==
    LET q == IF r.nidx >= RingItems - 1
             THEN [r EXCEPT !.trb[r.nidx] = [part |-> 0, call |-> 0, last |-> FALSE, cs |-> r.cs],
                            !.nidx = 0, !.cs = 1 - @]
             ELSE r
    IN  [q EXCEPT !.trb[q.nidx] = [part |-> trb.part, call |-> trb.call, last |-> trb.last, cs |-> q.cs],
                  !.nidx = @ + 1]

\* xhci_ring_busy
RingBusy(r) == r.eidx # r.nidx

\* xhci_xfer_normal, xhci_xfer_setup: one TRB, or setup, data and status.
TrbOf(n, parts, i) == [part |-> i, call |-> n, last |-> i = parts]
QueueAll(r, n, parts) ==
    LET one == TrbQueue(r, TrbOf(n, parts, 1))
        two == TrbQueue(one, TrbOf(n, parts, 2))
    IN  IF parts = 1 THEN one ELSE IF parts = 2 THEN two ELSE TrbQueue(two, TrbOf(n, parts, 3))

XhciSend(n, cmd) ==
    /\ xk = "xhci" /\ n <= 3 /\ (~cmd => n = 1)
    /\ Begin(n, cmd, "wait")
    /\ ring' = [QueueAll(ring, call.n + 1, n) EXCEPT !.owed = IF RingBusy(ring) \/ @ >= RingItems - 1 THEN @ + n ELSE n]
    /\ UNCHANGED <<xk, td, elem, fetched, tog, broken, late>>

\* The controller executes a TRB of the ring, or follows a link. It answers the
\* last TRB of a transfer (TRB_TR_IOC), and any TRB that fails, which halts the
\* endpoint.
XhciExec ==
    LET t == ring.trb[ring.deq]
        next == IF t.part = 0 THEN 0 ELSE ring.deq + 1
    IN  /\ xk = "xhci" /\ ~ring.halt /\ t.cs = ring.dcs
        /\ \/ /\ t.part = 0
              /\ ring' = [ring EXCEPT !.deq = 0, !.dcs = 1 - @]
              /\ UNCHANGED moved
           \/ /\ t.part # 0
              /\ ring' = [ring EXCEPT !.deq = next,
                            !.evts = IF t.last THEN Append(@, [eidx |-> ring.deq + 1, cc |-> "ok"]) ELSE @]
              /\ moved' = IF t.call = call.n THEN Append(moved, t.part) ELSE moved
           \/ /\ t.part # 0
              /\ ring' = [ring EXCEPT !.halt = TRUE, !.evts = Append(@, [eidx |-> ring.deq + 1, cc |-> "err"])]
              /\ UNCHANGED moved
        /\ UNCHANGED <<xk, call, td, elem, fetched, tog, broken, late>>

\* xhci_event_wait: xhci_process_events takes all events, and the ring is not
\* busy when the last of them is that of its last TRB.
Processed(r) ==
    IF r.evts = <<>> THEN r
    ELSE [r EXCEPT !.eidx = r.evts[Len(r.evts)].eidx, !.cc = r.evts[Len(r.evts)].cc, !.evts = <<>>]
XhciWait ==
    LET r == Processed(ring)
    IN  /\ xk = "xhci" /\ call.pc = "wait"
        /\ ring' = r
        /\ IF RingBusy(r) THEN Returns(-1)
           ELSE Returns(IF r.cc = "ok" THEN 0 ELSE -1)
        /\ UNCHANGED <<xk, td, elem, fetched, moved, tog>>

\* usb_send_pipe by the type of the controller, and what the controllers do.
XferNext ==
    \/ \E n \in 1 .. MaxParts, cmd \in BOOLEAN : UhciSend(n, cmd) \/ OhciSend(n, cmd) \/ EhciSend(n, cmd) \/ XhciSend(n, cmd)
    \/ UhciFill \/ UhciDone \/ UhciFail
    \/ TdRefuse \/ OhciDone \/ OhciFail \/ EhciWait \/ EhciFail \/ WaitTick \/ TickOver
    \/ Fetch \/ Complete
    \/ XhciExec \/ XhciWait

XferSpec == XferInit /\ [][XferNext]_xferVars

-----------------------------------------------------------------------------
\* A transfer that is reported as done has moved each of its parts once and in
\* order, although driver and controller share the descriptors: as long as no
\* earlier transfer of the pipe failed, or, with XHCI, as fewer TRBs than its
\* ring holds are unanswered, for a late event of an earlier transfer is then
\* never taken for that of a later one. (wait_ed misses an error of the last
\* descriptor, as it looks at the pointer and not at the halt bit.) And when a
\* transfer has returned, done or given up, the controller neither works on its
\* descriptors nor finds them, for they were on the stack of the caller, unless
\* it once took longer over one than waittick waits (TickOver, `late`): then it
\* may write to what has become of that stack. An XHCI controller keeps what was
\* given up in its ring.
OhciHaltMissed == xk = "ohci" /\ td[call.parts - 1].st = "err"
MovedExactly ==
    call.n > 0 /\ call.ret = 0 /\ (IF xk = "xhci" THEN ring.owed < RingItems - 1 ELSE ~broken) =>
        moved = [i \in 1 .. call.parts |-> i] \/ OhciHaltMissed
TransfersClean == call.pc = "idle" => MovedExactly /\ (late \/ (fetched = TERM /\ ~CanFetch))
=============================================================================
