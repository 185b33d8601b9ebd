------------------------------- MODULE MCUsb -------------------------------
(***************************************************************************)
(* USB and input of the firmware on small machines. The parts have nothing *)
(* in common but the keyboard buffer: `part` says which of them is alive.  *)
(***************************************************************************)
EXTENDS UsbEnum, UsbXfer, Keyboard, Ps2

VARIABLE part

Companions == [kind |-> [e |-> "ehci", u |-> "uhci"],
               hub |-> [e1 |-> "e", e2 |-> "e", u1 |-> "u", u2 |-> "u"],
               cntl |-> [e1 |-> "e", e2 |-> "e", u1 |-> "u", u2 |-> "u"],
               at |-> [e1 |-> "d1", e2 |-> "d2", u1 |-> "d1", u2 |-> "d2"],
               class |-> [d1 |-> "disk", d2 |-> "kbd"],
               speed |-> [d1 |-> "high", d2 |-> "low"]]
Hub == [kind |-> [u |-> "uhci"],
        hub |-> [u1 |-> "u", u2 |-> "u", h1 |-> "u1", h2 |-> "u1"],
        cntl |-> [u1 |-> "u", u2 |-> "u", h1 |-> "u", h2 |-> "u"],
        at |-> [u1 |-> "d1", u2 |-> "d2", h1 |-> "d3", h2 |-> "d4"],
        class |-> [d1 |-> "hub", d2 |-> "disk", d3 |-> "kbd", d4 |-> "disk"],
        speed |-> [d1 |-> "full", d2 |-> "full", d3 |-> "low", d4 |-> "full"]]
Ohci == [kind |-> [o |-> "ohci", x |-> "xhci"],
         hub |-> [o1 |-> "o", o2 |-> "o", x1 |-> "x", x2 |-> "x"],
         cntl |-> [o1 |-> "o", o2 |-> "o", x1 |-> "x", x2 |-> "x"],
         at |-> [o1 |-> "d1", o2 |-> "d2", x1 |-> "d3", x2 |-> "d4"],
         class |-> [d1 |-> "disk", d2 |-> "kbd", d3 |-> "kbd", d4 |-> "mouse"],
         speed |-> [d1 |-> "full", d2 |-> "low", d3 |-> "full", d4 |-> "low"]]
MCMachines == {Companions, Hub, Ohci}

\* Keys and combinations of them: repetition, both controls with a pause that is
\* a break, let go before and after it, more keys than a report holds, prefixed
\* keys and a modifier.
Rep(mods, keys) == [mods |-> mods, keys |-> keys]
MCReports == {Rep({}, <<>>), Rep({"lctrl", "rctrl"}, <<"a", "pause">>),
              Rep({"lctrl", "ralt"}, <<"rollover", "rollover">>), Rep({"ralt"}, <<"prtscr", "home">>)}

allVars == <<enumVars, xferVars, hidVars, kbdVars, psVars>>

Init ==
    /\ part \in {"enum", "xfer", "hid", "ps2"}
    /\ EnumInit /\ XferInit /\ HidInit /\ KbdInit /\ PsInit
    /\ part # "enum" => machine = Hub
    /\ part # "xfer" => xk = "uhci"
    /\ part # "hid" => ik = "uhci"

EnumTurn == part = "enum" /\ EnumNext /\ UNCHANGED <<part, xferVars, hidVars, kbdVars, psVars>>
XferTurn == part = "xfer" /\ XferNext /\ UNCHANGED <<part, enumVars, hidVars, kbdVars, psVars>>
HidTurn == part = "hid" /\ HidNext /\ UNCHANGED <<part, enumVars, xferVars, psVars>>
PsTurn == part = "ps2" /\ PsNext /\ UNCHANGED <<part, enumVars, xferVars, hidVars>>
Next == EnumTurn \/ XferTurn \/ HidTurn \/ PsTurn

\* A thread that does not wait goes on: threads take turns, and every transfer,
\* reset and delay of the enumeration has a time limit.
Spec == Init /\ [][Next]_<<part, allVars>> /\ WF_enumVars(EnumTurn)

\* The enumeration ends: no thread waits for ever for resetlock, for the threads
\* of a hub or for an EHCI controller. Not so when the struct of a port cannot
\* be allocated: usb_enumerate then waits for a thread that was never started.
EnumerationEnds == <>(part # "enum" \/ Settled \/ lost)
=============================================================================
