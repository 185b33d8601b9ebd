-------------------------------- MODULE Ps2 --------------------------------
(***************************************************************************)
(* ps2port.c and mouse.c: keyboard and mouse behind the one output buffer  *)
(* of an i8042. Interrupt handlers take what the devices send, and the     *)
(* answers of a command must not be taken for keys or moves, or the other  *)
(* way round: a command turns the interrupts off while it runs. (A thread  *)
(* or the guest issues one command at a time.)                             *)
(***************************************************************************)
EXTENDS Keyboard

CONSTANTS
    PsKeys,     \* the keys that are typed
    MaxKeys,    \* bound of the model: keys typed
    MaxMoves,   \* bound of the model: mouse packages
    MaxCmds,    \* bound of the model: commands after the setup
    MaxPsFaults \* bound of the model: timeouts and refusals

VARIABLES
    port,       \* the i8042: its control register, its output buffer, the
                \* interrupts it has raised and nobody has served
    out,        \* what keyboard and mouse have yet to send
    ctr,        \* Ps2ctr
    todo,       \* the rest of ps2_keyboard_setup
    cmd,        \* the command under way, or the last
    mouse,      \* mouse_flag1 (the index), mouse_flag2 and mouse_data of the EBDA
    count       \* how many keys, moves and faults there have been

psVars == <<port, out, ctr, todo, cmd, mouse, count>>

Off == {"KBDDIS", "AUXDIS"}
Ints == {"KBDINT", "AUXINT"}
Empty == [from |-> "none", kind |-> "none", val |-> 0]
Byte(from, kind, val) == [from |-> from, kind |-> kind, val |-> val]

\* The commands: who they are for, parameter bytes sent and received.
Commands == [
    KRESET |-> [to |-> "kbd", send |-> 0, recv |-> 1], KRESETDIS |-> [to |-> "kbd", send |-> 0, recv |-> 0],
    KSCANSET |-> [to |-> "kbd", send |-> 1, recv |-> 0], KENABLE |-> [to |-> "kbd", send |-> 0, recv |-> 0],
    SETLEDS |-> [to |-> "kbd", send |-> 1, recv |-> 0], KGETID |-> [to |-> "kbd", send |-> 0, recv |-> 2],
    MENABLE |-> [to |-> "aux", send |-> 0, recv |-> 0], MDISABLE |-> [to |-> "aux", send |-> 0, recv |-> 0],
    MRESET |-> [to |-> "aux", send |-> 0, recv |-> 2], SETRATE |-> [to |-> "aux", send |-> 1, recv |-> 0],
    GETINFO |-> [to |-> "aux", send |-> 0, recv |-> 3]]
To == Commands[cmd.name].to

PsInit ==
    /\ port = [ctr |-> Off, obf |-> Empty, irq |-> {}]
    /\ out = [kbd |-> <<>>, aux |-> <<>>, scan |-> TRUE, stream |-> FALSE]
    /\ ctr = Off
    /\ todo = <<"KRESET", "KRESETDIS", "KSCANSET", "KENABLE">>
    /\ cmd = [pc |-> "off", name |-> "KRESET", n |-> 0, saved |-> Off, sent |-> 0, got |-> <<>>, ok |-> TRUE,
              wrote |-> TRUE, late |-> FALSE]
    /\ mouse = [index |-> 0, handler |-> FALSE, data |-> <<0, 0, 0>>]
    /\ count = [keys |-> 0, moves |-> 0, faults |-> 0]

PsFault == count.faults < MaxPsFaults /\ count' = [count EXCEPT !.faults = @ + 1]
SameKbd == UNCHANGED kbdVars

\* The register is written (I8042_CMD_CTL_WCTR): a byte that waits raises its
\* interrupt when that is turned on.
Written(c) ==
    [port EXCEPT !.ctr = c,
        !.irq = @ \union (IF port.obf.from = "kbd" /\ "KBDINT" \in c /\ "KBDINT" \notin port.ctr THEN {"kbd"} ELSE {})
                  \union (IF port.obf.from = "aux" /\ "AUXINT" \in c /\ "AUXINT" \notin port.ctr THEN {"aux"} ELSE {})]

-----------------------------------------------------------------------------
\* The devices. A byte of an enabled port enters the buffer once that is empty.
Dis(from) == IF from = "kbd" THEN "KBDDIS" ELSE "AUXDIS"
IntOf(from) == IF from = "kbd" THEN "KBDINT" ELSE "AUXINT"
Arrive(from) ==
    /\ out[from] # <<>> /\ port.obf = Empty /\ Dis(from) \notin port.ctr
    /\ out' = [out EXCEPT ![from] = Tail(@)]
    /\ port' = [port EXCEPT !.obf = Head(out[from]), !.irq = IF IntOf(from) \in port.ctr THEN @ \union {from} ELSE @]
    /\ UNCHANGED <<ctr, todo, cmd, mouse, count>> /\ SameKbd

Codes2(k, rel) == [i \in DOMAIN Codes(k, rel) |-> Byte("kbd", "code", Codes(k, rel)[i])]
Type(k) ==
    /\ out.scan /\ count.keys < MaxKeys
    /\ out' = [out EXCEPT !.kbd = @ \o Codes2(k, FALSE) \o Codes2(k, TRUE)]
    /\ count' = [count EXCEPT !.keys = @ + 1]
    /\ UNCHANGED <<port, ctr, todo, cmd, mouse>> /\ SameKbd
Move ==
    /\ out.stream /\ count.moves < MaxMoves
    /\ out' = [out EXCEPT !.aux = @ \o [i \in 1 .. 3 |-> Byte("aux", "move", i)]]
    /\ count' = [count EXCEPT !.moves = @ + 1]
    /\ UNCHANGED <<port, ctr, todo, cmd, mouse>> /\ SameKbd

\* A device answers a byte of a command, and the last one with what is asked for.
Answer ==
    LET last == cmd.sent = Commands[cmd.name].send
        params == IF last THEN [i \in 1 .. Commands[cmd.name].recv |-> Byte(To, "data", cmd.n)] ELSE <<>>
    IN  [out EXCEPT ![To] = @ \o <<Byte(To, "ack", cmd.n)>> \o params,
                    !.scan = CASE cmd.name = "KRESETDIS" -> FALSE [] cmd.name \in {"KENABLE", "KRESET"} -> TRUE [] OTHER -> @,
                    !.stream = CASE cmd.name = "MENABLE" -> TRUE [] cmd.name \in {"MDISABLE", "MRESET"} -> FALSE
                                 [] OTHER -> @]

-----------------------------------------------------------------------------
\* process_mouse: the handler is called with the last byte of a package.
ProcessMouse(v) ==
    mouse' = IF ~mouse.handler THEN mouse
             ELSE [mouse EXCEPT !.data[mouse.index + 1] = v, !.index = IF @ + 1 < 3 THEN @ + 1 ELSE 0]

\* What process_key makes of a byte: a late acknowledgement (fa), refusal (fe) or
\* id (ab 83) has the code of the release of a key that types nothing then, and
\* the result of the reset (aa), which is the first command, that of the release
\* of the left shift key.
Pressed(b) ==
    IF b.kind = "code" THEN b.val
    ELSE IF b.kind = "data" /\ b.val = 1 THEN Scan("lshift", TRUE) ELSE Scan("other", TRUE)

\* handle_09: the byte is taken, unless it is the mouse's, and goes to process_key,
\* whatever it is, if the interrupt is on as far as Ps2ctr says. The keyboard is
\* then turned on.
Handle09 ==
    /\ "kbd" \in port.irq
    /\ LET read == port.obf.from # "aux"
       IN  /\ IF read /\ "KBDINT" \in ctr THEN Process(<<Pressed(port.obf)>>) ELSE SameKbd
           /\ port' = [port EXCEPT !.irq = @ \ {"kbd"}, !.obf = IF read THEN Empty ELSE @,
                                   !.ctr = IF read /\ "KBDINT" \in ctr THEN @ \ {"KBDDIS"} ELSE @]
    /\ UNCHANGED <<out, ctr, todo, cmd, mouse, count>>

\* handle_74
Handle74 ==
    /\ "aux" \in port.irq
    /\ IF port.obf.from = "aux"
       THEN /\ port' = [port EXCEPT !.irq = @ \ {"aux"}, !.obf = Empty]
            /\ IF "AUXINT" \in ctr THEN ProcessMouse(port.obf.val) ELSE UNCHANGED mouse
       ELSE port' = [port EXCEPT !.irq = @ \ {"aux"}] /\ UNCHANGED mouse
    /\ UNCHANGED <<out, ctr, todo, cmd, count>> /\ SameKbd

-----------------------------------------------------------------------------
\* __ps2_command turns interrupts and ports off. ps2_mouse_command has changed
\* Ps2ctr before, if it is to turn the mouse on or off.
PsBegin(name, c) ==
    /\ cmd.pc = "off"
    /\ \/ /\ port' = Written((c \union Off) \ Ints)
          /\ cmd' = [cmd EXCEPT !.pc = "yield", !.name = name, !.n = @ + 1, !.saved = c, !.sent = 0, !.got = <<>>]
          /\ UNCHANGED count
       \/ /\ PsFault /\ UNCHANGED port
          /\ cmd' = [cmd EXCEPT !.name = name, !.n = @ + 1, !.got = <<>>, !.ok = FALSE, !.wrote = FALSE]
    /\ ctr' = c /\ SameKbd /\ UNCHANGED out

\* ps2_keyboard_setup, after the tests of the controller: it ends with the first
\* command that fails (a reset that fails may be tried again for a while). The
\* last command is issued with the mode of the keyboard in Ps2ctr.
Setup ==
    /\ todo # <<>>
    /\ PsBegin(Head(todo), IF Len(todo) = 1 THEN {"AUXDIS", "KBDINT"} ELSE ctr)
    /\ todo' = Tail(todo) /\ UNCHANGED mouse

\* mouse_15c20000, mouse_15c20001: what ps2_mouse_command makes of Ps2ctr.
MouseCtr(name) ==
    CASE name = "MENABLE"  -> (ctr \union {"AUXINT"}) \ {"AUXDIS"}
      [] name = "MDISABLE" -> (ctr \union {"AUXDIS"}) \ {"AUXINT"}
      [] OTHER             -> ctr

\* INT 16h/0Ah, set_leds, and the functions of INT 15h/C2h: 00h to 04h and 06h
\* are commands of the mouse, which 00h turns on only if there is a handler.
\* (The functions with one parameter byte, or none, are alike.)
Issue(name) ==
    /\ todo = <<>> /\ cmd.n < MaxCmds
    /\ name = "SETLEDS" => LedsDue # kb.led
    /\ name = "MENABLE" => mouse.handler
    /\ PsBegin(name, MouseCtr(name))
    /\ UNCHANGED <<todo, mouse>>

\* mouse_15c205: no package is begun, there is no handler, and a reset follows.
MouseInit ==
    /\ todo = <<>> /\ cmd.n < MaxCmds
    /\ mouse' = [mouse EXCEPT !.index = 0, !.handler = FALSE]
    /\ PsBegin("MRESET", ctr)
    /\ UNCHANGED todo

\* mouse_15c207 with an address. Without one, the mouse is turned off as well.
SetHandler ==
    /\ todo = <<>> /\ cmd.pc = "off" /\ ~mouse.handler
    /\ mouse' = [mouse EXCEPT !.handler = TRUE]
    /\ SameKbd /\ UNCHANGED <<port, out, ctr, todo, cmd, count>>

\* Broken variant: nothing is served.
FlushedNot == TRUE
\* yield(): "Flush any interrupts already pending."
Flushed == port.irq = {}

\* The port of the command is turned on.
Enable ==
    /\ cmd.pc = "yield" /\ Flushed
    /\ ctr' = (cmd.saved \union Off) \ Ints
    /\ \/ /\ port' = Written(((cmd.saved \union Off) \ Ints) \ {Dis(To)})
          /\ cmd' = [cmd EXCEPT !.pc = "send"] /\ UNCHANGED count
       \/ PsFault /\ UNCHANGED port /\ cmd' = [cmd EXCEPT !.pc = "restore", !.ok = FALSE]
    /\ SameKbd /\ UNCHANGED <<out, todo, mouse>>

\* ps2_sendbyte: the device answers, with a refusal, or not.
Send ==
    /\ cmd.pc = "send"
    /\ cmd' = [cmd EXCEPT !.pc = "ack"]
    /\ \/ out' = Answer /\ UNCHANGED count
       \/ out' = [out EXCEPT ![To] = Append(@, Byte(To, "nak", cmd.n))] /\ PsFault
       \/ UNCHANGED out /\ PsFault
    /\ SameKbd /\ UNCHANGED <<port, ctr, todo, mouse>>

\* ps2_recvbyte: a byte of the other port, or that is no answer, is no part of
\* the command and is discarded.
PartOf(b) == b.from = To /\ (cmd.pc = "ack" => b.kind \in {"ack", "nak"})

AckNext(b) ==
    IF b.kind = "nak" THEN [cmd EXCEPT !.pc = "restore", !.ok = FALSE]
    ELSE IF cmd.sent < Commands[cmd.name].send THEN [cmd EXCEPT !.pc = "send", !.sent = @ + 1, !.got = Append(@, b)]
    ELSE IF Commands[cmd.name].recv > 0 THEN [cmd EXCEPT !.pc = "recv", !.got = Append(@, b)]
    ELSE [cmd EXCEPT !.pc = "restore", !.got = Append(@, b), !.ok = TRUE]
DataNext(b) ==
    LET got == Append(cmd.got, b)
        all == Len(got) = 1 + Commands[cmd.name].send + Commands[cmd.name].recv
    IN  [cmd EXCEPT !.got = got, !.pc = IF all THEN "restore" ELSE "recv", !.ok = all]
Recv ==
    /\ cmd.pc \in {"ack", "recv"} /\ port.obf # Empty
    /\ port' = [port EXCEPT !.obf = Empty]
    /\ cmd' = IF ~PartOf(port.obf) THEN cmd
              ELSE IF cmd.pc = "ack" THEN AckNext(port.obf) ELSE DataNext(port.obf)
    /\ SameKbd /\ UNCHANGED <<out, ctr, todo, mouse, count>>

\* The time is over: nothing has come yet.
Expire ==
    /\ cmd.pc \in {"ack", "recv"} /\ port.obf = Empty
    /\ out[To] # <<>> => PsFault
    /\ out[To] = <<>> => UNCHANGED count
    /\ cmd' = [cmd EXCEPT !.pc = "restore", !.ok = FALSE, !.late = TRUE]
    /\ SameKbd /\ UNCHANGED <<port, out, ctr, todo, mouse>>

\* The end of __ps2_command: what was on before is on again.
Restored == ctr' = cmd.saved
Restore ==
    /\ cmd.pc = "restore" /\ Restored
    /\ \/ /\ port' = Written(cmd.saved)
          /\ cmd' = [cmd EXCEPT !.pc = "off", !.wrote = TRUE] /\ UNCHANGED count
          /\ IF cmd.name = "SETLEDS" /\ cmd.ok THEN SetLeds ELSE SameKbd
       \/ /\ PsFault /\ UNCHANGED port
          /\ cmd' = [cmd EXCEPT !.pc = "off", !.ok = FALSE, !.wrote = FALSE] /\ SameKbd
    /\ UNCHANGED <<out, mouse>>
    /\ todo' = IF cmd'.ok THEN todo ELSE <<>>

PsNext ==
    \/ \E from \in {"kbd", "aux"} : Arrive(from)
    \/ \E k \in PsKeys : Type(k)
    \/ Move \/ Handle09 \/ Handle74
    \/ Setup \/ (\E name \in {"SETLEDS", "KGETID", "MENABLE", "MDISABLE", "SETRATE", "GETINFO"} : Issue(name))
    \/ MouseInit \/ SetHandler \/ Enable \/ Send \/ Recv \/ Expire \/ Restore
    \/ Dequeue(TRUE) /\ UNCHANGED psVars

PsSpec == KbdInit /\ PsInit /\ [][PsNext]_<<psVars, kbdVars>>

-----------------------------------------------------------------------------
\* A command that succeeds has got its own acknowledgements and parameters, no
\* keys and no moves, although both devices share the buffer and send when they
\* like, unless an earlier command was given up and its answer comes late. An
\* interrupt finds the byte it was raised for: handle_09 does not look whether
\* there is one, so a command must not read the buffer before the interrupts of
\* earlier bytes have been served. And when no command is under way the
\* controller does what Ps2ctr says, unless it could not be written to.
AnswersOwn ==
    /\ cmd.pc = "off" /\ cmd.ok /\ ~cmd.late =>
        \A i \in DOMAIN cmd.got : cmd.got[i].from = To /\ cmd.got[i].kind \in {"ack", "data"} /\ cmd.got[i].val = cmd.n
    /\ \A i \in port.irq : port.obf.from = i
    /\ cmd.pc = "off" /\ cmd.wrote => port.ctr = ctr
=============================================================================
