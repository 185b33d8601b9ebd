------------------------------ MODULE Keyboard ------------------------------
(***************************************************************************)
(* kbd.c: scan codes become flags and key codes in a ring buffer of the    *)
(* BIOS data area, which INT 16h reads. A scan code is "e0", "e1", or a    *)
(* key with its release bit. The second part is a USB keyboard that sends  *)
(* them.                                                                   *)
(***************************************************************************)
EXTENDS Integers, Sequences, FiniteSets

CONSTANTS
    BufSlots    \* slots of kbd_buf, one of which stays empty

VARIABLES
    kb,         \* kbd_buf with head and tail, kbd_flag0 and kbd_flag1, kbd_led
    typed       \* history: the key codes that were accepted and not yet read

kbdVars == <<kb, typed>>

\* The keys of the model, by what __process_key tells apart: a letter, a digit
\* (no code with control), keys of the keypad, and the special ones.
Modifiers == {"lshift", "rshift", "lctrl", "rctrl", "lalt", "ralt"}
Keypad == {"kp7", "del"}
Typing == {"a", "one", "enter", "star", "kp7", "del"}
Scan(k, rel) == [key |-> k, rel |-> rel]
Prefix(e) == Scan(e, FALSE)

\* What a keyboard sends for a key: some have a prefix, and rctrl and ralt share
\* the code of their left counterparts.
Prefixed == {"rctrl", "ralt", "home", "kpenter", "prtscr", "break"}
Base(k) == CASE k = "rctrl" -> "lctrl" [] k = "ralt" -> "lalt" [] k = "home" -> "kp7"
             [] k = "kpenter" -> "enter" [] k = "prtscr" -> "star" [] k = "break" -> "scroll" [] OTHER -> k
Codes(k, rel) ==
    IF k = "pause" THEN <<Prefix("e1"), Scan("lctrl", rel), Scan("numlock", rel)>>
    ELSE IF k \in Prefixed THEN <<Prefix("e0"), Scan(Base(k), rel)>> ELSE <<Scan(k, rel)>>

\* kbd_init
KbdInit ==
    /\ kb = [buf |-> [i \in 0 .. BufSlots - 1 |-> <<>>], head |-> 0, tail |-> 0,
             f0 |-> {}, f1 |-> {"101KBD"}, led |-> {}]
    /\ typed = <<>>

\* Broken variant: the buffer is filled to the last slot.
EnqueueFull(b, code) ==
    LET next == IF b.tail + 1 >= BufSlots THEN 0 ELSE b.tail + 1
    IN  [b EXCEPT !.buf[b.tail] = code, !.tail = next]
\* enqueue_key: nothing happens to a key for which there is no room.
Enqueue(b, code) ==
    LET next == IF b.tail + 1 >= BufSlots THEN 0 ELSE b.tail + 1
    IN  IF next = b.head THEN b
        ELSE [b EXCEPT !.buf[b.tail] = code, !.tail = next]

\* kbd_set_flag
SetFlag(b, rel, bit0, bit1, toggle) ==
    IF rel THEN [b EXCEPT !.f0 = @ \ bit0, !.f1 = @ \ bit1]
    ELSE [b EXCEPT !.f0 = ((@ \ toggle) \union (toggle \ @)) \union bit0, !.f1 = @ \union bit1]

\* kbd_ctrl_break: on release, the buffer holds a single zero.
CtrlBreak(b, rel) ==
    IF rel THEN [b EXCEPT !.head = 0, !.tail = 1, !.buf = [i \in DOMAIN @ |-> IF i = 0 THEN <<"break">> ELSE <<>>]] ELSE b

\* The column of scan_to_keycode: alt before control before shift, which num lock
\* and caps lock turn around for some keys.
Column(b, k) ==
    LET shift == b.f0 \intersect {"LSHIFT", "RSHIFT"} # {}
        turned == (k \in Keypad /\ "NUMACTIVE" \in b.f0) \/ (k = "a" /\ "CAPSACTIVE" \in b.f0)
    IN  IF "ALTACTIVE" \in b.f0 THEN "alt" ELSE IF "CTRLACTIVE" \in b.f0 THEN "control"
        ELSE IF shift # turned THEN "shift" ELSE "normal"

\* scan_to_keycode, key_ext_enter and key_ext_slash: what has no code.
HasCode(k, column) == ~(k = "one" /\ column = "control") /\ ~(k \in Keypad /\ column = "alt")
Keycode(b, k, e0) ==
    LET column == Column(b, k)
    IN  IF e0 /\ k \in Keypad THEN <<k, "ext", column>>
        ELSE IF e0 /\ k = "enter" THEN <<k, "ext", column>>
        ELSE IF HasCode(k, column) THEN <<k, column>> ELSE <<>>

\* __process_key for a code that is not a prefix, with the prefix flags of
\* before. The interrupts that some keys call (05h, 15h/85h, 1Bh) and the reset of
\* control-alt-delete are not modelled.
Key(b, k, rel, e0, e1) ==
    LET flag(bit0, bit1, toggle) == SetFlag(b, rel, bit0, bit1, toggle)
        code == Keycode(b, k, e0)
        resets == k = "del" /\ ~rel /\ {"CTRLACTIVE", "ALTACTIVE"} \subseteq b.f0
    IN  CASE k = "caps" -> flag({"CAPS"}, {}, {"CAPSACTIVE"})
          [] k = "lshift" -> IF e0 THEN b ELSE flag({"LSHIFT"}, {}, {})
          [] k = "rshift" -> IF e0 THEN b ELSE flag({"RSHIFT"}, {}, {})
          [] k = "lctrl" -> IF e0 THEN flag({"CTRLACTIVE"}, {"RCTRL"}, {})
                            ELSE flag({"CTRLACTIVE", "LCTRL"}, {}, {})
          [] k = "lalt" -> IF e0 THEN flag({"ALTACTIVE"}, {"RALT"}, {}) ELSE flag({"ALTACTIVE", "LALT"}, {}, {})
          [] k = "numlock" -> IF e1 THEN b ELSE flag({"NUM"}, {}, {"NUMACTIVE"})
          [] k = "scroll" -> IF e0 THEN CtrlBreak(b, rel) ELSE flag({"SCROLL"}, {}, {"SCROLLACTIVE"})
          [] (k = "star" /\ e0) \/ k = "sysreq" \/ resets -> b
          [] OTHER -> IF rel \/ code = <<>> THEN b ELSE Enqueue(b, code)

\* __process_key: prefixes are kept in kbd_flag1 until the code they belong to;
\* e1 stays for the second byte of the pause key.
ProcessKey(b, c) ==
    LET e0 == "E0" \in b.f1 e1 == "E1" \in b.f1
    IN  CASE c.key = "e0" -> [b EXCEPT !.f1 = @ \union {"E0"}]
          [] c.key = "e1" -> [b EXCEPT !.f1 = @ \union {"E1"}]
          [] OTHER    -> IF e1 /\ c.key = "lctrl" THEN b
                         ELSE Key([b EXCEPT !.f1 = @ \ {"E0", "E1"}], c.key, c.rel, e0, e1)

\* The key codes that are in the buffer.
Content(b) == [i \in 1 .. (b.tail - b.head) % BufSlots |-> b.buf[(b.head + i - 1) % BufSlots]]

\* What the buffer should hold afterwards: the promise of a queue that drops
\* what finds no room.
Accepted(q, b, c) ==
    LET e0 == "E0" \in b.f1
        plain == [b EXCEPT !.f1 = @ \ {"E0", "E1"}]
        code == Keycode(plain, c.key, e0)
        types == /\ ~c.rel /\ code # <<>>
                 /\ c.key \in Typing
                 /\ ~(c.key = "star" /\ e0)
                 /\ ~(c.key = "del" /\ {"CTRLACTIVE", "ALTACTIVE"} \subseteq b.f0)
    IN  IF c.key \in {"e0", "e1"} THEN q
        ELSE IF c.key = "scroll" /\ e0 THEN IF c.rel THEN <<<<"break">>>> ELSE q
        ELSE IF types /\ Len(q) < BufSlots - 1 THEN Append(q, code) ELSE q

\* process_key for one code after the other, with the keyboard intercept (INT
\* 15h/4Fh) passing them on.
KeyDone(q, c) == [kb |-> ProcessKey(q.kb, c), typed |-> Accepted(q.typed, q.kb, c)]
Process(cs) ==
    LET after[i \in 0 .. Len(cs)] ==
            IF i = 0 THEN [kb |-> kb, typed |-> typed] ELSE KeyDone(after[i - 1], cs[i])
        end == after[Len(cs)]
    IN  kb' = end.kb /\ typed' = end.typed

\* dequeue_key: INT 16h/00h and 10h take the key, 01h and 11h only look.
\* (The model forgets what no key code is in any more.)
Dequeue(incr) ==
    /\ kb.head # kb.tail
    /\ IF incr
       THEN /\ kb' = [kb EXCEPT !.buf[kb.head] = <<>>, !.head = IF @ + 1 >= BufSlots THEN 0 ELSE @ + 1]
            /\ typed' = Tail(typed)
       ELSE UNCHANGED kbdVars

\* What the caller gets: without `extended` the codes of extended keys are those
\* of their counterparts.
Delivered(code, extended) ==
    IF ~extended /\ Len(code) = 3 THEN <<code[1], code[3]>> ELSE code

\* handle_1605: a program puts a key code into the buffer.
Store(code) ==
    /\ kb' = Enqueue(kb, code)
    /\ typed' = IF Len(typed) < BufSlots - 1 THEN Append(typed, code) ELSE typed

\* set_leds: the lights follow the lock flags when the command succeeds.
LedsDue == {x \in {"SCROLLACTIVE", "NUMACTIVE", "CAPSACTIVE"} : x \in kb.f0}
SetLeds == kb' = [kb EXCEPT !.led = LedsDue] /\ UNCHANGED typed

-----------------------------------------------------------------------------
(* usb-hid.c and the interrupt transfers of the host controllers: the      *)
(* reports of a keyboard come through a ring of descriptors that the timer *)
(* interrupt polls, and become scan codes.                                 *)

CONSTANTS
    HidKinds,       \* the controllers of the instance
    IntrTds,        \* descriptors of an interrupt pipe
    NKeys,          \* keys of a report (6 in struct keyevent)
    Reports,        \* the reports of the instance: [mods |-> set, keys |-> sequence]
    RepeatWait      \* KEYREPEATWAITMS / KEYREPEATMS + 1

VARIABLES
    ik,         \* the type of the controller
    intr,       \* the ring of the interrupt pipe: td, the descriptors; hw, the one
                \* the controller fills next; sw, next_td (OHCI: the tail)
    LastUSBkey,       \* the last report
    down,       \* history: the codes, with their prefix, whose last was a press
    changed,    \* history: the keys with two codes that were held while the
                \* modifier changed that tells which of them they send
    due         \* history: the reports that have come and were not yet polled

hidVars == <<ik, intr, LastUSBkey, down, changed, due>>

RepeatOff == 255
NoReport == [mods |-> {}, keys |-> <<>>]

\* uhci_alloc_intr_pipe, ehci_alloc_intr_pipe: all descriptors are the
\* controller's. ohci_alloc_intr_pipe: one stays behind as the tail.
\* xhci_poll_intr queues its one buffer when it is first called.
NewIntr(kind) ==
    [td |-> [i \in 0 .. IntrTds - 1 |-> [active |-> kind \in {"uhci", "ehci"}, rep |-> NoReport]],
     hw |-> 0, sw |-> IF kind = "ohci" THEN IntrTds - 1 ELSE 0]

HidInit ==
    /\ ik \in HidKinds
    /\ intr = NewIntr(ik)
    /\ LastUSBkey = [mods |-> {}, keys |-> <<>>, repeat |-> 0]
    /\ down = {} /\ changed = {} /\ due = <<>>

NextTd(i) == (i + 1) % IntrTds

\* Whether the controller has a descriptor to fill.
Fillable ==
    CASE ik = "ohci" -> intr.hw # intr.sw
      [] ik = "xhci" -> intr.td[0].active
      [] OTHER       -> intr.td[intr.hw].active

\* The controller polls the keyboard, which has something to say: a change, or
\* the time of set_idle is over.
Report(r) ==
    /\ Fillable
    /\ due' = Append(due, r)
    /\ intr' = [intr EXCEPT !.td[intr.hw] = [active |-> FALSE, rep |-> r],
                            !.hw = IF ik = "xhci" THEN 0 ELSE NextTd(@)]
    /\ UNCHANGED <<ik, LastUSBkey, down, changed, kb, typed>>

\* uhci_poll_intr and ehci_poll_intr: the next descriptor, if it is done, which
\* the controller gets back (the model forgets the report that was in it).
CyclePolled == ~intr.td[intr.sw].active
CycleReport == intr.td[intr.sw].rep
CycleNext == [intr EXCEPT !.td[intr.sw] = [active |-> TRUE, rep |-> NoReport], !.sw = NextTd(@)]

\* ohci_poll_intr: the one behind the tail, which becomes the tail.
OhciPolled == intr.hw # NextTd(intr.sw)
OhciReport == intr.td[NextTd(intr.sw)].rep
OhciNext == [intr EXCEPT !.td[NextTd(intr.sw)].rep = NoReport, !.sw = NextTd(@)]

\* xhci_poll_intr: bufused, and whether the ring is busy.
XhciPolled == ~intr.td[0].active /\ intr.sw = 1
XhciReport == intr.td[0].rep
XhciNext == [intr EXCEPT !.td[0] = [active |-> TRUE, rep |-> NoReport]]
XhciFirst ==
    /\ ik = "xhci" /\ intr.sw = 0
    /\ intr' = [intr EXCEPT !.td[0].active = TRUE, !.sw = 1]
    /\ UNCHANGED <<ik, LastUSBkey, down, changed, due, kb, typed>>

-----------------------------------------------------------------------------
\* prockeys: the codes of a key. Pause with control is break, and print screen
\* with alt is the system request key; a code that reports an error has none.
ProcKeys(k, rel, mods) ==
    IF k = "pause" /\ mods \intersect {"lctrl", "rctrl"} # {} THEN Codes("break", rel)
    ELSE IF k = "prtscr" /\ mods \intersect {"lalt", "ralt"} # {} THEN <<Scan("sysreq", rel)>>
    ELSE IF k = "rollover" THEN <<>> ELSE Codes(k, rel)

\* One code after the other, for the keys of a sequence.
CodesOf(ks, rel, mods) ==
    LET all[i \in 0 .. Len(ks)] == IF i = 0 THEN <<>> ELSE all[i - 1] \o ProcKeys(ks[i], rel, mods)
    IN  all[Len(ks)]

\* procmodkey: modifiers in the order of their bits.
ModOrder == <<"lctrl", "lshift", "lalt", "rctrl", "rshift", "ralt">>
ModCodes(mods, rel) == CodesOf(SelectSeq(ModOrder, LAMBDA m : m \in mods), rel, {})

KeySet(ks) == {ks[i] : i \in DOMAIN ks}

\* What a listener that knows the codes takes to be down after them: e0 belongs to
\* one code, e1 to two.
Listen(held, cs) ==
    LET after[i \in 0 .. Len(cs)] ==
            IF i = 0 THEN [held |-> held, pre |-> "none"]
            ELSE LET was == after[i - 1] c == cs[i] mark == <<was.pre, c.key>>
                 IN  IF c.key \in {"e0", "e1"} THEN [was EXCEPT !.pre = c.key]
                     ELSE [held |-> IF c.rel THEN was.held \ {mark} ELSE was.held \union {mark},
                           pre  |-> IF was.pre = "e1" /\ c.key = "lctrl" THEN "e1" ELSE "none"]
    IN  after[Len(cs)].held
Form(k, mods) == Listen({}, ProcKeys(k, FALSE, mods))
Forms(k) == {Form(k, mods) : mods \in {{}, {"lctrl", "lalt"}}}

\* The keys of LastUSBkey afterwards.
KeysAfter(kept, new) == kept \o new

\* handle_key: releases of keys, then of modifiers, then presses of modifiers,
\* then of keys, then the repetition of the last key that is still down. All with
\* the modifiers of the new report, the codes of keys that went down under others
\* too.
HandleKey(r) ==
    LET kept == SelectSeq(LastUSBkey.keys, LAMBDA k : k \in KeySet(r.keys))
        gone == SelectSeq(LastUSBkey.keys, LAMBDA k : k \notin KeySet(r.keys))
        new  == SelectSeq(r.keys, LAMBDA k : k \notin KeySet(LastUSBkey.keys))
        keys == KeysAfter(kept, new)
        ended == LastUSBkey.keys # <<>> /\ LastUSBkey.keys[Len(LastUSBkey.keys)] \notin KeySet(r.keys)
        count == IF new # <<>> THEN RepeatWait ELSE IF ended THEN RepeatOff ELSE LastUSBkey.repeat
        again == IF keys # <<>> /\ count = 0 THEN <<keys[Len(keys)]>> ELSE <<>>
        codes == CodesOf(gone, TRUE, r.mods) \o ModCodes(LastUSBkey.mods \ r.mods, TRUE)
                 \o ModCodes(r.mods \ LastUSBkey.mods, FALSE) \o CodesOf(new, FALSE, r.mods)
                 \o CodesOf(again, FALSE, r.mods)
    IN  /\ Process(codes)
        /\ LastUSBkey' = [mods |-> r.mods, keys |-> keys,
                    repeat |-> IF keys # <<>> /\ count \notin {0, RepeatOff} THEN count - 1 ELSE count]
        /\ down' = Listen(down, codes)
        /\ changed' = changed \union {k \in KeySet(LastUSBkey.keys) : Form(k, r.mods) # Form(k, LastUSBkey.mods)}

\* usb_check_key, one report of the loop.
CheckKey ==
    /\ \/ /\ ik \in {"uhci", "ehci"} /\ CyclePolled
          /\ HandleKey(CycleReport) /\ intr' = CycleNext
       \/ /\ ik = "ohci" /\ OhciPolled
          /\ HandleKey(OhciReport) /\ intr' = OhciNext
       \/ /\ ik = "xhci" /\ XhciPolled
          /\ HandleKey(XhciReport) /\ intr' = XhciNext
    /\ due' = Tail(due)
    /\ UNCHANGED ik

\* The guest reads keys.
HidNext ==
    \/ \E r \in Reports : Report(r)
    \/ XhciFirst \/ CheckKey
    \/ Dequeue(TRUE) /\ UNCHANGED hidVars
    \/ Store(<<"a", "normal">>) /\ UNCHANGED hidVars

-----------------------------------------------------------------------------
\* The reports that are in the ring.
Unpolled ==
    LET first == IF ik = "ohci" THEN NextTd(intr.sw) ELSE IF ik = "xhci" THEN 0 ELSE intr.sw
        n == IF ik = "ohci" THEN (intr.hw - first) % IntrTds
             ELSE IF ik = "xhci" THEN IF XhciPolled THEN 1 ELSE 0
             ELSE Cardinality({i \in 0 .. IntrTds - 1 : ~intr.td[i].active})
    IN  [i \in 1 .. n |-> intr.td[(first + i - 1) % IntrTds].rep]

\* The ring buffer is a queue.
BufferIsQueue == Content(kb) = typed

\* Both rings are queues. That of the interrupt pipe delivers the reports that
\* have come, each once and in their order, whichever descriptor driver and
\* controller have got to. INT 16h reads the key codes in the order of the keys,
\* none twice, and none is lost but those that found the buffer full and those
\* that control-break clears, however head and tail have gone round.
QueuesInOrder == Unpolled = due /\ BufferIsQueue

\* Who listens to the codes takes those keys to be down that the last report names:
\* each of them was pressed and not released, and no other, and the flags of the
\* modifiers say the same, whatever sequence of reports, repetitions, pause and
\* print screen keys came before. Only the flags that join left and right are
\* off when one of two is released. And a key that sends another code with control
\* (pause, break) or alt (print screen, sysreq) is told to be released by the code of
\* the modifiers of that moment: once one of them has changed while the key was
\* down (`changed`), all that is promised of its two codes is that one is down as
\* long as the key is.
FlagsHeld == (kb.f0 \union kb.f1) \intersect {"LSHIFT", "RSHIFT", "LCTRL", "LALT", "RCTRL", "RALT"}
FlagOf(m) == CASE m = "lshift" -> "LSHIFT" [] m = "rshift" -> "RSHIFT" [] m = "lctrl" -> "LCTRL"
               [] m = "rctrl" -> "RCTRL" [] m = "lalt" -> "LALT" [] OTHER -> "RALT"
Held == LastUSBkey.mods \union KeySet(LastUSBkey.keys)
Unsure == UNION {UNION Forms(k) : k \in changed}
KeysFollow ==
    /\ down \ Unsure = UNION {Form(k, LastUSBkey.mods) : k \in Held} \ Unsure
    /\ \A k \in Held : \E told \in Forms(k) : told \subseteq down
    /\ Len(LastUSBkey.keys) <= NKeys
    /\ FlagsHeld = {FlagOf(m) : m \in LastUSBkey.mods}
    /\ kb.f1 \intersect {"E0", "E1"} = {}
    /\ LastUSBkey.mods \intersect {"lctrl", "rctrl"} = {} => "CTRLACTIVE" \notin kb.f0
    /\ LastUSBkey.mods \intersect {"lalt", "ralt"} = {} => "ALTACTIVE" \notin kb.f0

\* From the reports of a USB keyboard to INT 16h: none is lost or swapped on the way
\* (QueuesInOrder), and what they say of the keys is what the guest sees (KeysFollow).
KeysArrive == QueuesInOrder /\ KeysFollow
=============================================================================
