------------------------------- MODULE Clock -------------------------------
(***************************************************************************)
(* The clocks of the firmware (clock.c, hw/timer.c, hw/rtc.c): the count of *)
(* timer interrupts since midnight and the deadlines counted in them, the   *)
(* real time clock with its periodic and alarm interrupts and the waits     *)
(* that share them, and the fine timer that a short hardware counter is     *)
(* extended to.                                                             *)
(*                                                                          *)
(* A call that finds an update of the real time clock in progress yields    *)
(* until it is over or has taken too long; interrupts, and calls that their *)
(* handlers make, come in meanwhile.                                        *)
(***************************************************************************)
EXTENDS Integers, FiniteSets

CONSTANTS
    Times,      \* times of day the machine is switched on at
    DayTime,    \* the length of a day in the same unit
    Hz,         \* PMTIMER_HZ, PIT_TICK_INTERVAL, 1000 * PMTIMER_TO_PIT
    Interval,
    Ratio,
    Word,       \* 2^32
    Day,        \* TICKS_PER_DAY
    Byte,       \* 2^8
    Usec,       \* USEC_PER_RTC
    Waits,      \* times external code asks to wait for
    TimerPort,  \* "tsc" or "pm"
    Valid,      \* the size of the hardware counter
    Delays      \* delays asked for, and times that pass between two looks

ASSUME ClockSizes ==
    /\ {Hz, Interval, Ratio, Word, Day, Byte, Usec, Valid} \subseteq Nat \ {0}
    /\ Word % Valid = 0 /\ Day % 2 = 0
ASSUME ClockInputs == (Times \union Waits \union Delays) \subseteq Nat

VARIABLES
    start, on,                      \* the time the machine is switched on at
    timer_counter, timer_rollover,  \* in the BIOS data area
    days, midnightsTold,                     \* midnights passed, and reported
    armed,                          \* a deadline in ticks and the ticks to go
    statusB, RTCusers,
    wait,                           \* the wait of INT 15h in the data area
    flags,                          \* completion flags that are set
    preempt,
    stale,                          \* a write of status B lost a change of PIE
    busy,                           \* the call that waits, with what it read
    irq8,                           \* the rest of handle_70 while the alarm handler runs
    real, TimerLast, delay          \* the hardware's time, the last value read, a deadline

tickVars == <<start, on, timer_counter, timer_rollover, days, midnightsTold, armed>>
rtcVars == <<statusB, RTCusers, wait, flags, preempt, stale, busy, irq8>>
fineVars == <<real, TimerLast, delay>>
clkVars == <<tickVars, rtcVars, fineVars>>

DivUp(n, d) == (n + d - 1) \div d
NoTimer == [end |-> -1, due |-> 0]
NoWait == [pending |-> FALSE, left |-> 0, who |-> "none", asked |-> 0, seen |-> 0]
Idle == [call |-> "none", val |-> {}]

---------------------------------------------------------------------------
(* Ticks since midnight.                                                    *)

\* The product has 64 bits, but the quotient is kept in t, which has 32.
ticks_from_ms(ms) == DivUp(DivUp(ms * Hz, Interval) % Word, Ratio)
\* Broken variant: the count is set after midnight's too.
clock_updateLate == timer_counter + 1 > Day
clock_update == timer_counter + 1 >= Day
irqtimer_calc_ticks(count) == (timer_counter + count + 1) % Day
irqtimer_calc(ms) == IF ms = 0 THEN timer_counter ELSE irqtimer_calc_ticks(ticks_from_ms(ms))
irqtimer_check(end) == ((timer_counter + Day - end) % Day) < (Day \div 2)

clock_setup ==
    /\ ~on /\ on' = TRUE
    /\ timer_counter' = ticks_from_ms(start) % Day
    /\ UNCHANGED <<start, timer_rollover, days, midnightsTold, armed, rtcVars, fineVars>>
\* A deadline is looked at for half a day after it has passed.
handle_08 ==
    /\ on
    /\ IF clock_update
       THEN /\ timer_counter' = 0 /\ timer_rollover' = (timer_rollover + 1) % Byte
       ELSE timer_counter' = timer_counter + 1 /\ UNCHANGED timer_rollover
    /\ days' = IF timer_counter + 1 = Day THEN (days + 1) % Byte ELSE days
    /\ armed' = IF armed.end = -1 \/ armed.due - 1 <= -(Day \div 2) THEN NoTimer ELSE [armed EXCEPT !.due = @ - 1]
    /\ UNCHANGED <<start, on, midnightsTold, rtcVars, fineVars>>
handle_1a00 ==
    /\ on /\ midnightsTold' = (midnightsTold + timer_rollover) % Byte /\ timer_rollover' = 0
    /\ UNCHANGED <<start, on, timer_counter, days, armed, rtcVars, fineVars>>
\* Whoever sets the clock says that its midnights are known.
handle_1a01(ticks) ==
    /\ on /\ timer_counter' = ticks /\ timer_rollover' = 0 /\ midnightsTold' = days /\ armed' = NoTimer
    /\ UNCHANGED <<start, on, days, rtcVars, fineVars>>
ArmTimer(ms) ==
    /\ on /\ armed = NoTimer /\ ticks_from_ms(ms) + 1 < Day \div 2
    /\ armed' = [end |-> irqtimer_calc(ms), due |-> IF ms = 0 THEN 0 ELSE ticks_from_ms(ms) + 1]
    /\ UNCHANGED <<start, on, timer_counter, timer_rollover, days, midnightsTold, rtcVars, fineVars>>
TickNext ==
    \/ clock_setup \/ handle_08 \/ handle_1a00
    \/ \E ticks \in {0, Day - 2} : handle_1a01(ticks)
    \/ \E ms \in Delays : ArmTimer(ms)

---------------------------------------------------------------------------
(* The real time clock.                                                     *)

PieMoves(b) == ("PIE" \in b) # ("PIE" \in statusB)
WriteB(b) == statusB' = b /\ stale' = (stale \/ PieMoves(b))
rtc_setup(b) == (b \intersect {"DSE"}) \union {"24HR"}
\* The first user turns the periodic interrupt on, the last one turns it off.
rtc_use ==
    /\ RTCusers' = RTCusers + 1
    /\ IF RTCusers = 0 THEN statusB' = statusB \union {"PIE"} /\ stale' = FALSE ELSE UNCHANGED <<statusB, stale>>
rtc_release ==
    /\ RTCusers' = RTCusers - 1
    /\ IF RTCusers = 1 THEN statusB' = statusB \ {"PIE"} /\ stale' = FALSE ELSE UNCHANGED <<statusB, stale>>

set_usertimer(usecs, who) ==
    /\ wait' = [pending |-> TRUE, left |-> usecs, who |-> who, asked |-> usecs, seen |-> 0]
    /\ flags' = flags \ {who} /\ rtc_use
clear_usertimer ==
    IF wait.pending THEN wait' = NoWait /\ rtc_release
    ELSE UNCHANGED <<wait, statusB, RTCusers, stale>>

\* INT 15h/86 waits, letting interrupts in, until its own flag is set.
handle_1586(usecs) ==
    /\ busy = Idle /\ ~wait.pending
    /\ set_usertimer(usecs, "self") /\ busy' = [Idle EXCEPT !.call = "86"]
    /\ UNCHANGED <<preempt, irq8>>
handle_1586_return ==
    /\ busy.call = "86" /\ "self" \in flags
    /\ busy' = Idle /\ UNCHANGED <<statusB, RTCusers, wait, flags, preempt, stale, irq8>>
handle_158300(usecs) ==
    /\ ~wait.pending /\ set_usertimer(usecs, "user") /\ UNCHANGED <<preempt, busy, irq8>>
handle_158301 == clear_usertimer /\ UNCHANGED <<flags, preempt, busy, irq8>>

\* The periodic part of handle_70.
Periodic ==
    IF ~wait.pending THEN UNCHANGED <<wait, flags, statusB, RTCusers, stale>>
    ELSE IF wait.left < Usec THEN flags' = flags \union {wait.who} /\ clear_usertimer
    ELSE /\ wait' = [wait EXCEPT !.left = @ - Usec, !.seen = @ + 1]
         /\ UNCHANGED <<flags, statusB, RTCusers, stale>>
\* An interrupt comes for an enabled event; status C tells of others as well.
\* The alarm goes to the user's INT 4Ah first, whose calls come in between.
handle_70(statusC) ==
    /\ irq8 = {} /\ statusC \intersect statusB # {}
    /\ IF "AIE" \in statusC THEN irq8' = statusC /\ UNCHANGED <<wait, flags, statusB, RTCusers, stale>>
       ELSE Periodic /\ UNCHANGED irq8
    /\ UNCHANGED <<preempt, busy>>
handle_70_rest ==
    /\ irq8 # {} /\ irq8' = {}
    /\ IF "PIE" \in irq8 THEN Periodic ELSE UNCHANGED <<wait, flags, statusB, RTCusers, stale>>
    /\ UNCHANGED <<preempt, busy>>

start_preempt ==
    /\ ~preempt /\ preempt' = TRUE /\ rtc_use /\ UNCHANGED <<wait, flags, busy, irq8>>
finish_preempt_rtc ==
    /\ preempt /\ preempt' = FALSE /\ rtc_release /\ UNCHANGED <<wait, flags, busy, irq8>>

\* What the calls of INT 1Ah write to status B once rtc_updating has returned,
\* `late' when it gave up, `read' being what they had read of it before.
handle_1a03(late, dl) ==
    LET b == IF late THEN rtc_setup(statusB) ELSE statusB IN
    (b \intersect {"PIE", "AIE"}) \union {"24HR"} \union dl
handle_1a05(late) == IF late THEN rtc_setup(statusB) ELSE statusB \ {"SET"}
handle_1a06(read) == (read \ {"SET"}) \union {"AIE"}
handle_1a07 == statusB \ {"SET", "AIE"}
Result(call, read, late, dl) ==
    CASE call = "03" -> handle_1a03(late, dl)
      [] call = "05" -> handle_1a05(late)
      [] call = "06" -> handle_1a06(read)
      [] OTHER -> statusB
Updating(call) ==
    /\ busy = Idle /\ (call = "06" => "AIE" \notin statusB)
    /\ busy' = [call |-> call, val |-> statusB]
    /\ UNCHANGED <<statusB, RTCusers, wait, flags, preempt, stale, irq8>>
rtc_updating ==
    /\ busy.call \in {"02", "03", "04", "05", "06"}
    /\ \E late \in BOOLEAN, dl \in {{}, {"DSE"}} : WriteB(Result(busy.call, busy.val, late, dl))
    /\ busy' = Idle /\ UNCHANGED <<RTCusers, wait, flags, preempt, irq8>>
AtOnce ==
    /\ busy = Idle
    /\ \/ \E call \in {"03", "05"}, dl \in {{}, {"DSE"}} : WriteB(Result(call, statusB, FALSE, dl))
       \/ "AIE" \notin statusB /\ WriteB(handle_1a06(statusB))
       \/ WriteB(handle_1a07)
    /\ UNCHANGED <<RTCusers, wait, flags, preempt, busy, irq8>>

RtcNext ==
    /\ \/ \E usecs \in Waits : handle_1586(usecs) \/ handle_158300(usecs)
       \/ handle_1586_return \/ handle_158301
       \/ \E statusC \in {{"PIE"}, {"AIE"}, {"PIE", "AIE"}} : handle_70(statusC)
       \/ handle_70_rest \/ start_preempt \/ finish_preempt_rtc \/ rtc_updating \/ AtOnce
       \/ \E call \in {"02", "03", "04", "05", "06"} : Updating(call)
    /\ UNCHANGED <<tickVars, fineVars>>

---------------------------------------------------------------------------
(* The fine timer.                                                          *)

timer_adjust_bits(value) ==
    LET v == ((TimerLast \div Valid) * Valid) + value IN IF v < TimerLast THEN (v + Valid) % Word ELSE v
timer_read(now) == IF TimerPort = "tsc" THEN now ELSE timer_adjust_bits(now % Valid)
timer_calc(units) == (TimerLast + units) % Word
\* The difference is read as a signed number.
timer_check(end) == LET d == ((TimerLast - end) + Word) % Word IN d > 0 /\ d < Word \div 2
\* Time passes, less than the counter's period, and the timer is read.
ReadTimer(d) ==
    /\ real' = (real + d) % Word
    /\ TimerLast' = timer_read(real')
    /\ delay' = IF delay.end = -1 \/ delay.due - d <= -(Word \div 2) THEN NoTimer ELSE [delay EXCEPT !.due = @ - d]
StartDelay(units) ==
    /\ delay = NoTimer /\ units < Word \div 2
    /\ delay' = [end |-> timer_calc(units), due |-> units] /\ UNCHANGED <<real, TimerLast>>
FineNext ==
    /\ \/ \E d \in 0..(Valid - 1) : ReadTimer(d)
       \/ \E units \in Delays : StartDelay(units)
    /\ UNCHANGED <<tickVars, rtcVars>>

ClkInit ==
    /\ start \in Times /\ on = FALSE
    /\ timer_counter = 0 /\ timer_rollover = 0 /\ days = 0 /\ midnightsTold = 0 /\ armed = NoTimer
    /\ statusB = {"24HR"} /\ RTCusers = 0 /\ wait = NoWait /\ flags = {} /\ preempt = FALSE /\ stale = FALSE
    /\ busy = Idle /\ irq8 = {}
    /\ real = 0 /\ TimerLast = 0 /\ delay = NoTimer
ClkNext == TickNext \/ RtcNext \/ FineNext
ClkSpec == ClkInit /\ [][ClkNext]_clkVars
StartSpec == ClkInit /\ [][clock_setup]_clkVars

---------------------------------------------------------------------------
(* Properties.                                                              *)

\* No midnight is lost or counted twice, whoever asks for the time or sets it
\* (clock_update, handle_1a00); a deadline in ticks has passed exactly when its
\* ticks have, over midnight too (irqtimer_calc, irqtimer_check).  The periodic
\* interrupt is on while somebody waits for it and off when nobody does, unless a
\* call of INT 1Ah wrote a status it had read before it yielded or reset the
\* clock (rtc_use, rtc_release), and a wait ends by as many interrupts as it
\* asked for (handle_70).  The fine timer is the hardware's time in spite of its
\* short counter, and its deadlines hold over the wrap (timer_adjust_bits,
\* timer_check).
TimeKept ==
    /\ (midnightsTold + timer_rollover) % Byte = days
    /\ armed # NoTimer => (irqtimer_check(armed.end) = (armed.due <= 0))
    /\ RTCusers = (IF wait.pending THEN 1 ELSE 0) + (IF preempt THEN 1 ELSE 0)
    /\ ~stale => (("PIE" \in statusB) = (RTCusers > 0))
    /\ wait.pending => wait.left + (Usec * wait.seen) = wait.asked
    /\ TimerLast = real
    /\ delay # NoTimer => (timer_check(delay.end) = (delay.due < 0))

\* ticks_from_ms returns the number of timer interrupts in a time, so the count
\* clock_setup starts from is the one of the time of day. (Late in the day the quotient of
\* hw/timer.c:245 does not fit into t.)
ClockRight == on => timer_counter = DivUp(start * Day, DayTime) % Day
=============================================================================
