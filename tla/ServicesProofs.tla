--------------------------- MODULE ServicesProofs ---------------------------
(***************************************************************************)
(* Proofs about resets and clocks. BiosIntact holds for every layout of    *)
(* option roms (RomEnds, Writable), whenever the machine is reset or       *)
(* switched off; TimeKept for every length of the day, every size of the   *)
(* counters, and every delay and wait.                                     *)
(***************************************************************************)
EXTENDS Reset, Clock, TLAPS

\* A guest can go on: its memory is there, and the BIOS is as boot_guest left it.
Resumable ==
    /\ alive /\ code = "patched" /\ hrp = 2
    /\ kind # "other" => pam = "ro" /\ RomsLocked

\* What a reset finds. A copy that was never used is the one of the flash; a reset
\* code next to a used one means that there is a guest to resume.
FoundRight ==
    /\ pam = "rom" => hrp = 0
    /\ kind = "other" => pam = "rw" /\ roms = Unlocked
    /\ hrp = 0 /\ ~(kind = "flash" /\ pam = "rom") => code = "pristine"
    /\ status # "none" /\ hrp # 0 => Resumable

\* Where POST is, by HaveRunPost, the copy and the reset code.
PostRight ==
    /\ where \in {"post", "preinit", "mark"} => hrp = 0
    /\ where \in {"preinit", "mark"} => pam # "rom"
    /\ where \in {"mark", "reloc", "main", "lock"} => status = "none"
    /\ where \in {"reloc", "main"} => hrp = 1
    /\ where = "reloc" => code = "pristine"
    /\ where = "lock" => hrp = 2
    /\ where \in {"main", "lock"} => code = "patched"
    /\ where \in {"preinit", "mark", "reloc", "main", "lock"} => roms = Unlocked
    /\ where = "guest" => Resumable

\* Where a resume or reboot is. HaveRunPost stays set until the copy is whole again.
ResumeRight ==
    /\ where \in {"resume", "resume32", "s3", "reboot", "copy", "rest", "clear"} => hrp # 0
    /\ where \in {"resume32", "s3", "reboot", "copy", "rest", "clear"} => status = "none"
    /\ where \in {"resume32", "s3"} /\ reason = "s3" => Resumable
    /\ where = "s3" => reason = "s3"
    /\ where = "clear" => code = "pristine"

ResetInv == ResetType /\ code # "broken" /\ FoundRight /\ PostRight /\ ResumeRight

-----------------------------------------------------------------------------
\* The loop of make_bios_readonly_intel locks what it should, and nothing else, if
\* nothing that must not be locked was: the loop does not unlock.
LEMMA LockedRight ==
    ASSUME ResetType, Writable \in BOOLEAN,
           \A i \in Regions, h \in {0, 1} : rommax < 32 * i + 16 * h + 16 => ~ReadOnly(i, h),
           roms' = Locked(roms), UNCHANGED <<romlast, rommax>>
    PROVE  RomsLocked' /\ roms' \in [Regions -> {"rw", "ro", "low"}]
<1> USE DEF ResetType, Regions
<1>1. roms' \in [Regions -> {"rw", "ro", "low"}]
  BY DEF Locked
<1>2. ASSUME NEW i \in Regions, NEW h \in {0, 1}
      PROVE  /\ rommax < 32 * i + 16 * h + 16 => ~ReadOnly(i, h)'
             /\ romlast > 32 * i + 16 * h /\ rommax >= 32 * i + 16 * h + 16 => ReadOnly(i, h)'
  <2>1. roms'[i] = IF Whole(i) THEN "ro"
                   ELSE IF (i = 0 \/ Whole(i - 1)) /\ FirstHalf(i) THEN "low"
                   ELSE roms[i]
    BY DEF Locked
  <2>2. RomLast \in 0 .. 192 /\ RomLast >= romlast
    BY DEF RomLast
  <2>3. ReadOnly(i, h)' <=> roms'[i] = "ro" \/ (roms'[i] = "low" /\ h = 0)
    BY DEF ReadOnly
  <2>4. CASE h = 0
    <3>1. rommax < 32 * i + 16 => ~Whole(i) /\ ~FirstHalf(i)
      BY <2>2 DEF Whole, FirstHalf
    <3>2. romlast > 32 * i /\ rommax >= 32 * i + 16 => FirstHalf(i) /\ (i = 0 \/ Whole(i - 1))
      BY <2>2 DEF Whole, FirstHalf
    <3> QED
      BY <2>1, <2>3, <2>4, <3>1, <3>2 DEF ReadOnly
  <2>5. CASE h = 1
    <3>1. rommax < 32 * i + 32 => ~Whole(i)
      BY <2>2 DEF Whole
    <3>2. romlast > 32 * i + 16 /\ rommax >= 32 * i + 32 => Whole(i)
      BY <2>2 DEF Whole
    <3> QED
      BY <2>1, <2>3, <2>5, <3>1, <3>2 DEF ReadOnly
  <2> QED
    BY <2>4, <2>5
<1> QED
  BY <1>1, <1>2 DEF RomsLocked

\* Nothing is locked after make_bios_writable, and what is locked stays right.
LEMMA LockAgain ==
    ASSUME ResetType, Writable \in BOOLEAN, roms = Unlocked \/ RomsLocked,
           roms' = Locked(roms), UNCHANGED <<romlast, rommax>>
    PROVE  RomsLocked' /\ roms' \in [Regions -> {"rw", "ro", "low"}]
<1>1. \A i \in Regions, h \in {0, 1} : rommax < 32 * i + 16 * h + 16 => ~ReadOnly(i, h)
  <2>1. CASE roms = Unlocked
    BY <2>1 DEF Unlocked, ReadOnly
  <2>2. CASE RomsLocked
    BY <2>2 DEF RomsLocked
  <2> QED
    BY <2>1, <2>2
<1> QED
  BY <1>1, LockedRight

LEMMA InitResetInv == ResetInit => ResetInv
<1> SUFFICES ASSUME ResetInit PROVE ResetInv
  OBVIOUS
<1> USE DEF ResetInit
<1>1. ResetType
  <2>1. wake \in BOOLEAN /\ alive \in BOOLEAN
    OBVIOUS
  <2> QED
    BY <2>1 DEF ResetType, Stations, Statuses, Regions, Unlocked
<1>2. code # "broken" /\ FoundRight
  BY DEF FoundRight
<1>3. PostRight /\ ResumeRight
  BY DEF PostRight, ResumeRight
<1> QED
  BY <1>1, <1>2, <1>3 DEF ResetInv

\* A step that leaves alone what Resumable speaks of.
LEMMA ResumableSame ==
    ASSUME UNCHANGED <<kind, pam, roms, code, hrp, alive, romlast, rommax>>
    PROVE  Resumable' <=> Resumable
BY DEF Resumable, RomsLocked, ReadOnly

LEMMA NextResetInv == ResetInv /\ [ResetNext]_resetVars => ResetInv'
<1> SUFFICES ASSUME ResetInv, [ResetNext]_resetVars PROVE ResetInv'
  OBVIOUS
<1> USE ResetAssumption DEF ResetInv
<1>1. ResetType'
  <2> USE DEF ResetType, Stations, Statuses
  <2>1. CASE entry_post
    BY <2>1 DEF entry_post
  <2>2. CASE handle_post
    BY <2>2 DEF handle_post, make_bios_writable, Unlocked
  <2>3. CASE code_mutable_preinit \/ reloc_preinit
    <3>1. wake' \in BOOLEAN /\ alive' \in BOOLEAN
      BY <2>3 DEF code_mutable_preinit, reloc_preinit
    <3> QED
      BY <2>3, <3>1 DEF code_mutable_preinit, reloc_preinit
  <2>4. CASE prepareboot
    BY <2>4 DEF prepareboot
  <2>5. CASE boot_guest \/ s3_resume
    <3>1. CASE kind = "other"
      BY <2>5, <3>1 DEF boot_guest, s3_resume, make_bios_readonly
    <3>2. CASE kind # "other"
      <4>1. roms' = Locked(roms) /\ UNCHANGED <<romlast, rommax>>
        BY <2>5, <3>2 DEF boot_guest, s3_resume, make_bios_readonly
      <4>2. roms' \in [Regions -> {"rw", "ro", "low"}]
        BY <4>1 DEF Locked
      <4>3. alive' \in BOOLEAN
        BY <2>5 DEF boot_guest, s3_resume
      <4> QED
        BY <2>5, <3>2, <4>2, <4>3 DEF boot_guest, s3_resume, make_bios_readonly
    <3> QED
      BY <3>1, <3>2
  <2>6. CASE GuestWrites \/ HardReset
    BY <2>6 DEF GuestWrites, HardReset
  <2>7. CASE PowerCycle
    <3>1. wake' \in BOOLEAN /\ alive' \in BOOLEAN
      BY <2>7 DEF PowerCycle
    <3> QED
      BY <2>7, <3>1 DEF PowerCycle, Unlocked
  <2>8. CASE handle_resume \/ handle_resume32 \/ qemu_reboot \/ RebootFails
    BY <2>8 DEF handle_resume, handle_resume32, qemu_reboot, RebootFails
  <2>9. CASE tryReboot
    BY <2>9 DEF tryReboot, make_bios_writable, Unlocked
  <2>10. CASE UNCHANGED resetVars
    BY <2>10 DEF resetVars
  <2> QED
    BY <2>1, <2>2, <2>3, <2>4, <2>5, <2>6, <2>7, <2>8, <2>9, <2>10 DEF ResetNext
<1>2. (code # "broken" /\ FoundRight /\ PostRight /\ ResumeRight)'
  <2> USE DEF FoundRight, PostRight, ResumeRight, Seen
  <2>1. CASE entry_post
    BY <2>1, ResumableSame DEF entry_post
  <2>2. CASE handle_post
    BY <2>2 DEF handle_post, make_bios_writable, ResetType
  <2>3. CASE code_mutable_preinit
    BY <2>3, ResumableSame DEF code_mutable_preinit
  <2>4. CASE reloc_preinit
    BY <2>4 DEF reloc_preinit
  <2>5. CASE prepareboot
    BY <2>5 DEF prepareboot
  <2>6. CASE boot_guest
    <3>1. Resumable'
      <4>1. CASE kind = "other"
        BY <2>6, <4>1 DEF boot_guest, Resumable
      <4>2. CASE kind # "other"
        BY <2>6, <4>2, LockAgain DEF boot_guest, make_bios_readonly, Resumable
      <4> QED
        BY <4>1, <4>2
    <3> QED
      BY <2>6, <3>1 DEF boot_guest, make_bios_readonly
  <2>7. CASE GuestWrites
    BY <2>7, ResumableSame DEF GuestWrites
  <2>8. CASE HardReset
    BY <2>8, ResumableSame DEF HardReset
  <2>9. CASE PowerCycle
    BY <2>9 DEF PowerCycle
  <2>10. CASE handle_resume
    BY <2>10, ResumableSame DEF handle_resume
  <2>11. CASE handle_resume32
    BY <2>11, ResumableSame DEF handle_resume32
  <2>12. CASE s3_resume
    <3>1. Resumable'
      <4>1. CASE kind = "other"
        BY <2>12, <4>1 DEF s3_resume, Resumable
      <4>2. CASE kind # "other"
        BY <2>12, <4>2, LockAgain DEF s3_resume, make_bios_readonly, Resumable
      <4> QED
        BY <4>1, <4>2
    <3> QED
      BY <2>12, <3>1 DEF s3_resume, make_bios_readonly
  <2>13. CASE tryReboot
    BY <2>13 DEF tryReboot, make_bios_writable
  <2>14. CASE qemu_reboot
    BY <2>14 DEF qemu_reboot
  <2>15. CASE RebootFails
    BY <2>15, ResumableSame DEF RebootFails
  <2>16. CASE UNCHANGED resetVars
    BY <2>16, ResumableSame DEF resetVars
  <2> QED
    BY <2>1, <2>2, <2>3, <2>4, <2>5, <2>6, <2>7, <2>8, <2>9, <2>10, <2>11, <2>12, <2>13, <2>14, <2>15, <2>16
       DEF ResetNext
<1> QED
  BY <1>1, <1>2

\* The copy of the BIOS stays fit for use: reloc_preinit patches no copy a second
\* time, and handle_resume and s3_resume enter a guest only where there is one, on a
\* locked BIOS, at whatever step of post.c, resume.c or shadow.c the machine was reset.
THEOREM BiosStaysIntact == ResetSpec => []BiosIntact
<1>1. ResetInv => BiosIntact
  BY DEF ResetInv, PostRight, Resumable, BiosIntact, GuestSafe
<1> QED
  BY <1>1, InitResetInv, NextResetInv, PTL DEF ResetSpec


USE DEF tickVars, rtcVars, fineVars

-----------------------------------------------------------------------------
(* What the remainder does at the wrap of a counter *)

LEMMA DivMod ==
    ASSUME NEW d \in Nat \ {0}, NEW n \in Int
    PROVE  n \div d \in Int /\ n % d \in 0..(d - 1) /\ n = d * (n \div d) + (n % d)
<1>1. d \in Nat /\ d > 0
  OBVIOUS
<1> QED
  BY <1>1, Z3

LEMMA ModUnique ==
    ASSUME NEW d \in Nat \ {0}, NEW n \in Int, NEW q \in Int, NEW r \in 0..(d - 1), n = d * q + r
    PROVE  n % d = r /\ n \div d = q
BY Z3

\* A number less than twice the divisor wraps at most once.
LEMMA ModOnce ==
    ASSUME NEW d \in Nat \ {0}, NEW n \in Int
    PROVE  /\ n \in 0..(d - 1) => n % d = n
           /\ n \in d..(2 * d - 1) => n % d = n - d
           /\ n \in (-d)..(-1) => n % d = n + d
<1>1. n \in 0..(d - 1) => n = d * 0 + n
  OBVIOUS
<1>2. n \in d..(2 * d - 1) => n = d * 1 + (n - d) /\ n - d \in 0..(d - 1)
  OBVIOUS
<1>3. n \in (-d)..(-1) => n = d * (-1) + (n + d) /\ n + d \in 0..(d - 1)
  OBVIOUS
<1>4. n \in 0..(d - 1) => n % d = n
  BY <1>1, ModUnique
<1>5. n \in d..(2 * d - 1) => n % d = n - d
  BY <1>2, ModUnique
<1>6. n \in (-d)..(-1) => n % d = n + d
  BY <1>3, ModUnique
<1> QED
  BY <1>4, <1>5, <1>6

\* A remainder may be taken of a term before or after the sum.
LEMMA ModSum ==
    ASSUME NEW d \in Nat \ {0}, NEW n \in Int, NEW k \in Int
    PROVE  ((n % d) + k) % d = (n + k) % d
<1> DEFINE q == n \div d  r == n % d
           p == (r + k) \div d  s == (r + k) % d
<1>1. q \in Int /\ r \in 0..(d - 1) /\ n = d * q + r
  BY DivMod
<1>2. r + k \in Int
  BY <1>1
<1>3. p \in Int /\ s \in 0..(d - 1) /\ r + k = d * p + s
  BY <1>2, DivMod
<1> HIDE DEF q, r, p, s
<1>4. n + k = d * (p + q) + s
  <2>1. d * (p + q) = d * p + d * q
    BY <1>1, <1>3
  <2> QED
    BY <1>1, <1>3, <2>1
<1>5. n + k \in Int /\ p + q \in Int
  BY <1>1, <1>3
<1>6. (n + k) % d = s
  BY <1>3, <1>4, <1>5, ModUnique
<1> QED
  BY <1>6 DEF r, s

-----------------------------------------------------------------------------
(***************************************************************************)
(* The inductive invariant. TimeKept says what the checks of a deadline    *)
(* return; that they return it next time as well follows from where the    *)
(* counter stands: `due' units before the end, less than half a turn away. *)
(***************************************************************************)

\* A deadline of a counter that wraps at `size'.
Deadline(t, now, size) ==
    \/ t = NoTimer
    \/ \E end \in 0..(size - 1), due \in Int :
          /\ t = [end |-> end, due |-> due]
          /\ -(size \div 2) < due /\ due < size \div 2
          /\ (now + due) % size = end

TicksKept ==
    /\ timer_counter \in 0..(Day - 1) /\ on \in BOOLEAN /\ start \in Times
    /\ timer_rollover \in Nat /\ midnightsTold \in Nat /\ days \in 0..(Byte - 1)
    /\ (midnightsTold + timer_rollover) % Byte = days
    /\ ~on => armed = NoTimer
    /\ Deadline(armed, timer_counter, Day)

WaitRecords == [pending : BOOLEAN, left : Int, who : {"none", "self", "user"}, asked : Int, seen : Int]

RtcKept ==
    /\ wait \in WaitRecords /\ preempt \in BOOLEAN /\ stale \in BOOLEAN
    /\ RTCusers = (IF wait.pending THEN 1 ELSE 0) + (IF preempt THEN 1 ELSE 0)
    /\ ~stale => (("PIE" \in statusB) = (RTCusers > 0))
    /\ wait.pending => wait.left + (Usec * wait.seen) = wait.asked

FineKept ==
    /\ real \in 0..(Word - 1) /\ TimerLast = real
    /\ Deadline(delay, real, Word)

LEMMA Sizes ==
    /\ Hz \in Nat \ {0} /\ Interval \in Nat \ {0} /\ Ratio \in Nat \ {0} /\ Word \in Nat \ {0}
    /\ Day \in Nat \ {0} /\ Byte \in Nat \ {0} /\ Usec \in Nat \ {0} /\ Valid \in Nat \ {0}
    /\ Day >= 2
<1>1. /\ Hz \in Nat \ {0} /\ Interval \in Nat \ {0} /\ Ratio \in Nat \ {0} /\ Word \in Nat \ {0}
      /\ Day \in Nat \ {0} /\ Byte \in Nat \ {0} /\ Usec \in Nat \ {0} /\ Valid \in Nat \ {0}
  BY ClockSizes
<1>2. Day >= 2
  BY <1>1, ClockSizes
<1> QED
  BY <1>1, <1>2

\* Half a turn, and the remainder of the distance to a deadline.
LEMMA HalfTurn ==
    ASSUME NEW size \in Nat \ {0}
    PROVE  size \div 2 \in Nat /\ 2 * (size \div 2) <= size
  OBVIOUS

LEMMA Distance ==
    ASSUME NEW size \in Nat \ {0}, NEW now \in 0..(size - 1), NEW end \in 0..(size - 1),
           NEW due \in Int, -(size \div 2) < due, due < size \div 2, (now + due) % size = end
    PROVE  (now + size - end) % size = IF due <= 0 THEN -due ELSE size - due
<1> DEFINE h == size \div 2
<1>1. h \in Nat /\ 2 * h <= size /\ -h < due /\ due < h
  BY HalfTurn
<1> HIDE DEF h
<1>2. now + due \in (-size)..(2 * size - 1) /\ now + due \in Int
  BY <1>1
<1>3. \/ now + due \in 0..(size - 1) /\ end = now + due
      \/ now + due \in size..(2 * size - 1) /\ end = now + due - size
      \/ now + due \in (-size)..(-1) /\ end = now + due + size
  BY <1>2, ModOnce
<1>4. now + size - end \in {size - due, 2 * size - due, -due}
  BY <1>1, <1>3
<1>5. now + size - end \in 0..(2 * size - 1) /\ now + size - end \in Int
  OBVIOUS
<1>6. (now + size - end) % size \in {now + size - end, now - end} 
      /\ (now + size - end) % size \in 0..(size - 1)
  <2>1. now + size - end \in 0..(size - 1) => (now + size - end) % size = now + size - end
    BY <1>5, ModOnce
  <2>2. now + size - end \in size..(2 * size - 1) => (now + size - end) % size = now + size - end - size
    BY <1>5, ModOnce
  <2> QED
    BY <1>5, <2>1, <2>2
<1> QED
  BY <1>1, <1>4, <1>6

\* The counter advances and the deadline comes nearer by as much.
LEMMA Nearer ==
    ASSUME NEW size \in Nat \ {0}, NEW now \in 0..(size - 1), NEW k \in Nat, NEW due \in Int
    PROVE  (((now + k) % size) + (due - k)) % size = (now + due) % size
<1>1. now + k \in Int /\ due - k \in Int
  OBVIOUS
<1>2. (((now + k) % size) + (due - k)) % size = ((now + k) + (due - k)) % size
  BY <1>1, ModSum
<1>3. (now + k) + (due - k) = now + due
  OBVIOUS
<1> QED
  BY <1>2, <1>3

\* Time passes, and a deadline more than half a turn old is dropped.
LEMMA DeadlineNearer ==
    ASSUME NEW size \in Nat \ {0}, NEW now \in 0..(size - 1), NEW k \in Nat,
           NEW t, Deadline(t, now, size)
    PROVE  Deadline(IF t.end = -1 \/ t.due - k <= -(size \div 2) THEN NoTimer
                    ELSE [t EXCEPT !.due = @ - k], (now + k) % size, size)
<1>1. CASE t = NoTimer
  BY <1>1 DEF Deadline, NoTimer
<1>2. CASE t # NoTimer
  <2>1. PICK end \in 0..(size - 1), due \in Int :
          /\ t = [end |-> end, due |-> due]
          /\ -(size \div 2) < due /\ due < size \div 2
          /\ (now + due) % size = end
    BY <1>2 DEF Deadline
  <2>2. t.end = end /\ t.due = due /\ end # -1
    BY <2>1
  <2>3. CASE due - k <= -(size \div 2)
    BY <2>2, <2>3 DEF Deadline
  <2>4. CASE ~(due - k <= -(size \div 2))
    <3>1. [t EXCEPT !.due = @ - k] = [end |-> end, due |-> due - k]
      BY <2>1
    <3>2. -(size \div 2) < due - k /\ due - k < size \div 2 /\ due - k \in Int
      BY <2>1, <2>4, HalfTurn
    <3>3. (((now + k) % size) + (due - k)) % size = end
      BY <2>1, Nearer
    <3> QED
      BY <2>2, <2>4, <3>1, <3>2, <3>3 DEF Deadline
  <2> QED
    BY <2>3, <2>4
<1> QED
  BY <1>1, <1>2

-----------------------------------------------------------------------------
(* The ticks *)

LEMMA TicksNat == ASSUME NEW ms \in Nat PROVE ticks_from_ms(ms) \in Nat
<1>1. \A n \in Nat, d \in Nat \ {0} : DivUp(n, d) \in Nat
  <2> SUFFICES ASSUME NEW n \in Nat, NEW d \in Nat \ {0} PROVE DivUp(n, d) \in Nat
    OBVIOUS
  <2>1. n + d - 1 \in Nat
    OBVIOUS
  <2>2. (n + d - 1) \div d \in Nat
    BY <2>1, Z3
  <2> QED
    BY <2>2 DEF DivUp
<1>2. ms * Hz \in Nat
  BY Sizes
<1>3. DivUp(ms * Hz, Interval) \in Nat
  BY <1>1, <1>2, Sizes
<1>4. DivUp(ms * Hz, Interval) % Word \in Nat
  BY <1>3, Sizes, DivMod
<1> QED
  BY <1>1, <1>4, Sizes DEF ticks_from_ms

LEMMA TickStep == TicksKept /\ TickNext => TicksKept'
<1> SUFFICES ASSUME TicksKept, TickNext PROVE TicksKept'
  OBVIOUS
<1> USE Sizes
<1>1. CASE clock_setup
  <2> DEFINE k == ticks_from_ms(start)
  <2>1. k \in Int
    BY TicksNat, ClockInputs DEF TicksKept
  <2> HIDE DEF k
  <2>2. k % Day \in 0..(Day - 1)
    BY <2>1, DivMod
  <2>3. armed = NoTimer /\ armed' = armed /\ on' = TRUE
    BY <1>1 DEF clock_setup, TicksKept
  <2>4. on' \in BOOLEAN
    BY <2>3
  <2> QED
    BY <1>1, <2>2, <2>3, <2>4 DEF clock_setup, TicksKept, Deadline, k
<1>2. CASE handle_08
  <2>1. timer_counter' = (timer_counter + 1) % Day /\ timer_counter' \in 0..(Day - 1)
    <3>1. timer_counter + 1 \in 0..(2 * Day - 1) /\ timer_counter + 1 \in Int
      BY DEF TicksKept
    <3>2. CASE timer_counter + 1 >= Day
      <4>1. timer_counter + 1 = Day
        BY <3>2 DEF TicksKept
      <4>2. (timer_counter + 1) % Day = 0
        BY <3>1, <4>1, ModOnce
      <4> QED
        BY <1>2, <3>2, <4>2 DEF handle_08, clock_update
    <3>3. CASE ~(timer_counter + 1 >= Day)
      <4>1. (timer_counter + 1) % Day = timer_counter + 1
        BY <3>1, <3>3, ModOnce
      <4> QED
        BY <1>2, <3>1, <3>3, <4>1 DEF handle_08, clock_update
    <3> QED
      BY <3>2, <3>3
  <2>2. /\ timer_rollover' \in Nat /\ midnightsTold' \in Nat /\ days' \in 0..(Byte - 1)
        /\ (midnightsTold' + timer_rollover') % Byte = days'
    <3>1. CASE timer_counter + 1 >= Day
      <4>1. timer_counter + 1 = Day
        BY <3>1 DEF TicksKept
      <4>2. /\ timer_rollover' = (timer_rollover + 1) % Byte /\ days' = (days + 1) % Byte
            /\ midnightsTold' = midnightsTold
        BY <1>2, <3>1, <4>1 DEF handle_08, clock_update
      <4>3. timer_rollover' \in Nat /\ days' \in 0..(Byte - 1)
        BY <4>2, DivMod DEF TicksKept
      <4>4. (timer_rollover' + midnightsTold) % Byte = (timer_rollover + 1 + midnightsTold) % Byte
        <5>1. timer_rollover + 1 \in Int /\ midnightsTold \in Int
          BY DEF TicksKept
        <5> QED
          BY <4>2, <5>1, ModSum
      <4>5. (days + 1) % Byte = (midnightsTold + timer_rollover + 1) % Byte
        <5>1. midnightsTold + timer_rollover \in Int
          BY DEF TicksKept
        <5>2. days = (midnightsTold + timer_rollover) % Byte
          BY DEF TicksKept
        <5> QED
          BY <5>1, <5>2, ModSum
      <4>6. /\ timer_rollover + 1 + midnightsTold = midnightsTold + timer_rollover + 1
            /\ midnightsTold' + timer_rollover' = timer_rollover' + midnightsTold
        BY <4>2, <4>3 DEF TicksKept
      <4> QED
        BY <4>2, <4>3, <4>4, <4>5, <4>6 DEF TicksKept
    <3>2. CASE ~(timer_counter + 1 >= Day)
      BY <1>2, <3>2 DEF handle_08, clock_update, TicksKept
    <3> QED
      BY <3>1, <3>2
  <2>3. Deadline(armed', timer_counter', Day)
    <3>1. armed' = IF armed.end = -1 \/ armed.due - 1 <= -(Day \div 2) THEN NoTimer
                   ELSE [armed EXCEPT !.due = @ - 1]
      BY <1>2 DEF handle_08
    <3>2. Deadline(armed, timer_counter, Day) /\ timer_counter \in 0..(Day - 1)
      BY DEF TicksKept
    <3> QED
      BY <2>1, <3>1, <3>2, DeadlineNearer
  <2>4. on /\ on' = on /\ start' = start
    BY <1>2 DEF handle_08
  <2> QED
    BY <2>1, <2>2, <2>3, <2>4 DEF TicksKept
<1>3. CASE handle_1a00
  <2>1. midnightsTold' = days /\ timer_rollover' = 0
    BY <1>3 DEF handle_1a00, TicksKept
  <2>2. (midnightsTold' + timer_rollover') % Byte = days
    <3>1. days \in 0..(Byte - 1) /\ days \in Int
      BY DEF TicksKept
    <3>2. days % Byte = days
      BY <3>1, ModOnce
    <3> QED
      BY <2>1, <3>1, <3>2
  <2> QED
    BY <1>3, <2>1, <2>2 DEF handle_1a00, TicksKept
<1>4. ASSUME NEW ticks \in {0, Day - 2}, handle_1a01(ticks) PROVE TicksKept'
  <2>1. midnightsTold' = days /\ timer_rollover' = 0 /\ armed' = NoTimer
    BY <1>4 DEF handle_1a01, TicksKept
  <2>2. (midnightsTold' + timer_rollover') % Byte = days
    <3>1. days \in 0..(Byte - 1) /\ days \in Int
      BY DEF TicksKept
    <3>2. days % Byte = days
      BY <3>1, ModOnce
    <3> QED
      BY <2>1, <3>1, <3>2
  <2>3. ticks \in 0..(Day - 1)
    OBVIOUS
  <2> QED
    BY <1>4, <2>1, <2>2, <2>3 DEF handle_1a01, TicksKept, Deadline
<1>5. ASSUME NEW ms \in Delays, ArmTimer(ms) PROVE TicksKept'
  <2> DEFINE k == IF ms = 0 THEN 0 ELSE ticks_from_ms(ms) + 1
  <2>1. ticks_from_ms(ms) \in Nat
    BY TicksNat, ClockInputs
  <2>2. k \in Nat /\ k < Day \div 2 /\ -(Day \div 2) < k
    BY <1>5, <2>1, HalfTurn DEF ArmTimer
  <2>3. irqtimer_calc(ms) = (timer_counter + k) % Day
    <3>1. CASE ms = 0
      <4>1. timer_counter % Day = timer_counter
        BY ModOnce DEF TicksKept
      <4> QED
        BY <3>1, <4>1 DEF irqtimer_calc, TicksKept
    <3>2. CASE ms # 0
      <4>1. timer_counter + ticks_from_ms(ms) + 1 = timer_counter + k
        BY <2>1, <3>2 DEF TicksKept
      <4> QED
        BY <3>2, <4>1 DEF irqtimer_calc, irqtimer_calc_ticks
    <3> QED
      BY <3>1, <3>2
  <2>4. armed' = [end |-> irqtimer_calc(ms), due |-> k]
    BY <1>5 DEF ArmTimer
  <2> HIDE DEF k
  <2>5. irqtimer_calc(ms) \in 0..(Day - 1)
    <3>1. timer_counter + k \in Int
      BY <2>2 DEF TicksKept
    <3> QED
      BY <2>3, <3>1, DivMod
  <2>6. Deadline(armed', timer_counter, Day)
    BY <2>2, <2>3, <2>4, <2>5 DEF Deadline
  <2> QED
    BY <1>5, <2>6 DEF ArmTimer, TicksKept
<1> QED
  BY <1>1, <1>2, <1>3, <1>4, <1>5 DEF TickNext

-----------------------------------------------------------------------------
(* The real time clock *)

\* rtc_use and rtc_release keep the periodic interrupt on as long as there are users.
LEMMA UseStep ==
    ASSUME RtcKept, rtc_use
    PROVE  /\ RTCusers' = RTCusers + 1 /\ stale' \in BOOLEAN
           /\ ~stale' => (("PIE" \in statusB') = (RTCusers' > 0))
<1>0. RTCusers \in {0, 1, 2} /\ stale \in BOOLEAN
  BY DEF RtcKept, WaitRecords
<1>1. RTCusers' = RTCusers + 1
  BY DEF rtc_use
<1>2. CASE RTCusers = 0
  <2>1. statusB' = statusB \union {"PIE"} /\ stale' = FALSE
    BY <1>2 DEF rtc_use
  <2>2. stale' \in BOOLEAN
    BY <2>1
  <2>3. "PIE" \in statusB' /\ RTCusers' > 0
    BY <1>1, <1>2, <2>1
  <2> QED
    BY <1>1, <2>2, <2>3
<1>3. CASE RTCusers # 0
  <2>1. statusB' = statusB /\ stale' = stale
    BY <1>3 DEF rtc_use
  <2> QED
    BY <1>0, <1>1, <1>3, <2>1 DEF RtcKept
<1> QED
  BY <1>2, <1>3

LEMMA ReleaseStep ==
    ASSUME RtcKept, RTCusers > 0, rtc_release
    PROVE  /\ RTCusers' = RTCusers - 1 /\ stale' \in BOOLEAN
           /\ ~stale' => (("PIE" \in statusB') = (RTCusers' > 0))
<1>0. RTCusers \in {1, 2} /\ stale \in BOOLEAN
  BY DEF RtcKept, WaitRecords
<1>1. RTCusers' = RTCusers - 1
  BY DEF rtc_release
<1>2. CASE RTCusers = 1
  <2>1. statusB' = statusB \ {"PIE"} /\ stale' = FALSE
    BY <1>2 DEF rtc_release
  <2>2. stale' \in BOOLEAN
    BY <2>1
  <2>3. "PIE" \notin statusB' /\ ~(RTCusers' > 0)
    BY <1>1, <1>2, <2>1
  <2> QED
    BY <1>1, <2>2, <2>3
<1>3. CASE RTCusers # 1
  <2>1. statusB' = statusB /\ stale' = stale
    BY <1>3 DEF rtc_release
  <2> QED
    BY <1>0, <1>1, <1>3, <2>1 DEF RtcKept
<1> QED
  BY <1>2, <1>3

LEMMA NoWaitType == NoWait \in WaitRecords /\ NoWait.pending = FALSE
  BY DEF NoWait, WaitRecords

LEMMA SetStep ==
    ASSUME RtcKept, ~wait.pending, NEW usecs \in Waits, NEW who \in {"self", "user"},
           set_usertimer(usecs, who), preempt' = preempt
    PROVE  RtcKept'
<1>1. wait' = [pending |-> TRUE, left |-> usecs, who |-> who, asked |-> usecs, seen |-> 0] /\ rtc_use
  BY DEF set_usertimer
<1>2. usecs \in Int /\ Usec * 0 = 0
  BY ClockInputs, Sizes
<1>3. wait' \in WaitRecords /\ wait'.pending = TRUE
  BY <1>1, <1>2 DEF WaitRecords
<1>4. wait'.left + (Usec * wait'.seen) = wait'.asked
  BY <1>1, <1>2
<1>5. RTCusers' = (IF wait'.pending THEN 1 ELSE 0) + (IF preempt' THEN 1 ELSE 0)
  BY <1>1, <1>3, UseStep DEF RtcKept
<1> QED
  BY <1>1, <1>3, <1>4, <1>5, UseStep DEF RtcKept

LEMMA ClearStep ==
    ASSUME RtcKept, clear_usertimer, preempt' = preempt
    PROVE  RtcKept'
<1>1. CASE wait.pending
  <2>1. wait' = NoWait /\ rtc_release
    BY <1>1 DEF clear_usertimer
  <2>2. RTCusers > 0
    BY <1>1 DEF RtcKept
  <2>3. RTCusers' = (IF wait'.pending THEN 1 ELSE 0) + (IF preempt' THEN 1 ELSE 0)
    BY <1>1, <2>1, <2>2, ReleaseStep, NoWaitType DEF RtcKept
  <2> QED
    BY <2>1, <2>2, <2>3, ReleaseStep, NoWaitType DEF RtcKept
<1>2. CASE ~wait.pending
  BY <1>2 DEF clear_usertimer, RtcKept
<1> QED
  BY <1>1, <1>2

LEMMA PeriodicStep ==
    ASSUME RtcKept, Periodic, preempt' = preempt
    PROVE  RtcKept'
<1>1. CASE ~wait.pending
  BY <1>1 DEF Periodic, RtcKept
<1>2. CASE wait.pending /\ wait.left < Usec
  BY <1>2, ClearStep DEF Periodic
<1>3. CASE wait.pending /\ ~(wait.left < Usec)
  <2> DEFINE w == [wait EXCEPT !.left = @ - Usec]
  <2>1. wait' = [w EXCEPT !.seen = @ + 1] /\ UNCHANGED <<statusB, RTCusers, stale>>
    BY <1>3 DEF Periodic, RtcKept, WaitRecords
  <2>2. /\ w \in WaitRecords /\ w.left = wait.left - Usec /\ w.seen = wait.seen
        /\ w.asked = wait.asked /\ w.pending = wait.pending
    BY Sizes DEF RtcKept, WaitRecords
  <2> HIDE DEF w
  <2>3. /\ wait' \in WaitRecords /\ wait'.left = w.left /\ wait'.seen = w.seen + 1
        /\ wait'.asked = w.asked /\ wait'.pending = w.pending
    BY <2>1, <2>2 DEF WaitRecords
  <2>4. wait.seen \in Int /\ wait.left \in Int
    BY DEF RtcKept, WaitRecords
  <2>5. Usec * (wait.seen + 1) = Usec * wait.seen + Usec
    BY <2>4, Sizes
  <2>6. wait'.left + (Usec * wait'.seen) = wait'.asked
    <3> DEFINE u == Usec * wait.seen
    <3>1. u \in Int
      BY <2>4, Sizes
    <3>2. wait.left + u = wait.asked
      BY <1>3 DEF RtcKept
    <3>3. Usec * wait'.seen = u + Usec
      BY <2>2, <2>3, <2>5
    <3> HIDE DEF u
    <3> QED
      BY <2>2, <2>3, <2>4, <3>1, <3>2, <3>3, Sizes
  <2> QED
    BY <2>1, <2>2, <2>3, <2>6 DEF RtcKept
<1> QED
  BY <1>1, <1>2, <1>3

LEMMA WriteStep ==
    ASSUME RtcKept, NEW b, WriteB(b), UNCHANGED <<RTCusers, wait, preempt>>
    PROVE  RtcKept'
<1>1. stale' \in BOOLEAN
  BY DEF WriteB, PieMoves, RtcKept
<1>2. ~stale' => (("PIE" \in statusB') = (RTCusers' > 0))
  BY DEF WriteB, PieMoves, RtcKept
<1> QED
  BY <1>1, <1>2 DEF RtcKept

LEMMA RtcStep == RtcKept /\ RtcNext => RtcKept'
<1> SUFFICES ASSUME RtcKept, RtcNext PROVE RtcKept'
  OBVIOUS
<1>1. ASSUME NEW usecs \in Waits, handle_1586(usecs) \/ handle_158300(usecs) PROVE RtcKept'
  BY <1>1, SetStep DEF handle_1586, handle_158300
<1>2. CASE handle_158301
  BY <1>2, ClearStep DEF handle_158301
<1>3. ASSUME UNCHANGED <<statusB, RTCusers, wait, preempt, stale>> PROVE RtcKept'
  BY <1>3 DEF RtcKept
<1>4. CASE handle_1586_return \/ \E call \in {"02", "03", "04", "05", "06"} : Updating(call)
  BY <1>3, <1>4 DEF handle_1586_return, Updating
<1>5. ASSUME NEW statusC, handle_70(statusC) PROVE RtcKept'
  BY <1>3, <1>5, PeriodicStep DEF handle_70
<1>6. CASE handle_70_rest
  BY <1>3, <1>6, PeriodicStep DEF handle_70_rest
<1>7. CASE start_preempt
  <2>1. rtc_use /\ ~preempt /\ preempt' = TRUE /\ wait' = wait
    BY <1>7 DEF start_preempt
  <2>2. preempt' \in BOOLEAN
    BY <2>1
  <2>3. RTCusers' = (IF wait'.pending THEN 1 ELSE 0) + (IF preempt' THEN 1 ELSE 0)
    BY <2>1, UseStep DEF RtcKept
  <2> QED
    BY <2>1, <2>2, <2>3, UseStep DEF RtcKept
<1>8. CASE finish_preempt_rtc
  <2>1. rtc_release /\ preempt /\ preempt' = FALSE /\ wait' = wait
    BY <1>8 DEF finish_preempt_rtc
  <2>2. preempt' \in BOOLEAN
    BY <2>1
  <2>0. RTCusers > 0
    BY <2>1 DEF RtcKept, WaitRecords
  <2>3. RTCusers' = (IF wait'.pending THEN 1 ELSE 0) + (IF preempt' THEN 1 ELSE 0)
    BY <2>1, <2>0, ReleaseStep DEF RtcKept
  <2> QED
    BY <2>1, <2>0, <2>2, <2>3, ReleaseStep DEF RtcKept
<1>9. CASE rtc_updating
  BY <1>9, WriteStep DEF rtc_updating
<1>10. CASE AtOnce
  BY <1>10, WriteStep DEF AtOnce
<1> QED
  BY <1>1, <1>2, <1>4, <1>5, <1>6, <1>7, <1>8, <1>9, <1>10 DEF RtcNext

-----------------------------------------------------------------------------
(* The fine timer *)

\* The extended counter is the hardware's time, read before the short one turns twice.
LEMMA AdjustRight ==
    ASSUME TimerLast = real, real \in 0..(Word - 1), NEW d \in 0..(Valid - 1)
    PROVE  timer_adjust_bits(((real + d) % Word) % Valid) = (real + d) % Word
<1> USE Sizes
<1> DEFINE q == real \div Valid  r == real % Valid
           w == Word \div Valid
           now == (real + d) % Word
<1>1. q \in Int /\ r \in 0..(Valid - 1) /\ real = Valid * q + r
  BY DivMod
<1>2. w \in Int /\ Word = Valid * w
  <2>1. Word = Valid * w + (Word % Valid) /\ w \in Int
    BY DivMod
  <2> QED
    BY <2>1, ClockSizes
<1> HIDE DEF q, r, w
<1>3. q + 1 <= w
  <2>1. ASSUME w <= q PROVE FALSE
    <3>1. Valid * w <= Valid * q
      BY <1>1, <1>2, <2>1, Z3
    <3> QED
      BY <1>1, <1>2, <3>1
  <2> QED
    BY <1>1, <1>2, <2>1
<1>4. Valid * (q + 1) = Valid * q + Valid /\ Valid * (q + 1) <= Word
  <2>1. Valid * (q + 1) = Valid * q + Valid
    BY <1>1
  <2>2. Valid * (q + 1) <= Valid * w
    BY <1>1, <1>2, <1>3, Z3
  <2> QED
    BY <1>2, <2>1, <2>2
<1>5. now % Valid = (real + d) % Valid
  <2>1. real + d \in 0..(2 * Word - 1) /\ real + d \in Int
    BY <1>4, <1>1
  <2>2. CASE real + d \in 0..(Word - 1)
    BY <2>1, <2>2, ModOnce
  <2>3. CASE real + d \in Word..(2 * Word - 1)
    <3>1. now = real + d - Word /\ now \in Int
      BY <2>1, <2>3, ModOnce
    <3> DEFINE p == now \div Valid  s == now % Valid
    <3>2. p \in Int /\ s \in 0..(Valid - 1) /\ now = Valid * p + s
      BY <3>1, DivMod
    <3> HIDE DEF now, p, s
    <3>3. Valid * (p + w) = Valid * p + Valid * w
      BY <1>2, <3>2
    <3>4. real + d = Valid * (p + w) + s /\ p + w \in Int
      BY <1>2, <2>1, <3>1, <3>2, <3>3
    <3>5. (real + d) % Valid = s
      BY <2>1, <3>2, <3>4, ModUnique
    <3> QED
      BY <3>5 DEF now, s
  <2> QED
    BY <2>1, <2>2, <2>3
<1>6. CASE r + d < Valid
  <2>1. real + d = Valid * q + (r + d) /\ r + d \in 0..(Valid - 1) /\ real + d \in Int
    BY <1>1, <1>6
  <2>2. (real + d) % Valid = r + d
    BY <1>1, <2>1, ModUnique
  <2>3. real + d \in 0..(Word - 1)
    BY <1>1, <1>4, <1>6, <2>1
  <2>4. now = real + d
    BY <2>1, <2>3, ModOnce
  <2>5. ((TimerLast \div Valid) * Valid) + (now % Valid) = real + d
    <3>1. (TimerLast \div Valid) * Valid = Valid * q
      BY <1>1 DEF q
    <3> QED
      BY <1>5, <2>1, <2>2, <3>1
  <2> QED
    BY <2>4, <2>5 DEF timer_adjust_bits
<1>7. CASE ~(r + d < Valid)
  <2>1. real + d = Valid * (q + 1) + (r + d - Valid) /\ r + d - Valid \in 0..(Valid - 1)
        /\ real + d \in Int
    BY <1>1, <1>4, <1>7
  <2>2. (real + d) % Valid = r + d - Valid
    <3>1. q + 1 \in Int
      BY <1>1
    <3> QED
      BY <2>1, <3>1, ModUnique
  <2>3. ((TimerLast \div Valid) * Valid) + (now % Valid) = real + d - Valid
    <3>1. (TimerLast \div Valid) * Valid = Valid * q
      BY <1>1 DEF q
    <3> QED
      BY <1>1, <1>4, <1>5, <2>1, <2>2, <3>1
  <2>4. real + d - Valid < TimerLast /\ real + d - Valid + Valid = real + d
    OBVIOUS
  <2> QED
    BY <2>3, <2>4 DEF timer_adjust_bits
<1> QED
  BY <1>1, <1>6, <1>7

LEMMA FineStep == FineKept /\ FineNext => FineKept'
<1> SUFFICES ASSUME FineKept, FineNext PROVE FineKept'
  OBVIOUS
<1> USE Sizes
<1>1. ASSUME NEW d \in 0..(Valid - 1), ReadTimer(d) PROVE FineKept'
  <2>1. real' = (real + d) % Word
    BY <1>1 DEF ReadTimer
  <2>2. real' \in 0..(Word - 1)
    <3>1. real + d \in Int
      BY DEF FineKept
    <3> QED
      BY <2>1, <3>1, DivMod
  <2>3. TimerLast' = real'
    BY <1>1, <2>1, AdjustRight DEF ReadTimer, timer_read, FineKept
  <2>4. Deadline(delay', real', Word)
    <3>1. delay' = IF delay.end = -1 \/ delay.due - d <= -(Word \div 2) THEN NoTimer
                   ELSE [delay EXCEPT !.due = @ - d]
      BY <1>1 DEF ReadTimer
    <3>2. Deadline(delay, real, Word) /\ real \in 0..(Word - 1) /\ d \in Nat
      BY DEF FineKept
    <3> QED
      BY <2>1, <3>1, <3>2, DeadlineNearer
  <2> QED
    BY <2>2, <2>3, <2>4 DEF FineKept
<1>2. ASSUME NEW units \in Delays, StartDelay(units) PROVE FineKept'
  <2>1. units \in Nat /\ units < Word \div 2 /\ -(Word \div 2) < units
    BY <1>2, ClockInputs, HalfTurn DEF StartDelay
  <2>2. timer_calc(units) = (real + units) % Word
    BY DEF timer_calc, FineKept
  <2>3. timer_calc(units) \in 0..(Word - 1)
    <3>1. real + units \in Int
      BY <2>1 DEF FineKept
    <3> QED
      BY <2>2, <3>1, DivMod
  <2>4. delay' = [end |-> timer_calc(units), due |-> units]
    BY <1>2 DEF StartDelay
  <2>5. Deadline(delay', real, Word)
    BY <2>1, <2>2, <2>3, <2>4 DEF Deadline
  <2> QED
    BY <1>2, <2>5 DEF StartDelay, FineKept
<1> QED
  BY <1>1, <1>2 DEF FineNext

-----------------------------------------------------------------------------

ClkInv == TicksKept /\ RtcKept /\ FineKept

LEMMA ClkInductive == ClkSpec => []ClkInv
<1> USE Sizes
<1>1. ClkInit => ClkInv
  <2> SUFFICES ASSUME ClkInit PROVE ClkInv
    OBVIOUS
  <2>1. 0 % Byte = 0
    BY ModOnce
  <2>2. TicksKept
    <3>1. on = FALSE /\ armed = NoTimer
      BY DEF ClkInit
    <3>2. on \in BOOLEAN
      BY <3>1
    <3>3. Deadline(armed, timer_counter, Day)
      BY <3>1 DEF Deadline
    <3>4. /\ timer_counter \in 0..(Day - 1) /\ start \in Times /\ days \in 0..(Byte - 1)
          /\ timer_rollover = 0 /\ midnightsTold = 0 /\ days = 0
      BY DEF ClkInit
    <3> QED
      BY <2>1, <3>1, <3>2, <3>3, <3>4 DEF TicksKept
  <2>3. RtcKept
    <3>1. preempt = FALSE /\ stale = FALSE
      BY DEF ClkInit
    <3>2. preempt \in BOOLEAN /\ stale \in BOOLEAN
      BY <3>1
    <3>3. ~preempt /\ wait = NoWait /\ RTCusers = 0 /\ "PIE" \notin statusB
      BY <3>1 DEF ClkInit
    <3> QED
      BY <3>2, <3>3, NoWaitType DEF RtcKept
  <2>4. FineKept
    BY DEF ClkInit, FineKept, Deadline
  <2> QED
    BY <2>2, <2>3, <2>4 DEF ClkInv
<1>2. ClkInv /\ [ClkNext]_clkVars => ClkInv'
  <2> SUFFICES ASSUME ClkInv, [ClkNext]_clkVars PROVE ClkInv'
    OBVIOUS
  <2>1. TicksKept'
    <3>1. CASE UNCHANGED tickVars
      BY <3>1 DEF ClkInv, TicksKept, Deadline
    <3> QED
      BY <3>1, TickStep DEF ClkInv, ClkNext, RtcNext, FineNext, clkVars
  <2>2. RtcKept'
    <3>1. CASE UNCHANGED rtcVars
      BY <3>1 DEF ClkInv, RtcKept
    <3> QED
      BY <3>1, RtcStep DEF ClkInv, ClkNext, TickNext, FineNext, clkVars, clock_setup,
         handle_08, handle_1a00, handle_1a01, ArmTimer
  <2>3. FineKept'
    <3>1. CASE UNCHANGED fineVars
      BY <3>1 DEF ClkInv, FineKept, Deadline
    <3> QED
      BY <3>1, FineStep DEF ClkInv, ClkNext, TickNext, RtcNext, clkVars, clock_setup,
         handle_08, handle_1a00, handle_1a01, ArmTimer
  <2> QED
    BY <2>1, <2>2, <2>3 DEF ClkInv
<1> QED
  BY <1>1, <1>2, PTL DEF ClkSpec

\* Clocks lose no midnight, deadlines in ticks and in units of the fine timer end when
\* they are due, over midnight and over the wrap of the counters, and the periodic
\* interrupt of the real time clock is on exactly as long as somebody uses it unless
\* INT 1Ah wrote an old status: for every size of the counters and of the day.
THEOREM ClocksKeepTime == ClkSpec => []TimeKept
<1> USE Sizes
<1>1. ClkInv => TimeKept
  <2> SUFFICES ASSUME ClkInv PROVE TimeKept
    OBVIOUS
  <2>1. armed # NoTimer => (irqtimer_check(armed.end) = (armed.due <= 0))
    <3> SUFFICES ASSUME armed # NoTimer PROVE irqtimer_check(armed.end) = (armed.due <= 0)
      OBVIOUS
    <3>1. PICK end \in 0..(Day - 1), due \in Int :
            /\ armed = [end |-> end, due |-> due]
            /\ -(Day \div 2) < due /\ due < Day \div 2
            /\ (timer_counter + due) % Day = end
      BY DEF ClkInv, TicksKept, Deadline
    <3>2. timer_counter \in 0..(Day - 1)
      BY DEF ClkInv, TicksKept
    <3>3. (timer_counter + Day - end) % Day = IF due <= 0 THEN -due ELSE Day - due
      BY <3>1, <3>2, Distance
    <3>4. Day \div 2 \in Nat /\ 2 * (Day \div 2) <= Day
      BY HalfTurn
    <3>5. ((timer_counter + Day - end) % Day < Day \div 2) <=> (due <= 0)
      BY <3>1, <3>3, <3>4
    <3>6. armed.end = end /\ armed.due = due
      BY <3>1
    <3> QED
      BY <3>5, <3>6 DEF irqtimer_check
  <2>2. delay # NoTimer => (timer_check(delay.end) = (delay.due < 0))
    <3> SUFFICES ASSUME delay # NoTimer PROVE timer_check(delay.end) = (delay.due < 0)
      OBVIOUS
    <3>1. PICK end \in 0..(Word - 1), due \in Int :
            /\ delay = [end |-> end, due |-> due]
            /\ -(Word \div 2) < due /\ due < Word \div 2
            /\ (real + due) % Word = end
      BY DEF ClkInv, FineKept, Deadline
    <3>2. real \in 0..(Word - 1) /\ TimerLast = real
      BY DEF ClkInv, FineKept
    <3>3. (real + Word - end) % Word = IF due <= 0 THEN -due ELSE Word - due
      BY <3>1, <3>2, Distance
    <3>4. Word \div 2 \in Nat /\ 2 * (Word \div 2) <= Word
      BY HalfTurn
    <3>5. ((TimerLast - end) + Word) % Word = IF due <= 0 THEN -due ELSE Word - due
      <4>1. (TimerLast - end) + Word = real + Word - end
        BY <3>2
      <4> QED
        BY <3>3, <4>1
    <3>6. delay.end = end /\ delay.due = due
      BY <3>1
    <3>7. timer_check(end) <=> due < 0
      BY <3>1, <3>4, <3>5 DEF timer_check
    <3> QED
      BY <3>6, <3>7 DEF timer_check
  <2> QED
    BY <2>1, <2>2 DEF ClkInv, TicksKept, RtcKept, FineKept, TimeKept
<1> QED
  BY <1>1, ClkInductive, PTL
=============================================================================
