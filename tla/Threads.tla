------------------------------ MODULE Threads ------------------------------
(***************************************************************************)
(* Threads, stacks and modes of the firmware (stacks.c, the order of       *)
(* maininit, the entry code of romlayout.S, the SMM trampoline, the start   *)
(* of the other processors).                                                *)
(*                                                                          *)
(* Hardware is set up by threads that give way to one another; only the     *)
(* main thread, whose stack lies below 1 MB, may enter 16 bit code: it       *)
(* lets interrupts in there, runs option roms and at last the boot sector.   *)
(* External code calls handlers that run on the extra stack, call 32 bit     *)
(* code and hop back to the caller's stack to let interrupts in.  `frames'   *)
(* is the main thread's chain of such calls, `cells' says which of them      *)
(* wrote each place of the extra stack last.                                 *)
(***************************************************************************)
EXTENDS Integers, Sequences, FiniteSets, SequencesExt

CONSTANTS
    Main,       \* the main thread
    Stacks,     \* thread stacks memalign_tmphigh finds room for
    Programs,   \* what each job does, step by step
    Devices,    \* the jobs device_hardware_setup starts
    Controls,   \* values of the file etc/threads
    Methods,    \* how 32 bit mode is entered: "BIG" or "SMM"
    Cpus,       \* the other processors
    MaxIrqs,    \* interrupts in a behaviour
    MaxCalls,   \* calls and changes of A20 external code makes
    MaxDepth    \* places of the extra stack

VARIABLES
    ring,       \* the threads in the order of their list, from the main thread
    cur,        \* the running thread
    work,       \* what each thread has left: jobs called one in another
    locked,     \* mutexes that are locked
    control, smm,
    canPreempt,
    frames, cells, StackPos,
    data,       \* Call16Data
    backup,     \* backup2 and backup_a20 of struct smm_layout
    env,        \* A20, segment registers and stack segment of the processor
    wanted,       \* A20 as external code left it
    irqs, calls,
    smpLock, smpAt

modeVars == <<frames, cells, StackPos, data, backup, env, wanted, irqs, calls>>
schedVars == <<ring, cur, work, locked, canPreempt>>
smpVars == <<smpLock, smpAt>>
thrVars == <<modeVars, schedVars, control, smm, smpVars>>

Step(op, arg) == [op |-> op, arg |-> arg]
\* maininit and device_hardware_setup; a yield ends each __callrom.
maininit == <<Step("smp", ""), Step("early", "devices"), Step("rom", ""), Step("yield", ""),
              Step("late", "devices"), Step("latewait", ""), Step("rom", ""), Step("yield", ""),
              Step("wait", ""), Step("boot", ""), Step("os", "")>>
device_hardware_setup == [i \in 1..Len(Devices) |-> Step("spawn", Devices[i])]
Program(job) == CASE job = "maininit" -> maininit
                  [] job = "devices" -> device_hardware_setup
                  [] OTHER -> Programs[job]

Calling(job) == [job |-> job, at |-> 1]
Top == frames[Len(frames)]
Job(t) == work[t][Len(work[t])]
Ended(t) == Job(t).at > Len(Program(Job(t).job))
Doing(t, op) == ~Ended(t) /\ Program(Job(t).job)[Job(t).at].op = op
Arg(t) == Program(Job(t).job)[Job(t).at].arg
Past(t) == [work[t] EXCEPT ![Len(work[t])].at = @ + 1]
Advance(t) == work' = [work EXCEPT ![t] = Past(t)]

Index(t) == CHOOSE i \in 1..Len(ring) : ring[i] = t
NextOf(t) == ring[(Index(t) % Len(ring)) + 1]
have_threads == Len(ring) > 1
threads_during_optionroms == control = 2 /\ ~Doing(Main, "os")

\* The environments: 32 bit mode, and what the next call16 starts from once it
\* is overridden.
Flat == [a20 |-> TRUE, segs |-> "flat", ss |-> "flat"]
call16_override(big) ==
    [method |-> IF big THEN "BIG" ELSE "NONE", a20 |-> TRUE, segs |-> "clean", ss |-> "zero"]
Frame(k, on, ss, for) == [k |-> k, on |-> on, ss |-> ss, for |-> for, pos |-> StackPos, method |-> "NONE", did |-> FALSE]

ThrInit ==
    /\ control \in Controls /\ smm \in {m = "SMM" : m \in Methods}
    /\ ring = <<Main>> /\ cur = Main
    /\ work = [t \in Stacks \union {Main} |-> IF t = Main THEN <<Calling("maininit")>> ELSE <<>>]
    /\ locked = {} /\ canPreempt = FALSE
    /\ frames = <<>> /\ cells = [p \in 1..MaxDepth |-> 0] /\ StackPos = 0
    /\ data = call16_override(TRUE) /\ backup = Flat /\ env = Flat /\ wanted = TRUE
    /\ irqs = MaxIrqs /\ calls = MaxCalls
    /\ smpLock = "main" /\ smpAt = [c \in Cpus |-> "started"]

---------------------------------------------------------------------------
(* 16 and 32 bit mode.                                                      *)

PushFrame(f) ==
    /\ frames' = Append(frames, f)
    /\ cells' = IF f.on > 0 THEN [cells EXCEPT ![f.on] = Len(frames) + 1] ELSE cells
Pop ==
    /\ frames' = IF Len(frames) = 1 THEN <<>> ELSE [Front(frames) EXCEPT ![Len(frames) - 1].did = TRUE]
    /\ cells' = IF Top.on > 0 THEN [cells EXCEPT ![Top.on] = 0] ELSE cells
\* The place of a frame pushed on the stack of the running code.
Here == IF frames # <<>> /\ Top.k \in {"entry", "call32", "call16"} /\ Top.on > 0 THEN Top.on + 1 ELSE 0

call32_prep(method) ==
    IF method = "SMM" THEN [data EXCEPT !.method = method, !.ss = env.ss]
    ELSE [method |-> method, a20 |-> env.a20, segs |-> env.segs, ss |-> env.ss]
call32_post(ss) == [a20 |-> env.a20 /\ data.a20, segs |-> data.segs, ss |-> ss]
Forgotten == [data EXCEPT !.method = "NONE", !.ss = "zero"]
\* The SMI handler entering 32 bit mode keeps the whole state of the processor.
handle_smi(method) == backup' = IF method = "SMM" THEN env ELSE backup

\* A handler calls a 32 bit function.
call32(run) ==
    LET method == IF smm THEN "SMM" ELSE "BIG" IN
    /\ PushFrame([Frame("call32", Here, env.ss, run) EXCEPT !.method = method])
    /\ data' = call32_prep(method) /\ handle_smi(method) /\ env' = Flat
    /\ UNCHANGED <<StackPos, wanted>>
call32_return ==
    /\ Top.k = "call32" /\ (Top.did \/ Top.for = "once")
    /\ env' = IF Top.method = "SMM" THEN backup ELSE call32_post(Top.ss)
    /\ data' = Forgotten /\ Pop
    /\ UNCHANGED <<StackPos, backup, wanted, irqs, calls, schedVars>>

\* 32 bit code of the main thread calls a 16 bit function, which runs in the
\* environment of the last call32.
call16(for) ==
    /\ PushFrame([Frame("call16", Here, data.ss, for) EXCEPT !.method = data.method])
    /\ env' = IF data.method = "SMM" THEN backup ELSE call32_post(data.ss)
    /\ data' = Forgotten
    /\ UNCHANGED <<StackPos, backup, wanted>>
call16_helper(method) == data' = call32_prep(method)
finish_preempt == canPreempt' = FALSE
\* check_irqs was called by yield, which goes on to the next thread.
call16_return ==
    /\ Top.k = "call16" /\ Top.did
    /\ call16_helper(Top.method) /\ handle_smi(Top.method) /\ env' = Flat /\ Pop
    /\ IF Top.for = "rom"
       THEN /\ finish_preempt /\ Advance(Main) /\ UNCHANGED cur
       ELSE cur' = NextOf(Main) /\ UNCHANGED <<canPreempt, work>>
    /\ UNCHANGED <<StackPos, wanted, irqs, calls, ring, locked>>

\* Switch to the stack of the caller the running handler was entered from.
HopTo(at) == StackPos' = at
hop_back(for) ==
    LET low == env.ss = "low"
        at == Top.on + 1
        old == cells[StackPos + 1]
    IN  /\ PushFrame(Frame("back", IF low THEN at ELSE 0, env.ss, for))
        /\ IF low THEN HopTo(at) ELSE UNCHANGED StackPos
        /\ env' = IF low /\ old # 0 THEN [env EXCEPT !.ss = frames[old].ss] ELSE env
        /\ UNCHANGED <<data, backup, wanted>>
hop_back_return ==
    /\ Top.k = "back" /\ (Top.for = "irqs" \/ Top.did)
    /\ env' = [env EXCEPT !.ss = Top.ss] /\ StackPos' = Top.pos /\ Pop
    /\ UNCHANGED <<data, backup, wanted, irqs, calls, schedVars>>

\* Interrupts are let in: by external code, and by check_irqs.
Open == \/ Top.k = "guest"
        \/ Top.k = "back" /\ Top.for = "irqs"
\* The entry code puts the caller's stack and registers at StackPos; the entry
\* points of PMM and PnP stay on the caller's stack.
irqentry_extrastack(kind) ==
    /\ PushFrame(Frame("entry", IF kind = "pmm" THEN 0 ELSE StackPos + 1, env.ss, kind))
    /\ env' = IF kind = "pmm" THEN env ELSE [env EXCEPT !.ss = "low"]
    /\ UNCHANGED <<StackPos, data, backup, wanted, schedVars>>
Irq(kind) ==
    /\ Open /\ irqs > 0 /\ irqs' = irqs - 1 /\ irqentry_extrastack(kind) /\ UNCHANGED calls
SoftInt(kind) ==
    /\ Top.k = "guest" /\ calls > 0 /\ calls' = calls - 1 /\ irqentry_extrastack(kind) /\ UNCHANGED irqs
entry_return ==
    /\ Top.k = "entry" /\ (Top.did \/ (Top.for = "rtc" /\ ~(canPreempt /\ have_threads)))
    /\ env' = [env EXCEPT !.ss = Top.ss] /\ Pop
    /\ UNCHANGED <<StackPos, data, backup, wanted, irqs, calls, schedVars>>

\* handle_08 chains to INT 1Ch, handle_70 looks for threads, a disk request or
\* a PMM call goes to 32 bit code, a wait lets interrupts in.
Handler ==
    /\ Top.k = "entry" /\ ~Top.did
    /\ \/ Top.for = "tick" /\ hop_back("user")
       \/ Top.for = "rtc" /\ canPreempt /\ have_threads /\ call32("preempt")
       \/ Top.for = "disk" /\ call32("op")
       \/ Top.for = "pmm" /\ call32("once")
       \/ Top.for = "sleep" /\ hop_back("irqs")
    /\ UNCHANGED <<irqs, calls, schedVars>>
\* check_irqs of 32 bit code, once in 16 bit mode.
check_irqs ==
    /\ Top.k = "call16" /\ Top.for = "irqs" /\ ~Top.did
    /\ hop_back("irqs") /\ UNCHANGED <<irqs, calls, schedVars>>
\* 32 bit code of a handler gives way: to interrupts and threads, or, called by
\* the interrupt of the clock, to threads alone.
yield_in_handler ==
    /\ Top.k = "call32" /\ ~Top.did /\ Top.for # "once"
    /\ IF Top.for = "preempt"
       THEN /\ cur' = NextOf(Main) /\ frames' = [frames EXCEPT ![Len(frames)].did = TRUE]
            /\ UNCHANGED <<cells, StackPos, data, backup, env, wanted>>
       ELSE call16("irqs") /\ UNCHANGED cur
    /\ UNCHANGED <<irqs, calls, ring, work, locked, canPreempt>>

\* External code: a handler of INT 1Ch, a rom or the system that was started.
_farcall16 ==
    /\ Top.k \in {"back", "call16"} /\ Top.for \in {"user", "rom", "os"} /\ ~Top.did
    /\ PushFrame(Frame("guest", 0, env.ss, Top.for))
    /\ env' = IF Top.k = "back" THEN env ELSE [env EXCEPT !.segs = "guest"]
    /\ UNCHANGED <<StackPos, data, backup, wanted, irqs, calls, schedVars>>
Guest ==
    /\ Top.k = "guest"
    /\ \/ /\ calls > 0 /\ calls' = calls - 1 /\ wanted' = ~wanted /\ env' = [env EXCEPT !.a20 = wanted']
          /\ UNCHANGED <<frames, cells>>
       \/ /\ env.ss = "zero" /\ env' = [env EXCEPT !.ss = "own"]
          /\ UNCHANGED <<frames, cells, wanted, calls>>
       \/ /\ Top.for # "os" /\ env' = [env EXCEPT !.ss = Top.ss] /\ Pop /\ UNCHANGED <<wanted, calls>>
    /\ UNCHANGED <<StackPos, data, backup, irqs, schedVars>>

ModeStep ==
    /\ cur = Main /\ frames # <<>>
    /\ \/ call32_return \/ call16_return \/ hop_back_return \/ entry_return
       \/ Handler \/ check_irqs \/ yield_in_handler \/ _farcall16 \/ Guest
       \/ \E kind \in {"tick", "rtc"} : Irq(kind)
       \/ \E kind \in {"disk", "sleep", "pmm"} : SoftInt(kind)
    /\ UNCHANGED <<control, smm, smpVars>>

---------------------------------------------------------------------------
(* Threads.                                                                 *)

\* Give way: the main thread lets interrupts in first.
yield(t) ==
    IF t = Main THEN call16("irqs") /\ UNCHANGED <<cur, irqs, calls>>
    ELSE cur' = NextOf(t) /\ UNCHANGED modeVars
Stays == UNCHANGED <<modeVars, cur>>

Unused == {s \in Stacks : work[s] = <<>>}
\* The new thread runs at once, after the current one in the list; without a
\* stack for it the job is simply called.
run_thread(t) ==
    /\ Doing(t, "spawn")
    /\ IF control # 0 /\ Unused # {}
       THEN LET s == CHOOSE x \in Unused : TRUE IN
            /\ ring' = InsertAt(ring, Index(t) + 1, s) /\ cur' = s
            /\ work' = [work EXCEPT ![t] = Past(t), ![s] = <<Calling(Arg(t))>>]
       ELSE work' = [work EXCEPT ![t] = Append(Past(t), Calling(Arg(t)))] /\ UNCHANGED <<ring, cur>>
    /\ UNCHANGED <<modeVars, locked, canPreempt, smpVars>>
\* The end of a job that was called, and of a thread: the next one is looked up
\* before the thread leaves the list.
job_return(t) ==
    /\ Ended(t) /\ Len(work[t]) > 1
    /\ work' = [work EXCEPT ![t] = Front(@)]
    /\ UNCHANGED <<modeVars, ring, cur, locked, canPreempt, smpVars>>
__end_thread(t) ==
    /\ Ended(t) /\ Len(work[t]) = 1
    /\ cur' = NextOf(t) /\ ring' = SelectSeq(ring, LAMBDA x : x # t) /\ work' = [work EXCEPT ![t] = <<>>]
    /\ UNCHANGED <<modeVars, locked, canPreempt, smpVars>>

\* Broken variant: the lock is looked at once.
mutex_lockOnce(t) ==
    /\ Doing(t, "lock") /\ Advance(t)
    /\ IF Arg(t) \in locked THEN yield(t) ELSE Stays
    /\ locked' = locked \union {Arg(t)} /\ UNCHANGED <<ring, canPreempt, smpVars>>
mutex_lock(t) ==
    /\ Doing(t, "lock")
    /\ IF Arg(t) \in locked THEN yield(t) /\ UNCHANGED <<work, locked>>
       ELSE Advance(t) /\ locked' = locked \union {Arg(t)} /\ Stays
    /\ UNCHANGED <<ring, canPreempt, smpVars>>
mutex_unlock(t) ==
    /\ Doing(t, "unlock") /\ Advance(t) /\ locked' = locked \ {Arg(t)} /\ Stays
    /\ UNCHANGED <<ring, canPreempt, smpVars>>
yield_step(t) ==
    /\ Doing(t, "yield") /\ Advance(t) /\ yield(t) /\ UNCHANGED <<ring, locked, canPreempt, smpVars>>
\* A thread that is about to touch PCI devices lets an option rom end first.
wait_preempt(t) ==
    /\ Doing(t, "preempt")
    /\ IF t # Main /\ canPreempt THEN yield(t) /\ UNCHANGED work ELSE Advance(t) /\ Stays
    /\ UNCHANGED <<ring, locked, canPreempt, smpVars>>
pci_access(t) ==
    /\ Doing(t, "pci") /\ Advance(t) /\ Stays /\ UNCHANGED <<ring, locked, canPreempt, smpVars>>

WaitsFor == Doing(Main, "wait") \/ (Doing(Main, "latewait") /\ ~threads_during_optionroms)
wait_threads ==
    /\ Doing(Main, "wait") \/ Doing(Main, "latewait")
    /\ IF WaitsFor /\ have_threads THEN yield(Main) /\ UNCHANGED work ELSE Advance(Main) /\ Stays
    /\ UNCHANGED <<ring, locked, canPreempt, smpVars>>
start_devices ==
    /\ Doing(Main, "early") \/ Doing(Main, "late")
    /\ work' = [work EXCEPT ![Main] = IF Doing(Main, "early") = threads_during_optionroms
                                      THEN Append(Past(Main), Calling("devices")) ELSE Past(Main)]
    /\ UNCHANGED <<modeVars, ring, cur, locked, canPreempt, smpVars>>
\* __callrom with start_preempt and farcall16big; startBoot with farcall16 of the
\* boot sector, which is not returned from.
Far(for, big) ==
    /\ frames' = <<[Frame("call16", 0, "zero", for) EXCEPT !.method = call16_override(big).method]>>
    /\ env' = [a20 |-> TRUE, segs |-> "clean", ss |-> "zero"] /\ wanted' = TRUE
    /\ data' = [call16_override(big) EXCEPT !.method = "NONE"]
    /\ UNCHANGED <<cells, StackPos, backup, irqs, calls>>
__callrom ==
    /\ Doing(Main, "rom") /\ canPreempt' = threads_during_optionroms /\ Far("rom", TRUE)
    /\ UNCHANGED <<ring, cur, work, locked, smpVars>>
startBoot ==
    /\ Doing(Main, "boot") /\ Advance(Main) /\ Far("os", FALSE)
    /\ UNCHANGED <<ring, cur, locked, canPreempt, smpVars>>

\* The other processors take turns on the stack the first one lends them until
\* all of them are counted.
Counted == {c \in Cpus : smpAt[c] = "halted"}
entry_smp(c) ==
    /\ smpAt[c] = "started" /\ smpLock = "free"
    /\ smpLock' = "cpu" /\ smpAt' = [smpAt EXCEPT ![c] = "runs"]
\* Broken variant: a processor that is counted halts with the lock.
handle_smpHolds(c) ==
    /\ smpAt[c] = "runs" /\ UNCHANGED smpLock /\ smpAt' = [smpAt EXCEPT ![c] = "halted"]
handle_smp(c) ==
    /\ smpAt[c] = "runs" /\ smpLock' = "free" /\ smpAt' = [smpAt EXCEPT ![c] = "halted"]
smp_scan ==
    /\ Doing(Main, "smp")
    /\ \/ smpLock = "main" /\ Counted # Cpus /\ smpLock' = "free" /\ UNCHANGED work
       \/ smpLock = "free" /\ smpLock' = "main" /\ UNCHANGED work
       \/ smpLock = "main" /\ Counted = Cpus /\ Advance(Main) /\ UNCHANGED smpLock
    /\ UNCHANGED <<modeVars, ring, cur, locked, canPreempt, smpAt>>
Cpu(c) == Doing(Main, "smp") /\ (entry_smp(c) \/ handle_smp(c)) /\ UNCHANGED <<modeVars, schedVars, control, smm>>

ThreadStep ==
    /\ cur # Main \/ frames = <<>>
    /\ \/ run_thread(cur) \/ job_return(cur) \/ __end_thread(cur)
       \/ mutex_lock(cur) \/ mutex_unlock(cur) \/ yield_step(cur) \/ wait_preempt(cur) \/ pci_access(cur)
       \/ cur = Main /\ (wait_threads \/ start_devices \/ __callrom \/ startBoot
                        \/ smp_scan)
    /\ UNCHANGED <<control, smm>>
ThrNext == ModeStep \/ ThreadStep \/ \E c \in Cpus : Cpu(c)

---------------------------------------------------------------------------
(* Properties.                                                              *)

InGuest == cur = Main /\ frames # <<>> /\ Top.k = "guest"
Entries == {i \in 1..Len(frames) : frames[i].k = "entry" /\ frames[i].on > 0}
Highest(S) == CHOOSE i \in S : \A j \in S : j <= i

\* Nothing that waits on the extra stack is overwritten: a handler that lets
\* interrupts in keeps its place (stacks.c: __stack_hop_back; romlayout.S:
\* irqentry_extrastack).  External code finds A20 as it left it, its own segment
\* registers and, when a handler calls it, the stack the handler was entered
\* from, whatever handlers, 32 bit code and threads ran in between (call32_prep,
\* call32_post, call16_helper, handle_smi).
StacksKept ==
    /\ \A i \in 1..Len(frames) : frames[i].on > 0 => cells[frames[i].on] = i
    /\ frames = <<>> => StackPos = 0
    /\ frames # <<>> /\ Top.k \in {"entry", "call16"} => ((env.ss = "low") = (Top.on > 0))
    /\ InGuest => /\ env.a20 = wanted
                  /\ env.segs # "flat"
                  /\ (\E i \in 1..Len(frames) : frames[i].k = "guest" /\ frames[i].for # "user") => env.segs = "guest"
                  /\ (Top.for = "user" => env.ss \in {frames[Highest(Entries)].ss, "own"})

Within(w, l) ==
    \E i \in 1..Len(w) :
        LET p == Program(w[i].job) IN
        \E a \in 1..Len(p) : /\ p[a] = Step("lock", l) /\ a < w[i].at
                             /\ \A b \in a..(w[i].at - 1) : p[b] # Step("unlock", l)
\* One job at a time is between mutex_lock and mutex_unlock, whether it has a
\* thread of its own or was called; a thread touches PCI devices at no time an
\* option rom is in the middle of its work (stacks.c: wait_preempt); one
\* processor at a time is on the stack lent to the others (smp.c: SMPLock); and
\* the list holds the threads that have work, each once.
ThreadsApart ==
    /\ \A l \in locked : Cardinality({t \in DOMAIN work : Within(work[t], l)}) <= 1
    /\ \A t \in DOMAIN work, l \in {"reset", "hub"} : Within(work[t], l) => l \in locked
    /\ cur # Main /\ Doing(cur, "pci") => \A i \in 1..Len(frames) : frames[i].for # "rom"
    /\ Cardinality({c \in Cpus : smpAt[c] = "runs"}) + (IF smpLock = "main" THEN 1 ELSE 0) <= 1
    /\ ToSet(ring) = {Main} \union {t \in Stacks : work[t] # <<>>} /\ Len(ring) = Cardinality(ToSet(ring))
    /\ cur \in ToSet(ring)

\* Threads, handlers, external code and processors share the machine without
\* disturbing each other's stacks (StacksKept) or sections (ThreadsApart).
ThreadsSafe == StacksKept /\ ThreadsApart

\* The boot sector was started.
Booted == Doing(Main, "os")
=============================================================================
