-------------------------------- MODULE Proc --------------------------------
(***************************************************************************)
(* The process table of n7OS and its preemptive round-robin scheduler:     *)
(* kernel/proc.c, the context switch of kernel/ctx_sw.S, the timer         *)
(* interrupt of kernel/timer.c that drives it, the process system calls of *)
(* kernel/sys.c, and the boot thread of kernel/start.c that becomes the    *)
(* context of the idle slot.                                               *)
(*                                                                         *)
(* Atomicity.  All handlers are entered through interrupt gates (irq.h),   *)
(* so a system call or a timer interrupt runs with interrupts disabled up  *)
(* to the sti() of scheduler, which comes BEFORE ctx_sw.  A handler is     *)
(* therefore one step up to that sti, and ctx_sw is a step of its own that *)
(* a further timer interrupt may precede.                                  *)
(***************************************************************************)
EXTENDS Integers, Sequences

CONSTANTS
    MAX_PROC,       \* slots of procs_table (255 in the code)
    TickModulus,    \* number of values of timer_ticks (2^32 in the code)
    SchedPeriod,    \* ticks between two preemptions (100 in the code)
    Durations,      \* arguments processes pass to sleep
    Killable,       \* arguments processes pass to kill
    MallocFails,    \* whether malloc may return NULL to spawn_proc
    OpenWindows     \* the places, among Windows, where a preempting tick may land

Pids    == 1 .. MAX_PROC
IDLE    == 1                        \* the slot init_proc_table spawns "Idle" in
PROCESSUS1 == 2                     \* the first slot that "Idle" leaves free
Slots   == 0 .. MAX_PROC            \* 0: the memory just below procs_table
Windows == {"ctx_sw", "boot_spawn"}

ASSUME ProcAssumption ==
    /\ MAX_PROC \in Nat /\ MAX_PROC >= 2
    /\ TickModulus \in Nat /\ TickModulus >= 2
    /\ SchedPeriod \in Nat \ {0}
    /\ Durations \subseteq Int
    /\ Killable \subseteq Slots
    /\ MallocFails \in BOOLEAN
    /\ OpenWindows \subseteq Windows

(***************************************************************************)
(* Threads of execution.  A process is named by its slot; the boot thread  *)
(* and the idle() function share the idle slot without being the same      *)
(* code; Nobody is whatever runs from registers that describe no suspended *)
(* execution.                                                              *)
(***************************************************************************)
Boot    == MAX_PROC + 1
IdleFn  == MAX_PROC + 2
Nobody  == MAX_PROC + 3
Threads == Pids \cup {Boot, IdleFn, Nobody}

SlotOf(t) == IF t \in {Boot, IdleFn} THEN IDLE ELSE t

PROC_STATES == {"READY", "BLOCKED", "RUNNING", "TERMINATED"}

\* A stack is a block of malloc, which no other slot has, or NULL.
NULL  == "NULL"
BLOCK == "block"

(***************************************************************************)
(* A pending switch is a ctx_sw(from, to) that scheduler has announced in  *)
(* the table and not executed yet.  A context is what the five registers   *)
(* of a slot reach: a thread, and the switches still pending on its stack. *)
(* Once resumed, a thread leaves the stack frame its registers were saved  *)
(* in: the registers stay in the table and are Stale until the next save.  *)
(***************************************************************************)
Switches == [from : Slots, to : Pids]
Contexts == [thread : Threads, pending : Seq(Switches)]
Fresh(t) == [thread |-> t, pending |-> <<>>]
Stale    == Fresh(Nobody)

VARIABLES
    state,              \* procs_table[].state (slot 0: the word read for pid 0)
    sleeping_end_time,  \* procs_table[].sleeping_end_time
    stack,              \* procs_table[].stack: BLOCK or NULL
    regs,               \* procs_table[].regs, as the context they reach
    timer_ticks,        \* the unsigned tick counter
    cpu,                \* the thread the processor is executing
    pending,            \* switches pending on that thread's stack, innermost first
    boot                \* where kernel_start is: "start", "claimed", "returned"

vars == <<state, sleeping_end_time, stack, regs, timer_ticks, cpu, pending, boot>>

-----------------------------------------------------------------------------
(* The table's operators, each over the value of the state field.          *)

Having(st, s) == {p \in Pids : st[p] = s}

Least(S) == CHOOSE p \in S : \A q \in S : p <= q

get_pid(st) ==
    IF Having(st, "TERMINATED") = {} THEN 0 ELSE Least(Having(st, "TERMINATED"))

get_current_pid(st) ==
    IF Having(st, "RUNNING") = {} THEN 0 ELSE Least(Having(st, "RUNNING"))

\* Mutant: the outgoing process is left RUNNING.
stop_proc_Forgotten(st, pid) == st

\* With pid 0 the entry read and written is the one below the table.
stop_proc(st, pid) ==
    [st EXCEPT ![pid] = IF @ = "RUNNING" THEN "READY" ELSE @]

\* The conversion (int) of an unsigned tick value.
ToInt(t) == IF 2 * t < TickModulus THEN t ELSE t - TickModulus

\* Mutant: the wake-up time alone decides, not the state.
Due_AnyState(st, wake, now) == {p \in Pids : wake[p] # -1 /\ ToInt(now) >= wake[p]}

\* Mutant: a process is woken one tick too early.
Due_Early(st, wake, now) ==
    {p \in Pids : st[p] = "BLOCKED" /\ wake[p] # -1 /\ ToInt(now) + 1 >= wake[p]}

\* Mutant: strict comparison with the wake-up time.
Due_Strict(st, wake, now) ==
    {p \in Pids : st[p] = "BLOCKED" /\ wake[p] # -1 /\ ToInt(now) > wake[p]}

\* BLOCKED processes whose wake-up time is reached at tick now.
Due(st, wake, now) ==
    {p \in Pids : /\ st[p] = "BLOCKED"
                  /\ wake[p] # -1
                  /\ ToInt(now) >= wake[p]}

\* The table once scheduler has stopped pid and woken the sleepers that are due.
Awake(st, pid, wake, now) ==
    [p \in Slots |-> IF p \in Due(stop_proc(st, pid), wake, now) THEN "READY"
                     ELSE stop_proc(st, pid)[p]]

\* Mutant: the search starts at pid itself.
Turn_FromCurrent(pid, q) == (q - pid) % MAX_PROC

\* Number of the iteration in which the search that starts after pid visits q.
Turn(pid, q) == (q - 1 - pid) % MAX_PROC

\* Mutant: the idle slot takes its turn like the others.
Candidates_WithIdle(st) == Having(st, "READY")

Candidates(st) == Having(st, "READY") \ {IDLE}

\* Mutant: the search does not wrap around the end of the table.
Elect_NoWrap(st, pid) ==
    IF {q \in Candidates(st) : q > pid} = {} THEN IDLE
    ELSE Least({q \in Candidates(st) : q > pid})

Elect(st, pid) ==
    IF Candidates(st) = {} THEN IDLE
    ELSE CHOOSE q \in Candidates(st) :
            \A r \in Candidates(st) : Turn(pid, q) <= Turn(pid, r)

\* scheduler(pid) from its cli() to its sti(), the table being st and wake.  The
\* second stop_proc of its idle branch finds pid already stopped and is a no-op.
scheduler(pid, st, wake, now) ==
    LET awake == Awake(st, pid, wake, now)
        next  == Elect(awake, pid)
    IN  /\ state' = [awake EXCEPT ![next] = "RUNNING"]
        /\ sleeping_end_time' =
              [p \in Pids |-> IF p \in Due(stop_proc(st, pid), wake, now) THEN -1
                              ELSE wake[p]]
        /\ pending' = <<[from |-> pid, to |-> next]>> \o pending

\* What malloc of one stack may return.
malloc == IF MallocFails THEN {BLOCK, NULL} ELSE {BLOCK}

\* Contexts once a process has used its stack: all those without a block have the same one,
\* from address 0 on, where what the others have left is overwritten.
Trampled(contexts, st, p) ==
    LET sharing == IF st[p] = NULL THEN {q \in Pids \ {p} : st[q] = NULL} ELSE {}
    IN  [q \in Slots |-> IF q \in sharing THEN Stale ELSE contexts[q]]

\* The stack and the registers spawn_proc gives slot p, whatever malloc has returned.
Furnish(p) ==
    /\ \E block \in malloc : stack' = [stack EXCEPT ![p] = block]
    /\ regs' = [Trampled(regs, stack', p) EXCEPT ![p] = Fresh(p)]

-----------------------------------------------------------------------------
(* init_proc_table has run and init_timer has just unmasked the timer.  Of *)
(* the word below the table it matters only which tests it passes.         *)

Init ==
    /\ state \in {[p \in Slots |-> IF p = 0 THEN s
                                   ELSE IF p = IDLE THEN "RUNNING"
                                   ELSE "TERMINATED"] : s \in {"RUNNING", "TERMINATED"}}
    /\ sleeping_end_time = [p \in Pids |-> -1]
    /\ stack = [p \in Pids |-> IF p = IDLE THEN BLOCK ELSE NULL]
    /\ regs = [p \in Slots |-> IF p = IDLE THEN Fresh(IdleFn) ELSE Stale]
    /\ timer_ticks = 0
    /\ cpu = Boot
    /\ pending = <<>>
    /\ boot = "start"

-----------------------------------------------------------------------------
(* System calls.  Any process that is not the boot thread or idle() may    *)
(* issue any of them whenever it executes its own code.                    *)

InUserCode == cpu \in Pids /\ pending = <<>>

\* fork: spawn_proc, whole, under the gate's disabled interrupts.
sys_fork ==
    /\ InUserCode
    /\ get_pid(state) # 0
    /\ state' = [state EXCEPT ![get_pid(state)] = "READY"]
    /\ Furnish(get_pid(state))
    /\ UNCHANGED <<sleeping_end_time, timer_ticks, cpu, pending, boot>>

terminate_proc(p) ==
    LET st == [state EXCEPT ![p] = "TERMINATED"]
    IN  /\ state[p] # "TERMINATED"
        /\ scheduler(get_current_pid(st), st, sleeping_end_time, timer_ticks)
        /\ UNCHANGED <<stack, regs, timer_ticks, cpu, boot>>

sys_exit ==
    /\ InUserCode
    /\ terminate_proc(get_current_pid(state))

sys_kill(p) ==
    /\ InUserCode
    /\ terminate_proc(p)

sys_sleep(d) ==
    LET pid == get_current_pid(state)
    IN  /\ InUserCode
        /\ state[pid] = "RUNNING"
        /\ scheduler(pid,
                     [state EXCEPT ![pid] = "BLOCKED"],
                     [sleeping_end_time EXCEPT
                         ![pid] = ToInt((timer_ticks + d) % TickModulus)],
                     timer_ticks)
        /\ UNCHANGED <<stack, regs, timer_ticks, cpu, boot>>

-----------------------------------------------------------------------------
(* The timer interrupt and the context switch.                             *)

\* The places, named in Windows, that the processor is at.
Exposed == {w \in Windows : \/ w = "ctx_sw" /\ pending # <<>>
                            \/ w = "boot_spawn" /\ cpu = Boot /\ boot = "claimed"}

NextTick == (timer_ticks + 1) % TickModulus

\* A tick that only counts.
timer_tick ==
    /\ NextTick % SchedPeriod # 0
    /\ timer_ticks' = NextTick
    /\ UNCHANGED <<state, sleeping_end_time, stack, regs, cpu, pending, boot>>

\* A tick that preempts.
timer_preempt ==
    /\ NextTick % SchedPeriod = 0
    /\ Exposed \subseteq OpenWindows
    /\ timer_ticks' = NextTick
    /\ scheduler(get_current_pid(state), state, sleeping_end_time, NextTick)
    /\ UNCHANGED <<stack, regs, cpu, boot>>

\* Mutant: the new context is loaded and the old one not saved.
ctx_sw_Unsaved ==
    /\ pending # <<>>
    /\ LET to == Head(pending).to
       IN  /\ cpu' = regs[to].thread
           /\ pending' = regs[to].pending
           /\ regs' = [regs EXCEPT ![to] = Stale]
    /\ UNCHANGED <<state, sleeping_end_time, stack, timer_ticks, boot>>

\* Saves the processor's context in one slot, loads that of the other.
ctx_sw ==
    /\ pending # <<>>
    /\ LET from  == Head(pending).from
           to    == Head(pending).to
           saved == [regs EXCEPT ![from] = [thread |-> cpu, pending |-> Tail(pending)]]
       IN  /\ regs' = Trampled([saved EXCEPT ![to] = Stale], stack, to)
           /\ cpu' = saved[to].thread
           /\ pending' = saved[to].pending
    /\ UNCHANGED <<state, sleeping_end_time, stack, timer_ticks, boot>>

-----------------------------------------------------------------------------
(* kernel_start spawns "Processus1" by a plain call, interrupts enabled:   *)
(* the slot is READY before it has a stack and registers.                  *)

BootRuns == cpu = Boot /\ pending = <<>>

boot_claim ==
    /\ BootRuns
    /\ boot = "start"
    /\ state' = [state EXCEPT ![get_pid(state)] = "READY"]
    /\ boot' = "claimed"
    /\ UNCHANGED <<sleeping_end_time, stack, regs, timer_ticks, cpu, pending>>

boot_furnish ==
    /\ BootRuns
    /\ boot = "claimed"
    /\ Furnish(PROCESSUS1)
    /\ boot' = "returned"
    /\ UNCHANGED <<state, sleeping_end_time, timer_ticks, cpu, pending>>

-----------------------------------------------------------------------------

Next ==
    \/ sys_fork
    \/ sys_exit
    \/ \E p \in Killable : sys_kill(p)
    \/ \E d \in Durations : sys_sleep(d)
    \/ timer_tick
    \/ timer_preempt
    \/ ctx_sw
    \/ boot_claim
    \/ boot_furnish

Spec == Init /\ [][Next]_vars

(***************************************************************************)
(* Fairness.  Straight-line kernel code goes on (ctx_sw, kernel_start).    *)
(* The interval timer raises its request 1000 times a second whatever the  *)
(* processor does, and the interrupt controller holds it until interrupts  *)
(* are enabled: a process cannot dodge it for ever by entering the kernel  *)
(* again and again, hence strong fairness.  Processes promise nothing.     *)
(***************************************************************************)
Fairness ==
    /\ WF_vars(ctx_sw)
    /\ WF_vars(boot_claim \/ boot_furnish)
    /\ SF_vars(timer_tick)
    /\ SF_vars(timer_preempt)

FairSpec == Spec /\ Fairness

-----------------------------------------------------------------------------
(* Properties.                                                             *)

\* Every variable has a value of its type, whatever windows are open.
TypeOK ==
    /\ state \in [Slots -> PROC_STATES]
    /\ sleeping_end_time \in [Pids -> Int]
    /\ stack \in [Pids -> {BLOCK, NULL}]
    /\ regs \in [Slots -> Contexts]
    /\ timer_ticks \in 0 .. TickModulus - 1
    /\ cpu \in Threads
    /\ pending \in Seq(Switches)
    /\ boot \in {"start", "claimed", "returned"}

\* Processes that are neither free slots nor still being spawned by kernel_start.
Live == {p \in Pids : /\ state[p] # "TERMINATED"
                      /\ ~ (boot = "claimed" /\ p = PROCESSUS1)}

\* The slot the processor belongs to, once the pending switches are done.
Owner == IF pending = <<>> THEN SlotOf(cpu) ELSE Head(pending).to

\* The table tells who is running: exactly one slot is RUNNING, and it is that of
\* the code the processor executes, or is about to switch to.  get_current_pid, and
\* with it sleep, exit, getpid and every preemption, relies on it.
RunningIsOnCpu == \A p \in Pids : state[p] = "RUNNING" <=> p = Owner

\* A process that the scheduler may elect later resumes its own execution, and only
\* that: the registers in its slot are those of its own code at the place where it was
\* last suspended, outside any unfinished switch.
ContextsOwned ==
    \A p \in Live \ {SlotOf(cpu)} :
        SlotOf(regs[p].thread) = p /\ regs[p].pending = <<>>

\* A process that was spawned has a stack of its own, unless malloc has failed.
SpawnedHaveStacks == \A p \in Live : stack[p] # NULL

\* Why they hold when no window is open, nothing kills idle and malloc does not fail: one
\* switch at most is pending, it saves the processor's own slot (or, after an exit,
\* nobody's), and the boot thread spawns its process undisturbed.
ProcInv ==
    /\ TypeOK
    /\ RunningIsOnCpu
    /\ ContextsOwned
    /\ SpawnedHaveStacks
    /\ cpu \notin {IDLE, Nobody}
    /\ \A p \in Live \ {SlotOf(cpu)} : regs[p].thread # IDLE
    /\ Len(pending) <= 1
    /\ pending # <<>> => Head(pending).from \in
          IF state[SlotOf(cpu)] = "TERMINATED" THEN {0} ELSE {SlotOf(cpu)}
    /\ state[IDLE] # "TERMINATED"
    /\ boot = "start" => /\ cpu = Boot
                         /\ \A p \in Pids \ {IDLE} : state[p] = "TERMINATED"
    /\ boot = "claimed" => cpu = Boot /\ pending = <<>> /\ state[PROCESSUS1] = "READY"

\* Electing: the step announces a switch.
Electing == Len(pending') = Len(pending) + 1

\* Work conservation: the idle slot gets the processor only if no other process is
\* ready and no sleeper's time is up at that instant.
IdleOnlyWithoutWork ==
    [][Electing /\ Head(pending').to = IDLE
        => /\ Candidates(state') = {}
           /\ Due(state', sleeping_end_time', timer_ticks') = {}]_vars

\* A terminated process does not come back: its slot is left alone until a spawn
\* takes it for a new process, READY.
TerminatedStaysDead ==
    [][\A p \in Pids :
         state[p] = "TERMINATED" /\ state'[p] # "TERMINATED"
            => p = get_pid(state) /\ ~ Electing]_vars

\* proc.c implements the abstract process manager: seen from the processor and the
\* saved contexts (Owner) and not from the table's RUNNING entry, every system call and
\* preemption is one of its steps, and a context switch changes nothing.
M == INSTANCE Multitask WITH
         Procs  <- Pids,
         Idle   <- IDLE,
         owner  <- Owner,
         ready  <- Having(state, "READY"),
         asleep <- Having(state, "BLOCKED")

ImplementsMultitask == M!MSpec

\* No process waits for ever: under fair scheduling every READY process eventually
\* leaves that state, unless processes are spawned without end.  (Each exit restarts
\* the search at the first slot, so an endless supply of exits starves the others.)
StarvationFree ==
    \/ []<><<sys_fork>>_vars
    \/ \A p \in Pids \ {IDLE} : state[p] = "READY" ~> state[p] # "READY"
=============================================================================
