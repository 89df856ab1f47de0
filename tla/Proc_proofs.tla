----------------------------- MODULE Proc_proofs ----------------------------
(***************************************************************************)
(* Theorems about Proc, for every size of the table, tick width, period    *)
(* and duration: its inductive invariant and what it promises; that it     *)
(* implements the abstract process manager of Multitask, and what its      *)
(* steps never do; and what ProcSleep and ProcTurns observe of it, how     *)
(* long sleeps last and in which order processes are elected.              *)
(***************************************************************************)
EXTENDS ProcSleep, ProcTurns, Recursion_proofs

(***************************************************************************)
(* Minima.  The table's searches are CHOOSEs of a least element.           *)
(***************************************************************************)

\* What Least chooses is in the set and below its other elements.
LEMMA LeastProperty ==
  ASSUME NEW S \in SUBSET Nat, S # {}
  PROVE  Least(S) \in S /\ \A y \in S : Least(S) <= y
<1>1. \E x \in S : \A y \in S : x <= y
  BY LeastExists
<1> QED BY <1>1 DEF Least

\* A table's non-empty set of slots has a member of least turn.
LEMMA FirstTurnExists ==
  ASSUME NEW S \in SUBSET Pids, S # {}, NEW pid \in Slots
  PROVE  \E q \in S : \A r \in S : Turn(pid, q) <= Turn(pid, r)
<1>1. \A q \in S : Turn(pid, q) \in Nat
  BY ProcAssumption DEF Turn, Pids, Slots
<1>2. {Turn(pid, q) : q \in S} \in SUBSET Nat /\ {Turn(pid, q) : q \in S} # {}
  BY <1>1
<1>3. PICK x \in {Turn(pid, q) : q \in S} : \A y \in {Turn(pid, q) : q \in S} : x <= y
  BY <1>2, LeastExists
<1> QED BY <1>3

(***************************************************************************)
(* The operators of the table.                                             *)
(***************************************************************************)

Tables == [Slots -> PROC_STATES]

\* get_current_pid finds the slot that is RUNNING, or 0.
LEMMA CurrentPid ==
  ASSUME NEW st \in Tables
  PROVE  /\ get_current_pid(st) \in Slots
         /\ Having(st, "RUNNING") # {} => get_current_pid(st) \in Having(st, "RUNNING")
         /\ Having(st, "RUNNING") = {} => get_current_pid(st) = 0
<1>1. Having(st, "RUNNING") \in SUBSET Nat /\ Having(st, "RUNNING") \in SUBSET Slots
  BY ProcAssumption DEF Having, Pids, Slots
<1>2. 0 \in Slots
  BY ProcAssumption DEF Slots
<1>3. CASE Having(st, "RUNNING") = {}
  BY <1>2, <1>3 DEF get_current_pid
<1>4. CASE Having(st, "RUNNING") # {}
  BY <1>1, <1>4, LeastProperty DEF get_current_pid
<1> QED BY <1>3, <1>4

\* get_pid finds a free slot, or 0.
LEMMA FreePid ==
  ASSUME NEW st \in Tables, get_pid(st) # 0
  PROVE  get_pid(st) \in Pids /\ st[get_pid(st)] = "TERMINATED"
<1>1. Having(st, "TERMINATED") # {}
  BY DEF get_pid
<1>2. Having(st, "TERMINATED") \in SUBSET Nat
  BY ProcAssumption DEF Having, Pids
<1>3. get_pid(st) \in Having(st, "TERMINATED")
  BY <1>1, <1>2, LeastProperty DEF get_pid
<1> QED BY <1>3 DEF Having

\* The search elects a ready process, or idle if there is none.
LEMMA Elected ==
  ASSUME NEW st \in Tables, NEW pid \in Slots
  PROVE  /\ Elect(st, pid) \in Pids
         /\ Candidates(st) # {} => Elect(st, pid) \in Candidates(st)
         /\ Candidates(st) = {} => Elect(st, pid) = IDLE
<1>1. Candidates(st) \in SUBSET Pids
  BY DEF Candidates, Having
<1>2. IDLE \in Pids
  BY ProcAssumption DEF IDLE, Pids
<1>3. CASE Candidates(st) = {}
  BY <1>2, <1>3 DEF Elect
<1>4. CASE Candidates(st) # {}
  <2>1. \E q \in Candidates(st) : \A r \in Candidates(st) : Turn(pid, q) <= Turn(pid, r)
    BY <1>1, <1>4, FirstTurnExists
  <2>2. Elect(st, pid) \in Candidates(st)
    BY <1>4, <2>1 DEF Elect
  <2> QED BY <1>1, <1>4, <2>2
<1> QED BY <1>3, <1>4

\* Stopping a process and waking the sleepers that are due give a table; the slots that
\* change in it are pid, from RUNNING to READY, and sleepers, from BLOCKED to READY.
LEMMA AwakeTable ==
  ASSUME NEW st \in Tables, NEW pid \in Slots, NEW wake, NEW now
  PROVE  /\ stop_proc(st, pid) \in Tables
         /\ Awake(st, pid, wake, now) \in Tables
         /\ \A p \in Slots :
               \/ Awake(st, pid, wake, now)[p] = st[p] /\ ~ (p = pid /\ st[p] = "RUNNING")
               \/ /\ Awake(st, pid, wake, now)[p] = "READY"
                  /\ st[p] = "BLOCKED" \/ (p = pid /\ st[p] = "RUNNING")
<1> DEFINE stopped == stop_proc(st, pid)
<1> DEFINE due == Due(stopped, wake, now)
<1>1. stopped \in Tables /\ \A p \in Slots :
         stopped[p] = IF p = pid /\ st[p] = "RUNNING" THEN "READY" ELSE st[p]
  BY DEF Tables, PROC_STATES, stop_proc
<1>2. \A p \in due : stopped[p] = "BLOCKED"
  BY DEF Due
<1> HIDE DEF stopped, due
<1>3. Awake(st, pid, wake, now) = [p \in Slots |-> IF p \in due THEN "READY" ELSE stopped[p]]
  BY DEF Awake, due, stopped
<1>4. Awake(st, pid, wake, now) \in Tables
  BY <1>1, <1>3 DEF Tables, PROC_STATES
<1>5. ASSUME NEW p \in Slots
      PROVE  \/ Awake(st, pid, wake, now)[p] = st[p] /\ ~ (p = pid /\ st[p] = "RUNNING")
             \/ /\ Awake(st, pid, wake, now)[p] = "READY"
                /\ st[p] = "BLOCKED" \/ (p = pid /\ st[p] = "RUNNING")
  <2>1. CASE p \in due
    BY <1>1, <1>2, <1>3, <2>1
  <2>2. CASE p \notin due
    BY <1>1, <1>3, <2>2
  <2> QED BY <2>1, <2>2
<1> QED BY <1>1, <1>4, <1>5 DEF stopped

(***************************************************************************)
(* Type correctness.                                                       *)
(***************************************************************************)

\* scheduler leaves the variables it assigns in their types.
LEMMA SchedulerType ==
  ASSUME NEW st \in Tables, NEW pid \in Slots, NEW wake \in [Pids -> Int], NEW now,
         pending \in Seq(Switches),
         scheduler(pid, st, wake, now)
  PROVE  /\ state' \in Tables
         /\ sleeping_end_time' \in [Pids -> Int]
         /\ pending' \in Seq(Switches)
<1> DEFINE awake == Awake(st, pid, wake, now)
<1> DEFINE next == Elect(awake, pid)
<1>1. awake \in Tables
  BY AwakeTable
<1>2. next \in Pids
  BY <1>1, Elected
<1> HIDE DEF awake, next
<1>3. /\ state' = [awake EXCEPT ![next] = "RUNNING"]
      /\ pending' = <<[from |-> pid, to |-> next]>> \o pending
  BY DEF scheduler, awake, next
<1>4. sleeping_end_time' \in [Pids -> Int]
  BY DEF scheduler
<1>5. state' \in Tables
  BY <1>1, <1>3 DEF Tables, PROC_STATES
<1>6. [from |-> pid, to |-> next] \in Switches
  BY <1>2 DEF Switches
<1>7. pending' \in Seq(Switches)
  BY <1>3, <1>6
<1> QED BY <1>4, <1>5, <1>7

LEMMA InitType == Init => TypeOK
<1> SUFFICES ASSUME Init PROVE TypeOK
  OBVIOUS
<1>1. state \in Tables
  BY DEF Init, Tables, PROC_STATES
<1>2. /\ sleeping_end_time \in [Pids -> Int]
      /\ stack \in [Pids -> {BLOCK, NULL}]
      /\ timer_ticks \in 0 .. TickModulus - 1
  BY ProcAssumption DEF Init
<1>3. /\ regs \in [Slots -> Contexts]
      /\ cpu \in Threads
      /\ pending \in Seq(Switches)
      /\ boot \in {"start", "claimed", "returned"}
  BY DEF Init, Contexts, Threads, Fresh, Stale
<1> QED BY <1>1, <1>2, <1>3 DEF TypeOK, Tables

\* Using a stack leaves contexts in the table, and touches none when the stack is a block.
LEMMA TrampledType ==
  ASSUME NEW contexts \in [Slots -> Contexts], NEW st, NEW p
  PROVE  /\ Trampled(contexts, st, p) \in [Slots -> Contexts]
         /\ st[p] # NULL => Trampled(contexts, st, p) = contexts
<1>1. Stale \in Contexts
  BY DEF Stale, Fresh, Contexts, Threads
<1> QED BY <1>1 DEF Trampled

\* A spawn gives its slot a stack and a context.
LEMMA FurnishType ==
  ASSUME TypeOK, NEW p \in Pids, Furnish(p)
  PROVE  /\ stack' \in [Pids -> {BLOCK, NULL}]
         /\ regs' \in [Slots -> Contexts]
<1>1. stack' \in [Pids -> {BLOCK, NULL}]
  BY DEF TypeOK, Furnish, malloc
<1>2. Fresh(p) \in Contexts
  BY DEF Fresh, Contexts, Threads
<1>3. Trampled(regs, stack', p) \in [Slots -> Contexts]
  BY TrampledType DEF TypeOK
<1> QED BY <1>1, <1>2, <1>3 DEF Furnish

\* When malloc does not fail, a spawn changes the stack and the context of its slot alone,
\* and gives it a block.
LEMMA FurnishBlock ==
  ASSUME TypeOK, ~ MallocFails, NEW p \in Pids, Furnish(p)
  PROVE  /\ regs' = [regs EXCEPT ![p] = Fresh(p)]
         /\ stack' = [stack EXCEPT ![p] = BLOCK]
<1>1. stack' = [stack EXCEPT ![p] = BLOCK]
  BY DEF Furnish, malloc
<1>2. stack'[p] # NULL
  BY <1>1 DEF TypeOK, BLOCK, NULL
<1>3. Trampled(regs, stack', p) = regs
  BY <1>2, TrampledType DEF TypeOK
<1> QED BY <1>1, <1>3 DEF Furnish

LEMMA NextType == TypeOK /\ [Next]_vars => TypeOK'
<1> SUFFICES ASSUME TypeOK, [Next]_vars PROVE TypeOK'
  OBVIOUS
<1> USE DEF TypeOK
<1>0. state \in Tables
  BY DEF Tables
<1>1. CASE sys_fork
  <2>1. get_pid(state) \in Pids
    BY <1>0, <1>1, FreePid DEF sys_fork
  <2>2. state' \in [Slots -> PROC_STATES]
    BY <1>1 DEF sys_fork, PROC_STATES
  <2>3. Furnish(get_pid(state))
    BY <1>1 DEF sys_fork
  <2> QED BY <1>1, <2>1, <2>2, <2>3, FurnishType DEF sys_fork
<1>2. ASSUME NEW p, terminate_proc(p) PROVE TypeOK'
  <2> DEFINE st == [state EXCEPT ![p] = "TERMINATED"]
  <2>1. st \in Tables
    BY <1>0 DEF Tables, PROC_STATES
  <2>2. get_current_pid(st) \in Slots
    BY <2>1, CurrentPid
  <2>3. scheduler(get_current_pid(st), st, sleeping_end_time, timer_ticks)
    BY <1>2 DEF terminate_proc
  <2>4. state' \in Tables /\ sleeping_end_time' \in [Pids -> Int] /\ pending' \in Seq(Switches)
    BY <2>1, <2>2, <2>3, SchedulerType
  <2> QED BY <1>2, <2>4 DEF terminate_proc, Tables
<1>3. CASE sys_exit
  BY <1>2, <1>3 DEF sys_exit
<1>4. CASE \E p \in Killable : sys_kill(p)
  BY <1>2, <1>4 DEF sys_kill
<1>5. ASSUME NEW d \in Durations, sys_sleep(d) PROVE TypeOK'
  <2> DEFINE pid == get_current_pid(state)
  <2> DEFINE st == [state EXCEPT ![pid] = "BLOCKED"]
  <2> DEFINE end == ToInt((timer_ticks + d) % TickModulus)
  <2> DEFINE wake == [sleeping_end_time EXCEPT ![pid] = end]
  <2>1. pid \in Slots
    BY <1>0, CurrentPid
  <2>2. st \in Tables
    BY <1>0 DEF Tables, PROC_STATES
  <2>3. end \in Int
    BY ProcAssumption DEF ToInt
  <2>4. wake \in [Pids -> Int]
    BY <2>3
  <2>5. scheduler(pid, st, wake, timer_ticks)
    BY <1>5 DEF sys_sleep
  <2> HIDE DEF pid, st, end, wake
  <2>6. state' \in Tables /\ sleeping_end_time' \in [Pids -> Int] /\ pending' \in Seq(Switches)
    BY <2>1, <2>2, <2>4, <2>5, SchedulerType
  <2> QED BY <1>5, <2>6 DEF sys_sleep, Tables
<1>6. NextTick \in 0 .. TickModulus - 1
  BY ProcAssumption DEF NextTick
<1>7. CASE timer_tick
  BY <1>6, <1>7 DEF timer_tick
<1>8. CASE timer_preempt
  <2>1. get_current_pid(state) \in Slots
    BY <1>0, CurrentPid
  <2>2. scheduler(get_current_pid(state), state, sleeping_end_time, NextTick)
    BY <1>8 DEF timer_preempt
  <2>3. state' \in Tables /\ sleeping_end_time' \in [Pids -> Int] /\ pending' \in Seq(Switches)
    BY <1>0, <2>1, <2>2, SchedulerType
  <2> QED BY <1>6, <1>8, <2>3 DEF timer_preempt, Tables
<1>9. CASE ctx_sw
  <2> DEFINE from == Head(pending).from
  <2> DEFINE to == Head(pending).to
  <2> DEFINE saved == [regs EXCEPT ![from] = [thread |-> cpu, pending |-> Tail(pending)]]
  <2>0. pending # <<>> /\ pending \in Seq(Switches)
    BY <1>9 DEF ctx_sw
  <2>1. from \in Slots /\ to \in Pids /\ Tail(pending) \in Seq(Switches)
    <3>1. Head(pending) \in Switches /\ Tail(pending) \in Seq(Switches)
      BY <2>0
    <3> QED BY <3>1 DEF Switches
  <2>2. saved \in [Slots -> Contexts]
    BY <2>1 DEF Contexts
  <2>3. to \in Slots
    BY <2>1, ProcAssumption DEF Pids, Slots
  <2>4. saved[to].thread \in Threads /\ saved[to].pending \in Seq(Switches)
    BY <2>2, <2>3 DEF Contexts
  <2>5. /\ regs' = Trampled([saved EXCEPT ![to] = Stale], stack, to)
        /\ cpu' = saved[to].thread /\ pending' = saved[to].pending
    BY <1>9 DEF ctx_sw
  <2>6. Stale \in Contexts
    BY DEF Stale, Fresh, Contexts, Threads
  <2> HIDE DEF saved
  <2>7. [saved EXCEPT ![to] = Stale] \in [Slots -> Contexts]
    BY <2>2, <2>6
  <2>8. regs' \in [Slots -> Contexts]
    BY <2>5, <2>7, TrampledType
  <2> QED BY <1>9, <2>4, <2>5, <2>8 DEF ctx_sw
<1>10. CASE boot_claim
  BY <1>10 DEF boot_claim, PROC_STATES
<1>11. CASE boot_furnish
  <2>1. PROCESSUS1 \in Pids
    BY ProcAssumption DEF PROCESSUS1, Pids
  <2>2. Furnish(PROCESSUS1)
    BY <1>11 DEF boot_furnish
  <2> QED BY <1>11, <2>1, <2>2, FurnishType DEF boot_furnish
<1>12. CASE UNCHANGED vars
  BY <1>12 DEF vars
<1> QED
  BY <1>1, <1>3, <1>4, <1>5, <1>7, <1>8, <1>9, <1>10, <1>11, <1>12 DEF Next

\* Every variable keeps its type, for every table size and whatever windows are open to
\* the timer: no search of the table leaves it, and no switch targets a slot outside it.
THEOREM TypeCorrect == Spec => []TypeOK
<1>1. Init => TypeOK
  BY InitType
<1>2. TypeOK /\ [Next]_vars => TypeOK'
  BY NextType
<1> QED BY <1>1, <1>2, PTL DEF Spec

(***************************************************************************)
(* The running process and the saved contexts, in closed windows.          *)
(***************************************************************************)

\* The timer finds no window open, no process kills the idle slot (terminal.c passes kill
\* whatever its user typed: the assumption is about the users), and the heap, 32 KB a
\* process, does not run out (spawn_proc does not test what malloc returns).
Sheltered == /\ OpenWindows = {}
             /\ Killable \subseteq Pids \ {IDLE}
             /\ ~ MallocFails

\* From a table where no slot but pid is RUNNING, scheduler announces one switch, from pid
\* to the only slot that is RUNNING afterwards, and no slot is taken or freed but idle's.
LEMMA SchedulerStep ==
  ASSUME NEW st \in Tables, NEW pid \in Slots, NEW wake, NEW now,
         pending = <<>>,
         \A p \in Pids : st[p] = "RUNNING" => p = pid,
         st[IDLE] # "TERMINATED",
         scheduler(pid, st, wake, now)
  PROVE  \E next \in Pids :
            /\ pending' = <<[from |-> pid, to |-> next]>>
            /\ \A p \in Pids : state'[p] = "RUNNING" <=> p = next
            /\ \A p \in Pids : state'[p] = "TERMINATED" <=> st[p] = "TERMINATED"
<1> DEFINE awake == Awake(st, pid, wake, now)
<1> DEFINE next == Elect(awake, pid)
<1>1. awake \in Tables
  BY AwakeTable
<1>2. /\ next \in Pids
      /\ Candidates(awake) # {} => next \in Candidates(awake)
      /\ Candidates(awake) = {} => next = IDLE
  BY <1>1, Elected
<1>3. /\ state' = [awake EXCEPT ![next] = "RUNNING"]
      /\ pending' = <<[from |-> pid, to |-> next]>> \o pending
  BY DEF scheduler
<1>4. \A p \in Slots :
         \/ awake[p] = st[p] /\ ~ (p = pid /\ st[p] = "RUNNING")
         \/ awake[p] = "READY" /\ (st[p] = "BLOCKED" \/ (p = pid /\ st[p] = "RUNNING"))
  BY AwakeTable
<1> HIDE DEF awake, next
<1>5. Pids \subseteq Slots
  BY ProcAssumption DEF Pids, Slots
<1>6. pending' = <<[from |-> pid, to |-> next]>>
  BY <1>3
<1>7. \A p \in Pids : state'[p] = IF p = next THEN "RUNNING" ELSE awake[p]
  BY <1>1, <1>3, <1>5 DEF Tables
<1>8. \A p \in Pids : awake[p] # "RUNNING"
  BY <1>4, <1>5
<1>9. \A p \in Pids : awake[p] = "TERMINATED" <=> st[p] = "TERMINATED"
  BY <1>4, <1>5
<1>10. awake[next] # "TERMINATED"
  <2>1. CASE Candidates(awake) = {}
    BY <1>2, <1>9, <2>1
  <2>2. CASE Candidates(awake) # {}
    BY <1>2, <2>2 DEF Candidates, Having
  <2> QED BY <2>1, <2>2
<1>11. \A p \in Pids : state'[p] = "RUNNING" <=> p = next
  BY <1>7, <1>8
<1>12. \A p \in Pids : state'[p] = "TERMINATED" <=> st[p] = "TERMINATED"
  BY <1>2, <1>7, <1>9, <1>10
<1> QED BY <1>2, <1>6, <1>11, <1>12

\* In a state of the invariant with no switch pending, get_current_pid finds the slot of
\* the code that calls it.
LEMMA CurrentIsOnCpu ==
  ASSUME TypeOK, RunningIsOnCpu, pending = <<>>, SlotOf(cpu) \in Pids
  PROVE  get_current_pid(state) = SlotOf(cpu) /\ state[SlotOf(cpu)] = "RUNNING"
<1>1. Having(state, "RUNNING") = {SlotOf(cpu)}
  BY DEF RunningIsOnCpu, Owner, Having
<1>2. state \in Tables
  BY DEF TypeOK, Tables
<1>3. get_current_pid(state) \in Having(state, "RUNNING")
  BY <1>1, <1>2, CurrentPid
<1> QED BY <1>1, <1>3 DEF Having

\* What the invariant owes a step of scheduler: a slot that keeps its place, or gives it
\* up, the saved contexts untouched.
LEMMA SwitchAnnounced ==
  ASSUME ProcInv, TypeOK', pending = <<>>, boot # "claimed",
         UNCHANGED <<stack, regs, cpu, boot>>,
         NEW st \in Tables, NEW pid \in Slots,
         \A p \in Pids : st[p] = "RUNNING" => p = pid,
         \A p \in Pids : state[p] = "TERMINATED" => st[p] = "TERMINATED",
         st[IDLE] # "TERMINATED",
         SlotOf(cpu) \in Pids,
         pid = IF st[SlotOf(cpu)] = "TERMINATED" THEN 0 ELSE SlotOf(cpu),
         NEW wake, NEW now,
         scheduler(pid, st, wake, now)
  PROVE  ProcInv'
<1>1. PICK next \in Pids :
         /\ pending' = <<[from |-> pid, to |-> next]>>
         /\ \A p \in Pids : state'[p] = "RUNNING" <=> p = next
         /\ \A p \in Pids : state'[p] = "TERMINATED" <=> st[p] = "TERMINATED"
  BY SchedulerStep DEF ProcInv
<1>2. /\ pending' # <<>> /\ Len(pending') = 1
      /\ Head(pending').from = pid /\ Head(pending').to = next
  BY <1>1
<1>3. RunningIsOnCpu'
  BY <1>1, <1>2 DEF RunningIsOnCpu, Owner
<1>4. Live' \subseteq Live
  BY <1>1 DEF Live
<1>5. ContextsOwned' /\ \A p \in Live' \ {SlotOf(cpu')} : regs'[p].thread # IDLE
  BY <1>4 DEF ProcInv, ContextsOwned, SlotOf
<1>6. IDLE \in Pids
  BY ProcAssumption DEF IDLE, Pids
<1>7. state'[IDLE] # "TERMINATED"
  BY <1>1, <1>6
<1>8. Head(pending').from \in IF state'[SlotOf(cpu')] = "TERMINATED" THEN {0} ELSE {SlotOf(cpu')}
  BY <1>1, <1>2 DEF SlotOf
<1>9. boot' = "start" => cpu' = Boot /\ \A p \in Pids \ {IDLE} : state'[p] = "TERMINATED"
  BY <1>1 DEF ProcInv
<1>10. SpawnedHaveStacks'
  BY <1>4 DEF ProcInv, SpawnedHaveStacks
<1> QED BY <1>2, <1>3, <1>5, <1>7, <1>8, <1>9, <1>10 DEF ProcInv

LEMMA InitInv == Init => ProcInv
<1> SUFFICES ASSUME Init PROVE ProcInv
  OBVIOUS
<1>1. TypeOK
  BY InitType
<1>2. IDLE \in Pids /\ Pids \subseteq Slots /\ 0 \notin Pids
  BY ProcAssumption DEF IDLE, Pids, Slots
<1>3. \A p \in Pids : state[p] = IF p = IDLE THEN "RUNNING" ELSE "TERMINATED"
  BY <1>2 DEF Init
<1>4. cpu = Boot /\ pending = <<>> /\ boot = "start"
  BY DEF Init
<1>5. SlotOf(cpu) = IDLE /\ cpu \notin {IDLE, Nobody}
  BY <1>4, ProcAssumption DEF SlotOf, Boot, Nobody, IDLE
<1>6. RunningIsOnCpu
  BY <1>3, <1>4, <1>5 DEF RunningIsOnCpu, Owner
<1>7. Live \ {SlotOf(cpu)} = {}
  BY <1>3, <1>5 DEF Live
<1>8. Len(pending) <= 1
  BY <1>4
<1>9. stack[IDLE] # NULL
  BY <1>2 DEF Init, BLOCK, NULL
<1>10. SpawnedHaveStacks
  BY <1>3, <1>9 DEF SpawnedHaveStacks, Live
<1> QED BY <1>1, <1>2, <1>3, <1>4, <1>5, <1>6, <1>7, <1>8, <1>10 DEF ProcInv, ContextsOwned

\* Everything ProcInv says but the types is preserved by a step that spawns into a slot,
\* sleeps, ends, preempts or switches; the types are NextType's.
LEMMA NextInv ==
  ASSUME Sheltered, ProcInv, [Next]_vars
  PROVE  ProcInv'
<1>0. TypeOK /\ TypeOK'
  BY NextType DEF ProcInv
<1>1. state \in Tables
  BY <1>0 DEF TypeOK, Tables
<1>2. IDLE \in Pids /\ Pids \subseteq Slots /\ 0 \notin Pids /\ PROCESSUS1 \in Pids /\ PROCESSUS1 # IDLE
  BY ProcAssumption DEF IDLE, PROCESSUS1, Pids, Slots
<1>3. /\ Boot \notin Pids /\ IdleFn \notin Pids /\ Nobody \notin Pids
      /\ Boot # IdleFn /\ Boot # Nobody /\ IdleFn # Nobody
  BY ProcAssumption DEF Boot, IdleFn, Nobody, Pids
<1>4. cpu \in (Pids \ {IDLE}) \cup {Boot, IdleFn} /\ SlotOf(cpu) \in Pids
  BY <1>0, <1>2, <1>3 DEF ProcInv, TypeOK, Threads, SlotOf
<1>5. InUserCode => /\ boot = "returned" /\ pending = <<>>
                    /\ cpu \in Pids \ {IDLE} /\ SlotOf(cpu) = cpu
  BY <1>0, <1>3, <1>4 DEF InUserCode, ProcInv, TypeOK, SlotOf
<1>6. CASE sys_fork
  <2> DEFINE new == get_pid(state)
  <2>1. new \in Pids /\ state[new] = "TERMINATED"
    BY <1>1, <1>6, FreePid DEF sys_fork
  <2>2. InUserCode /\ UNCHANGED <<cpu, pending, boot>>
    BY <1>6 DEF sys_fork
  <2>3. /\ state' = [state EXCEPT ![new] = "READY"]
        /\ regs' = [regs EXCEPT ![new] = Fresh(new)]
        /\ stack' = [stack EXCEPT ![new] = BLOCK]
    BY <1>0, <1>6, <2>1, FurnishBlock DEF sys_fork, Sheltered
  <2> HIDE DEF new
  <2>4. /\ \A p \in Pids : state'[p] = IF p = new THEN "READY" ELSE state[p]
        /\ \A p \in Pids : regs'[p] = IF p = new THEN Fresh(new) ELSE regs[p]
    BY <1>0, <1>2, <2>1, <2>3 DEF TypeOK
  <2>5. new # cpu /\ new # IDLE
    BY <1>5, <2>1, <2>2 DEF ProcInv, RunningIsOnCpu, Owner
  <2>6. RunningIsOnCpu'
    BY <2>1, <2>2, <2>4 DEF ProcInv, RunningIsOnCpu, Owner, SlotOf
  <2>7. Live' \subseteq Live \cup {new}
    BY <2>2, <2>4 DEF Live
  <2>8. SlotOf(Fresh(new).thread) = new /\ Fresh(new).pending = <<>> /\ Fresh(new).thread # IDLE
    BY <1>3, <2>1, <2>5 DEF Fresh, SlotOf
  <2>9. ContextsOwned' /\ \A p \in Live' \ {SlotOf(cpu')} : regs'[p].thread # IDLE
    BY <2>2, <2>4, <2>7, <2>8 DEF ProcInv, ContextsOwned, SlotOf, Live
  <2>10. SpawnedHaveStacks'
    BY <1>0, <2>1, <2>3, <2>7 DEF ProcInv, SpawnedHaveStacks, TypeOK, Live, BLOCK, NULL
  <2> QED BY <1>0, <1>2, <1>5, <2>2, <2>4, <2>5, <2>6, <2>9, <2>10 DEF ProcInv
<1>7. ASSUME NEW p \in Pids \ {IDLE}, InUserCode, terminate_proc(p) PROVE ProcInv'
  <2> DEFINE st == [state EXCEPT ![p] = "TERMINATED"]
  <2> DEFINE pid == get_current_pid(st)
  <2>1. st \in Tables
    BY <1>1 DEF Tables, PROC_STATES
  <2>2. \A q \in Pids : st[q] = IF q = p THEN "TERMINATED" ELSE state[q]
    BY <1>1, <1>2 DEF Tables
  <2>3. \A q \in Pids : state[q] = "RUNNING" <=> q = cpu
    BY <1>5, <1>7 DEF ProcInv, RunningIsOnCpu, Owner
  <2>4. scheduler(pid, st, sleeping_end_time, timer_ticks) /\ UNCHANGED <<stack, regs, cpu, boot>>
    BY <1>7 DEF terminate_proc
  <2> HIDE DEF st
  <2>5. pid = IF st[SlotOf(cpu)] = "TERMINATED" THEN 0 ELSE SlotOf(cpu)
    <3>1. CASE p = cpu
      <4>1. Having(st, "RUNNING") = {}
        BY <2>2, <2>3, <3>1 DEF Having
      <4> QED BY <1>5, <1>7, <2>1, <2>2, <3>1, <4>1, CurrentPid
    <3>2. CASE p # cpu
      <4>1. Having(st, "RUNNING") = {cpu}
        BY <1>5, <1>7, <2>2, <2>3, <3>2 DEF Having
      <4>2. pid = cpu /\ st[cpu] = "RUNNING"
        BY <2>1, <4>1, CurrentPid DEF Having
      <4> QED BY <1>5, <1>7, <4>2
    <3> QED BY <3>1, <3>2
  <2>6. pid \in Slots
    BY <2>1, CurrentPid
  <2> HIDE DEF pid
  <2>7. \A q \in Pids : st[q] = "RUNNING" => q = pid
    BY <1>5, <1>7, <2>2, <2>3, <2>5
  <2>8. st[IDLE] # "TERMINATED"
    BY <1>2, <2>2 DEF ProcInv
  <2>9. \A q \in Pids : state[q] = "TERMINATED" => st[q] = "TERMINATED"
    BY <2>2
  <2>10. pending = <<>> /\ boot # "claimed"
    BY <1>5, <1>7
  <2> QED BY <1>0, <1>4, <2>1, <2>4, <2>5, <2>6, <2>7, <2>8, <2>9, <2>10, SwitchAnnounced
<1>8. CASE sys_exit
  <2>1. InUserCode /\ terminate_proc(get_current_pid(state))
    BY <1>8 DEF sys_exit
  <2>2. get_current_pid(state) \in Pids \ {IDLE}
    BY <1>0, <1>4, <1>5, <2>1, CurrentIsOnCpu DEF ProcInv
  <2> QED BY <1>7, <2>1, <2>2
<1>9. CASE \E p \in Killable : sys_kill(p)
  BY <1>7, <1>9 DEF sys_kill, Sheltered
<1>10. ASSUME NEW d \in Durations, sys_sleep(d) PROVE ProcInv'
  <2> DEFINE pid == get_current_pid(state)
  <2> DEFINE st == [state EXCEPT ![pid] = "BLOCKED"]
  <2> DEFINE wake == [sleeping_end_time EXCEPT ![pid] = ToInt((timer_ticks + d) % TickModulus)]
  <2>1. InUserCode /\ scheduler(pid, st, wake, timer_ticks) /\ UNCHANGED <<stack, regs, cpu, boot>>
    BY <1>10 DEF sys_sleep
  <2>2. st \in Tables /\ pid \in Slots
    BY <1>1, CurrentPid DEF Tables, PROC_STATES
  <2>3. pid = SlotOf(cpu) /\ state[SlotOf(cpu)] = "RUNNING"
    BY <1>0, <1>4, <1>5, <2>1, CurrentIsOnCpu DEF ProcInv
  <2>4. \A q \in Pids : st[q] = IF q = pid THEN "BLOCKED" ELSE state[q]
    BY <1>1, <1>2 DEF Tables
  <2> HIDE DEF pid, st, wake
  <2>5. \A q \in Pids : st[q] = "RUNNING" => q = pid
    BY <1>5, <2>1, <2>3, <2>4 DEF ProcInv, RunningIsOnCpu, Owner
  <2>6. \A q \in Pids : state[q] = "TERMINATED" => st[q] = "TERMINATED"
    BY <1>4, <2>3, <2>4
  <2>7. st[IDLE] # "TERMINATED"
    BY <1>2, <2>4 DEF ProcInv
  <2>8. pid = IF st[SlotOf(cpu)] = "TERMINATED" THEN 0 ELSE SlotOf(cpu)
    BY <1>4, <2>3, <2>4
  <2>9. pending = <<>> /\ boot # "claimed"
    BY <1>5, <2>1
  <2> QED BY <1>0, <1>4, <2>1, <2>2, <2>5, <2>6, <2>7, <2>8, <2>9, SwitchAnnounced
<1>11. CASE timer_tick
  BY <1>0, <1>11 DEF timer_tick, ProcInv, RunningIsOnCpu, ContextsOwned, SpawnedHaveStacks,
     Live, Owner, SlotOf
<1>12. CASE timer_preempt
  <2> DEFINE pid == get_current_pid(state)
  <2>1. scheduler(pid, state, sleeping_end_time, NextTick) /\ UNCHANGED <<stack, regs, cpu, boot>>
    BY <1>12 DEF timer_preempt
  <2>2. Exposed = {}
    BY <1>12 DEF timer_preempt, Sheltered
  <2>3. pending = <<>> /\ boot # "claimed"
    BY <2>2 DEF Exposed, Windows, ProcInv
  <2>4. pid = SlotOf(cpu) /\ state[SlotOf(cpu)] = "RUNNING"
    BY <1>0, <1>4, <2>3, CurrentIsOnCpu DEF ProcInv
  <2>5. pid \in Slots
    BY <1>1, CurrentPid
  <2> HIDE DEF pid
  <2>6. \A q \in Pids : state[q] = "RUNNING" => q = pid
    BY <2>3, <2>4 DEF ProcInv, RunningIsOnCpu, Owner
  <2>7. state[IDLE] # "TERMINATED"
    BY DEF ProcInv
  <2>8. pid = IF state[SlotOf(cpu)] = "TERMINATED" THEN 0 ELSE SlotOf(cpu)
    BY <2>4
  <2> QED BY <1>0, <1>1, <1>4, <2>1, <2>3, <2>5, <2>6, <2>7, <2>8, SwitchAnnounced
<1>13. CASE ctx_sw
  <2> DEFINE from == Head(pending).from
  <2> DEFINE to == Head(pending).to
  <2> DEFINE saved == [regs EXCEPT ![from] = [thread |-> cpu, pending |-> Tail(pending)]]
  <2>1. /\ pending # <<>>
        /\ regs' = Trampled([saved EXCEPT ![to] = Stale], stack, to)
        /\ cpu' = saved[to].thread
        /\ pending' = saved[to].pending
        /\ UNCHANGED <<state, stack, boot>>
    BY <1>13 DEF ctx_sw
  <2>2. Head(pending) \in Switches /\ pending \in Seq(Switches)
    BY <1>0, <2>1 DEF TypeOK
  <2>3. from \in Slots /\ to \in Pids
    BY <2>2 DEF Switches
  <2>4. Tail(pending) = <<>>
    BY <2>1, <2>2 DEF ProcInv
  <2>5. \A p \in Pids : state[p] = "RUNNING" <=> p = to
    BY <2>1 DEF ProcInv, RunningIsOnCpu, Owner
  <2>6. from \in IF state[SlotOf(cpu)] = "TERMINATED" THEN {0} ELSE {SlotOf(cpu)}
    BY <2>1 DEF ProcInv
  <2>7. boot # "claimed"
    BY <2>1 DEF ProcInv
  <2> HIDE DEF from, to
  <2>8. \A p \in Pids : saved[p] = IF p = from THEN [thread |-> cpu, pending |-> <<>>] ELSE regs[p]
    BY <1>0, <1>2, <2>4 DEF TypeOK
  <2>9. saved \in [Slots -> Contexts]
    <3>1. [thread |-> cpu, pending |-> Tail(pending)] \in Contexts
      <4>1. pending \in Seq(Switches) /\ pending # <<>>
        BY <2>1, <2>2
      <4>2. Tail(pending) \in Seq(Switches)
        BY <4>1
      <4> QED BY <1>0, <4>2 DEF TypeOK, Contexts
    <3> QED BY <1>0, <3>1 DEF TypeOK
  <2> HIDE DEF saved
  <2>10. to \in Live
    BY <2>3, <2>5, <2>7 DEF Live
  <2>11. \A p \in Pids : regs'[p] = IF p = to THEN Stale ELSE saved[p]
    <3>1. [saved EXCEPT ![to] = Stale] \in [Slots -> Contexts]
      <4>1. Stale \in Contexts
        BY DEF Stale, Fresh, Contexts, Threads
      <4> QED BY <2>9, <4>1
    <3>2. stack[to] # NULL
      BY <2>10 DEF ProcInv, SpawnedHaveStacks
    <3>3. regs' = [saved EXCEPT ![to] = Stale]
      BY <2>1, <3>1, <3>2, TrampledType
    <3> QED BY <1>2, <2>9, <3>3
  <2>12. \A p \in Live : SlotOf(saved[p].thread) = p /\ saved[p].pending = <<>> /\ saved[p].thread # IDLE
    <3> SUFFICES ASSUME NEW p \in Live
                 PROVE  SlotOf(saved[p].thread) = p /\ saved[p].pending = <<>> /\ saved[p].thread # IDLE
      OBVIOUS
    <3>1. p \in Pids /\ state[p] # "TERMINATED"
      BY DEF Live
    <3>2. CASE p = SlotOf(cpu)
      BY <1>4, <2>6, <2>8, <3>1, <3>2 DEF ProcInv
    <3>3. CASE p # SlotOf(cpu)
      <4>1. p # from
        BY <1>2, <2>6, <3>1, <3>3
      <4>2. saved[p] = regs[p]
        BY <2>8, <3>1, <4>1
      <4> QED BY <3>3, <4>2 DEF ProcInv, ContextsOwned
    <3> QED BY <3>2, <3>3
  <2>13. SlotOf(cpu') = to /\ pending' = <<>> /\ cpu' # IDLE
    BY <2>1, <2>10, <2>12
  <2>14. cpu' # Nobody
    BY <1>2, <1>3, <2>3, <2>13 DEF SlotOf
  <2>15. RunningIsOnCpu'
    BY <2>1, <2>5, <2>13 DEF RunningIsOnCpu, Owner
  <2>16. Live' = Live
    BY <2>1 DEF Live
  <2>17. \A p \in Live' \ {SlotOf(cpu')} : regs'[p] = saved[p]
    BY <2>11, <2>13, <2>16 DEF Live
  <2>18. ContextsOwned' /\ \A p \in Live' \ {SlotOf(cpu')} : regs'[p].thread # IDLE
    BY <2>12, <2>16, <2>17 DEF ContextsOwned, SlotOf
  <2>19. boot' = "start" => cpu' = Boot /\ \A p \in Pids \ {IDLE} : state'[p] = "TERMINATED"
    <3> SUFFICES ASSUME boot = "start"
                 PROVE  cpu' = Boot /\ \A p \in Pids \ {IDLE} : state'[p] = "TERMINATED"
      BY <2>1
    <3>1. cpu = Boot /\ \A p \in Pids \ {IDLE} : state[p] = "TERMINATED"
      BY DEF ProcInv
    <3>2. to = IDLE
      BY <2>3, <2>5, <3>1
    <3>3. SlotOf(cpu) = IDLE
      BY <3>1 DEF SlotOf
    <3>4. from = IDLE
      BY <2>6, <3>3 DEF ProcInv
    <3>5. cpu' = Boot
      BY <1>2, <2>1, <2>8, <3>1, <3>2, <3>4
    <3> QED BY <2>1, <3>1, <3>5
  <2>20. Len(pending') <= 1
    BY <2>13
  <2>21. SpawnedHaveStacks'
    BY <2>1, <2>16 DEF ProcInv, SpawnedHaveStacks
  <2> QED BY <1>0, <2>1, <2>7, <2>13, <2>14, <2>15, <2>18, <2>19, <2>20, <2>21 DEF ProcInv
<1>14. CASE boot_claim
  <2> DEFINE new == get_pid(state)
  <2>1. /\ boot = "start" /\ boot' = "claimed" /\ cpu = Boot /\ pending = <<>>
        /\ state' = [state EXCEPT ![new] = "READY"]
        /\ UNCHANGED <<stack, regs, cpu, pending>>
    BY <1>14 DEF boot_claim, BootRuns
  <2>2. \A p \in Pids : state[p] = "TERMINATED" <=> p # IDLE
    BY <2>1 DEF ProcInv
  <2>3. new = PROCESSUS1
    <3>1. Having(state, "TERMINATED") = Pids \ {IDLE}
      BY <2>2 DEF Having
    <3>2. Pids \ {IDLE} \in SUBSET Nat /\ PROCESSUS1 \in Pids \ {IDLE}
      BY <1>2 DEF Pids
    <3>3. Least(Pids \ {IDLE}) \in Pids \ {IDLE} /\ Least(Pids \ {IDLE}) <= PROCESSUS1
      BY <3>2, LeastProperty
    <3>4. Least(Pids \ {IDLE}) = PROCESSUS1
      BY <3>3 DEF Pids, IDLE, PROCESSUS1
    <3> QED BY <3>1, <3>2, <3>4 DEF get_pid
  <2> HIDE DEF new
  <2>4. \A p \in Pids : state'[p] = IF p = PROCESSUS1 THEN "READY" ELSE state[p]
    BY <1>1, <1>2, <2>1, <2>3 DEF Tables
  <2>5. SlotOf(cpu) = IDLE
    BY <2>1 DEF SlotOf
  <2>6. RunningIsOnCpu'
    BY <1>2, <2>1, <2>4, <2>5 DEF ProcInv, RunningIsOnCpu, Owner, SlotOf
  <2>7. Live' \ {SlotOf(cpu')} = {}
    BY <2>1, <2>2, <2>4, <2>5 DEF Live, SlotOf
  <2>8. state'[PROCESSUS1] = "READY" /\ state'[IDLE] = state[IDLE]
    BY <1>2, <2>4
  <2>9. SpawnedHaveStacks'
    BY <2>1, <2>4 DEF ProcInv, SpawnedHaveStacks, Live
  <2> QED BY <1>0, <2>1, <2>6, <2>7, <2>8, <2>9 DEF ProcInv, ContextsOwned
<1>15. CASE boot_furnish
  <2>1. /\ boot = "claimed" /\ boot' = "returned" /\ cpu = Boot /\ pending = <<>>
        /\ regs' = [regs EXCEPT ![PROCESSUS1] = Fresh(PROCESSUS1)]
        /\ stack' = [stack EXCEPT ![PROCESSUS1] = BLOCK]
        /\ UNCHANGED <<state, cpu, pending>>
    BY <1>0, <1>2, <1>15, FurnishBlock DEF boot_furnish, BootRuns, Sheltered
  <2>2. \A p \in Pids : regs'[p] = IF p = PROCESSUS1 THEN Fresh(PROCESSUS1) ELSE regs[p]
    BY <1>0, <1>2, <2>1 DEF TypeOK
  <2>3. RunningIsOnCpu'
    BY <2>1 DEF ProcInv, RunningIsOnCpu, Owner, SlotOf
  <2>4. Live' \subseteq Live \cup {PROCESSUS1}
    BY <2>1 DEF Live
  <2>5. /\ SlotOf(Fresh(PROCESSUS1).thread) = PROCESSUS1
        /\ Fresh(PROCESSUS1).pending = <<>> /\ Fresh(PROCESSUS1).thread # IDLE
    BY <1>2, <1>3 DEF Fresh, SlotOf
  <2>6. ContextsOwned' /\ \A p \in Live' \ {SlotOf(cpu')} : regs'[p].thread # IDLE
    BY <2>1, <2>2, <2>4, <2>5 DEF ProcInv, ContextsOwned, SlotOf, Live
  <2>7. SpawnedHaveStacks'
    BY <1>0, <1>2, <2>1, <2>4 DEF ProcInv, SpawnedHaveStacks, TypeOK, Live, BLOCK, NULL
  <2> QED BY <1>0, <2>1, <2>3, <2>6, <2>7 DEF ProcInv
<1>16. CASE UNCHANGED vars
  BY <1>0, <1>16 DEF vars, ProcInv, RunningIsOnCpu, ContextsOwned, SpawnedHaveStacks, Live, Owner,
     SlotOf
<1> QED
  BY <1>6, <1>8, <1>9, <1>10, <1>11, <1>12, <1>13, <1>14, <1>15, <1>16 DEF Next

\* The invariant, for every table size, tick width and period.
LEMMA Invariant == ASSUME Sheltered PROVE Spec => []ProcInv
<1>1. Init => ProcInv
  BY InitInv
<1>2. ProcInv /\ [Next]_vars => ProcInv'
  BY NextInv
<1> QED BY <1>1, <1>2, PTL DEF Spec

\* With no tick in a window, idle spared and a heap that does not run out, the RUNNING
\* entry of the table is always the slot of the code that the processor executes or is
\* switching to: get_current_pid is right in every system call and preemption.
THEOREM RunningCorrect == ASSUME Sheltered PROVE Spec => []RunningIsOnCpu
<1>1. Spec => []ProcInv
  BY Invariant
<1>2. ProcInv => RunningIsOnCpu
  BY DEF ProcInv
<1> QED BY <1>1, <1>2, PTL

\* Under the same assumptions no process ever resumes from registers that are stale, never
\* written, or another process's.
THEOREM ContextsCorrect == ASSUME Sheltered PROVE Spec => []ContextsOwned
<1>1. Spec => []ProcInv
  BY Invariant
<1>2. ProcInv => ContextsOwned
  BY DEF ProcInv
<1> QED BY <1>1, <1>2, PTL

-----------------------------------------------------------------------------
(***************************************************************************)
(* proc.c implements Multitask, and what its steps never do, sheltered.    *)
(***************************************************************************)

\* The processor always belongs to a slot, which is the one that is RUNNING.
LEMMA OwnerRuns ==
  ASSUME ProcInv
  PROVE  Owner \in Pids /\ \A p \in Pids : state[p] = "RUNNING" <=> p = Owner
<1>1. pending \in Seq(Switches) /\ cpu \in Threads /\ cpu # Nobody
  BY DEF ProcInv, TypeOK
<1>2. SlotOf(cpu) \in Pids
  BY <1>1, ProcAssumption DEF Threads, SlotOf, IDLE, Pids
<1>3. ASSUME pending # <<>> PROVE Head(pending).to \in Pids
  <2>1. Head(pending) \in Switches
    BY <1>1, <1>3
  <2> QED BY <2>1 DEF Switches
<1> QED
  BY <1>2, <1>3 DEF ProcInv, RunningIsOnCpu, Owner

\* Of a system call that only processes make: its caller is the owner, and not idle.
LEMMA CallerOwns ==
  ASSUME ProcInv, InUserCode
  PROVE  /\ Owner = cpu /\ cpu \in Pids \ {IDLE}
         /\ pending = <<>> /\ get_current_pid(state) = cpu
<1>1. Boot \notin Pids /\ IdleFn \notin Pids
  BY ProcAssumption DEF Boot, IdleFn, Pids
<1>2. SlotOf(cpu) = cpu /\ cpu \in Pids \ {IDLE} /\ pending = <<>>
  BY <1>1 DEF InUserCode, SlotOf, ProcInv
<1>3. get_current_pid(state) = cpu
  BY <1>2, CurrentIsOnCpu DEF ProcInv
<1> QED
  BY <1>2, <1>3 DEF Owner

\* From a table where no slot but pid is RUNNING and idle can run, scheduler gives the
\* processor to one of the processes that can run, or to idle, as Dispatch does; those
\* that can run are the ready, the running, and the sleepers it wakes.
LEMMA DispatchStep ==
  ASSUME NEW st \in Tables, NEW pid \in Slots, NEW wake, NEW now,
         pending = <<>>,
         \A p \in Pids : st[p] = "RUNNING" => p = pid,
         st[IDLE] \in {"READY", "RUNNING"},
         scheduler(pid, st, wake, now)
  PROVE  \E woken \in SUBSET Having(st, "BLOCKED") :
            M!Dispatch(Having(st, "READY") \cup Having(st, "RUNNING") \cup woken,
                       Having(st, "BLOCKED") \ woken)
<1> DEFINE awake == Awake(st, pid, wake, now)
<1> DEFINE next == Elect(awake, pid)
<1> DEFINE woken == {p \in Having(st, "BLOCKED") : awake[p] = "READY"}
<1> DEFINE able == Having(st, "READY") \cup Having(st, "RUNNING") \cup woken
<1>1. awake \in Tables
  BY AwakeTable
<1>2. /\ next \in Pids
      /\ Candidates(awake) # {} => next \in Candidates(awake)
      /\ Candidates(awake) = {} => next = IDLE
  BY <1>1, Elected
<1>3. /\ state' = [awake EXCEPT ![next] = "RUNNING"]
      /\ pending' = <<[from |-> pid, to |-> next]>> \o pending
  BY DEF scheduler
<1>4. \A p \in Slots :
         \/ awake[p] = st[p] /\ ~ (p = pid /\ st[p] = "RUNNING")
         \/ awake[p] = "READY" /\ (st[p] = "BLOCKED" \/ (p = pid /\ st[p] = "RUNNING"))
  BY AwakeTable
<1> HIDE DEF awake, next
<1>5. Pids \subseteq Slots /\ IDLE \in Pids
  BY ProcAssumption DEF IDLE, Pids, Slots
<1>6. \A p \in Pids : state'[p] = IF p = next THEN "RUNNING" ELSE awake[p]
  BY <1>1, <1>3, <1>5 DEF Tables
<1>7. Having(awake, "READY") = able
  BY <1>4, <1>5 DEF Having
<1>8. Having(awake, "BLOCKED") = Having(st, "BLOCKED") \ woken
  BY <1>4, <1>5 DEF Having
<1>9. \A p \in Pids : awake[p] # "RUNNING"
  BY <1>4, <1>5
<1>10. IDLE \in able
  BY <1>5 DEF Having
<1>11. Owner' = next
  BY <1>3 DEF Owner
<1>12. Candidates(awake) = able \ {IDLE}
  BY <1>7 DEF Candidates
<1>13. next \in able
  BY <1>2, <1>10, <1>12
<1>14. Having(state', "READY") = able \ {next}
  BY <1>6, <1>7 DEF Having
<1>15. Having(state', "BLOCKED") = Having(st, "BLOCKED") \ woken
  BY <1>6, <1>7, <1>8, <1>13 DEF Having
<1>16. next \in IF able \subseteq {IDLE} THEN {IDLE} ELSE able \ {IDLE}
  BY <1>2, <1>12
<1>17. M!Dispatch(able, Having(st, "BLOCKED") \ woken)
  <2> HIDE DEF able, woken
  <2> QED
    BY <1>11, <1>14, <1>15, <1>16 DEF M!Dispatch
<1> QED
  BY <1>17

(***************************************************************************)
(* The refinement.                                                         *)
(***************************************************************************)

\* Idle never sleeps: of ProcInv's processes it is one that can always run.
RefInv == ProcInv /\ state[IDLE] # "BLOCKED"

\* A table as the three sets of the abstract manager, the owner apart.
Ready  == Having(state, "READY")
Asleep == Having(state, "BLOCKED")

\* In every state of the invariant the table has its type, and idle is ready or RUNNING.
LEMMA RefTable ==
  ASSUME RefInv
  PROVE  /\ state \in Tables
         /\ Pids \subseteq Slots /\ IDLE \in Pids
         /\ state[IDLE] \in {"READY", "RUNNING"}
<1>1. state \in Tables
  BY DEF RefInv, ProcInv, TypeOK, Tables
<1>2. Pids \subseteq Slots /\ IDLE \in Pids
  BY ProcAssumption DEF Pids, Slots, IDLE
<1>3. state[IDLE] \in PROC_STATES
  BY <1>1, <1>2 DEF Tables
<1> QED
  BY <1>1, <1>2, <1>3 DEF RefInv, ProcInv, PROC_STATES

\* A spawn in a free slot is the abstract Spawn.
LEMMA SpawnRefines ==
  ASSUME RefInv, NEW new \in Pids, state[new] = "TERMINATED",
         state' = [state EXCEPT ![new] = "READY"], UNCHANGED <<cpu, pending>>
  PROVE  M!Spawn(new)
<1>1. state \in Tables /\ Pids \subseteq Slots
  BY RefTable
<1>2. \A p \in Pids : state'[p] = IF p = new THEN "READY" ELSE state[p]
  BY <1>1 DEF Tables
<1>3. Owner' = Owner
  BY DEF Owner, SlotOf
<1>4. new \notin M!Alive
  BY OwnerRuns DEF RefInv, M!Alive, Having
<1>5. Having(state, "READY")' = Having(state, "READY") \cup {new}
  BY <1>2 DEF Having
<1>6. Having(state, "BLOCKED")' = Having(state, "BLOCKED")
  BY <1>2 DEF Having
<1> QED
  BY <1>3, <1>4, <1>5, <1>6 DEF M!Spawn

\* exit and kill are the abstract Exit, if the process ends itself, or Kill.
LEMMA TerminateRefines ==
  ASSUME RefInv, InUserCode, NEW p \in Pids \ {IDLE}, terminate_proc(p)
  PROVE  M!Exit \/ M!Kill(p)
<1> DEFINE st == [state EXCEPT ![p] = "TERMINATED"]
<1> DEFINE pid == get_current_pid(st)
<1>0. Owner = cpu /\ cpu \in Pids \ {IDLE} /\ pending = <<>>
  BY CallerOwns DEF RefInv
<1>1. state \in Tables /\ Pids \subseteq Slots /\ IDLE \in Pids
  BY RefTable
<1>2. st \in Tables
  BY <1>1 DEF Tables, PROC_STATES
<1>3. \A q \in Pids : st[q] = IF q = p THEN "TERMINATED" ELSE state[q]
  BY <1>1 DEF Tables
<1>4. \A q \in Pids : state[q] = "RUNNING" <=> q = cpu
  BY <1>0, OwnerRuns DEF RefInv
<1>5. scheduler(pid, st, sleeping_end_time, timer_ticks) /\ state[p] # "TERMINATED"
  BY DEF terminate_proc
<1> HIDE DEF st
<1>6. pid \in Slots /\ (Having(st, "RUNNING") # {} => pid \in Having(st, "RUNNING"))
  BY <1>2, CurrentPid
<1> HIDE DEF pid
<1>7. \A q \in Pids : st[q] = "RUNNING" => q = pid
  BY <1>3, <1>4, <1>6 DEF Having
<1>8. st[IDLE] \in {"READY", "RUNNING"}
  BY <1>1, <1>3, RefTable
<1>9. PICK woken \in SUBSET Having(st, "BLOCKED") :
         M!Dispatch(Having(st, "READY") \cup Having(st, "RUNNING") \cup woken,
                    Having(st, "BLOCKED") \ woken)
  BY <1>0, <1>2, <1>5, <1>6, <1>7, <1>8, DispatchStep
<1>10. /\ Having(st, "READY") = Ready \ {p}
       /\ Having(st, "BLOCKED") = Asleep \ {p}
       /\ Having(st, "RUNNING") = {cpu} \ {p}
  BY <1>0, <1>3, <1>4 DEF Having, Ready, Asleep
<1>11. CASE p = cpu
  <2>1. p \notin Ready /\ p \notin Asleep
    BY <1>0, <1>4, <1>11 DEF Ready, Asleep, Having
  <2>2. /\ Having(st, "READY") \cup Having(st, "RUNNING") \cup woken = Ready \cup woken
        /\ Having(st, "BLOCKED") \ woken = Asleep \ woken
        /\ woken \in SUBSET Asleep
    BY <1>10, <1>11, <2>1
  <2>3. M!Dispatch(Ready \cup woken, Asleep \ woken)
    BY <1>9, <2>2
  <2>4. M!Exit
    BY <1>0, <2>2, <2>3 DEF M!Exit, Ready, Asleep
  <2> QED BY <2>4
<1>12. CASE p # cpu
  <2>1. p \in (Ready \cup Asleep) \ {IDLE}
    <3>1. state[p] \in PROC_STATES
      BY <1>1 DEF Tables
    <3> QED BY <1>4, <1>5, <1>12, <3>1 DEF Ready, Asleep, Having, PROC_STATES
  <2>2. /\ Having(st, "READY") \cup Having(st, "RUNNING") \cup woken
              = (Ready \ {p}) \cup {Owner} \cup woken
        /\ Having(st, "BLOCKED") \ woken = Asleep \ ({p} \cup woken)
        /\ woken \in SUBSET (Asleep \ {p})
    BY <1>0, <1>10, <1>12
  <2>3. M!Dispatch((Ready \ {p}) \cup {Owner} \cup woken, Asleep \ ({p} \cup woken))
    BY <1>9, <2>2
  <2>4. M!Kill(p)
    BY <1>0, <2>1, <2>2, <2>3 DEF M!Kill, Ready, Asleep
  <2> QED BY <2>4
<1> QED BY <1>11, <1>12

\* sleep is the abstract Sleep.
LEMMA SleepRefines ==
  ASSUME RefInv, NEW d, sys_sleep(d)
  PROVE  M!Sleep
<1> DEFINE st == [state EXCEPT ![cpu] = "BLOCKED"]
<1> DEFINE wake == [sleeping_end_time EXCEPT ![cpu] = ToInt((timer_ticks + d) % TickModulus)]
<1>0. Owner = cpu /\ cpu \in Pids \ {IDLE} /\ pending = <<>> /\ get_current_pid(state) = cpu
  BY CallerOwns DEF RefInv, sys_sleep
<1>1. state \in Tables /\ Pids \subseteq Slots /\ IDLE \in Pids
  BY RefTable
<1>2. st \in Tables
  BY <1>1 DEF Tables, PROC_STATES
<1>3. \A q \in Pids : st[q] = IF q = cpu THEN "BLOCKED" ELSE state[q]
  BY <1>1 DEF Tables
<1>4. \A q \in Pids : state[q] = "RUNNING" <=> q = cpu
  BY <1>0, OwnerRuns DEF RefInv
<1>5. scheduler(cpu, st, wake, timer_ticks)
  BY <1>0 DEF sys_sleep
<1> HIDE DEF st, wake
<1>6. \A q \in Pids : st[q] = "RUNNING" => q = cpu
  BY <1>3, <1>4
<1>7. st[IDLE] \in {"READY", "RUNNING"}
  BY <1>0, <1>1, <1>3, RefTable
<1>8. cpu \in Slots
  BY <1>0, <1>1
<1>9. PICK woken \in SUBSET Having(st, "BLOCKED") :
         M!Dispatch(Having(st, "READY") \cup Having(st, "RUNNING") \cup woken,
                    Having(st, "BLOCKED") \ woken)
  BY <1>0, <1>2, <1>5, <1>6, <1>7, <1>8, DispatchStep
<1>10. /\ Having(st, "READY") = Ready
       /\ Having(st, "BLOCKED") = Asleep \cup {Owner}
       /\ Having(st, "RUNNING") = {}
  BY <1>0, <1>3, <1>4 DEF Having, Ready, Asleep
<1>11. M!Dispatch(Ready \cup woken, (Asleep \cup {Owner}) \ woken)
  <2>1. Having(st, "READY") \cup Having(st, "RUNNING") \cup woken = Ready \cup woken
    BY <1>10
  <2> QED BY <1>9, <1>10, <2>1
<1> QED
  BY <1>0, <1>9, <1>10, <1>11 DEF M!Sleep, Ready, Asleep

\* A preemption is the abstract Preempt.
LEMMA PreemptRefines ==
  ASSUME RefInv, Sheltered, timer_preempt
  PROVE  M!Preempt
<1> DEFINE pid == get_current_pid(state)
<1>1. pending = <<>>
  BY DEF timer_preempt, Sheltered, Exposed, Windows
<1>2. state \in Tables
  BY DEF RefInv, ProcInv, TypeOK, Tables
<1>3. Owner \in Pids /\ \A p \in Pids : state[p] = "RUNNING" <=> p = Owner
  BY OwnerRuns DEF RefInv
<1>4. pid = Owner
  BY <1>1, <1>3, CurrentIsOnCpu DEF RefInv, ProcInv, Owner
<1>5. pid \in Slots
  BY <1>2, CurrentPid
<1>6. scheduler(pid, state, sleeping_end_time, NextTick)
  BY DEF timer_preempt
<1> HIDE DEF pid
<1>7. PICK woken \in SUBSET Having(state, "BLOCKED") :
         M!Dispatch(Having(state, "READY") \cup Having(state, "RUNNING") \cup woken,
                    Having(state, "BLOCKED") \ woken)
  BY <1>1, <1>2, <1>3, <1>4, <1>5, <1>6, RefTable, DispatchStep
<1>8. Having(state, "RUNNING") = {Owner}
  BY <1>3 DEF Having
<1> QED
  BY <1>7, <1>8 DEF M!Preempt

\* A context switch changes neither the owner nor the table.
LEMMA SwitchStutters ==
  ASSUME RefInv, Sheltered, ctx_sw
  PROVE  UNCHANGED M!mvars
<1>1. state' = state
  BY DEF ctx_sw
<1>2. Owner \in Pids /\ state[Owner] = "RUNNING"
  BY OwnerRuns DEF RefInv
<1>3. ProcInv'
  BY NextInv DEF RefInv, Next
<1>4. Owner' = Owner
  BY <1>1, <1>2, <1>3 DEF ProcInv, RunningIsOnCpu
<1> QED
  BY <1>1, <1>4 DEF M!mvars, Having

\* Every step of the code is a step of the abstract manager, or changes nothing in it.
LEMMA StepRefines ==
  ASSUME RefInv, Sheltered, [Next]_vars
  PROVE  [M!MNext]_(M!mvars)
<1>1. CASE sys_fork
  <2>1. get_pid(state) \in Pids /\ state[get_pid(state)] = "TERMINATED"
    BY <1>1, FreePid DEF sys_fork, RefInv, ProcInv, TypeOK, Tables
  <2> QED BY <1>1, <2>1, SpawnRefines DEF sys_fork, M!MNext
<1>2. CASE sys_exit
  <2>1. InUserCode /\ terminate_proc(cpu) /\ cpu \in Pids \ {IDLE}
    BY <1>2, CallerOwns DEF sys_exit, RefInv
  <2> QED BY <2>1, TerminateRefines DEF M!MNext
<1>3. CASE \E p \in Killable : sys_kill(p)
  <2>1. PICK p \in Pids \ {IDLE} : InUserCode /\ terminate_proc(p)
    BY <1>3 DEF sys_kill, Sheltered
  <2> QED BY <2>1, TerminateRefines DEF M!MNext
<1>4. CASE \E d \in Durations : sys_sleep(d)
  BY <1>4, SleepRefines DEF M!MNext
<1>5. CASE timer_tick
  BY <1>5 DEF timer_tick, M!mvars, Owner, SlotOf, Having
<1>6. CASE timer_preempt
  BY <1>6, PreemptRefines DEF M!MNext
<1>7. CASE ctx_sw
  BY <1>7, SwitchStutters
<1>8. CASE boot_claim
  <2>1. /\ state' = [state EXCEPT ![get_pid(state)] = "READY"]
        /\ boot = "start" /\ UNCHANGED <<cpu, pending>>
    BY <1>8 DEF boot_claim
  <2>2. PROCESSUS1 \in Having(state, "TERMINATED")
    BY <2>1, ProcAssumption DEF RefInv, ProcInv, Having, PROCESSUS1, IDLE, Pids
  <2>3. get_pid(state) \in Having(state, "TERMINATED")
    <3>1. Having(state, "TERMINATED") \in SUBSET Nat /\ Having(state, "TERMINATED") # {}
      BY <2>2 DEF Having, Pids
    <3> QED BY <3>1, LeastProperty DEF get_pid
  <2>4. get_pid(state) \in Pids /\ state[get_pid(state)] = "TERMINATED"
    BY <2>3 DEF Having
  <2> QED BY <2>1, <2>4, SpawnRefines DEF M!MNext
<1>9. CASE boot_furnish
  BY <1>9 DEF boot_furnish, M!mvars, Owner, SlotOf, Having
<1>10. CASE UNCHANGED vars
  BY <1>10 DEF vars, M!mvars, Owner, SlotOf, Having
<1> QED
  BY <1>1, <1>2, <1>3, <1>4, <1>5, <1>6, <1>7, <1>8, <1>9, <1>10 DEF Next

LEMMA InitRefines == Init => RefInv /\ M!MInit
<1> SUFFICES ASSUME Init PROVE RefInv /\ M!MInit
  OBVIOUS
<1>1. ProcInv
  BY InitInv
<1>2. IDLE \in Pids /\ Pids \subseteq Slots /\ 0 \notin Pids
  BY ProcAssumption DEF IDLE, Pids, Slots
<1>3. \A p \in Pids : state[p] = IF p = IDLE THEN "RUNNING" ELSE "TERMINATED"
  BY <1>2 DEF Init
<1>4. Owner = IDLE
  BY DEF Init, Owner, SlotOf
<1> QED
  BY <1>1, <1>2, <1>3, <1>4 DEF RefInv, M!MInit, Having

\* Idle stays awake because it does in the abstract manager, where only an owner other
\* than Idle falls asleep.
LEMMA NextRef == ASSUME Sheltered PROVE RefInv /\ [Next]_vars => RefInv'
<1> SUFFICES ASSUME RefInv, [Next]_vars PROVE RefInv'
  OBVIOUS
<1>1. ProcInv'
  BY NextInv DEF RefInv
<1>2. [M!MNext]_(M!mvars)
  BY StepRefines
<1>3. Having(state, "BLOCKED")' \subseteq (Having(state, "BLOCKED") \cup {Owner}) \ {IDLE}
  <2>1. IDLE \notin Having(state, "BLOCKED")
    BY DEF RefInv, Having
  <2> QED
    BY <1>2, <2>1 DEF M!MNext, M!mvars, M!Spawn, M!Kill, M!Preempt, M!Sleep, M!Exit, M!Dispatch
<1>4. IDLE \in Pids
  BY RefTable
<1>5. state'[IDLE] # "BLOCKED"
  BY <1>3, <1>4 DEF Having
<1> QED
  BY <1>1, <1>5 DEF RefInv

\* proc.c implements the abstract process manager, for every table size, tick width,
\* period and set of durations: with the RUNNING entry, the pending switch and the saved
\* registers of procs_table abstracted to the one process the processor belongs to, each
\* system call and preemption is one of its steps, and ctx_sw changes nothing.
THEOREM Implementation == ASSUME Sheltered PROVE Spec => ImplementsMultitask
<1>1. Init => RefInv /\ M!MInit
  BY InitRefines
<1>2. RefInv /\ [Next]_vars => RefInv'
  BY NextRef
<1>3. RefInv /\ [Next]_vars => [M!MNext]_(M!mvars)
  BY StepRefines
<1> QED
  BY <1>1, <1>2, <1>3, PTL DEF Spec, ImplementsMultitask, M!MSpec

(***************************************************************************)
(* The abstract manager keeps every process in one place.                  *)
(***************************************************************************)

\* An election leaves OnePlace true if able and sleeping have no process in common and
\* Idle is able.
LEMMA DispatchOnePlace ==
    ASSUME NEW able, NEW sleeping,
           able \cap sleeping = {},
           IDLE \in able,
           M!Dispatch(able, sleeping)
    PROVE  M!OnePlace'
<1>1. Owner' \in able /\ Ready' = able \ {Owner'} /\ Asleep' = sleeping
  BY DEF M!Dispatch, Ready, Asleep
<1> QED
  BY <1>1 DEF M!OnePlace, Ready, Asleep

\* In every behaviour of the abstract process manager a process runs, waits for the processor
\* or sleeps, never two of these, and Idle never sleeps nor ends.
THEOREM PlacesCorrect == M!MSpec => []M!OnePlace
<1>1. M!MInit => M!OnePlace
  BY DEF M!MInit, M!OnePlace, Ready, Asleep
<1>2. ASSUME M!OnePlace, [M!MNext]_(M!mvars) PROVE M!OnePlace'
  <2>1. CASE \E p \in Pids : M!Spawn(p)
    BY <2>1, <1>2 DEF M!OnePlace, M!Spawn, M!Alive, Ready, Asleep
  <2>2. ASSUME NEW p \in Pids, M!Kill(p) PROVE M!OnePlace'
    <3>1. PICK woken \in SUBSET (Asleep \ {p}) :
             M!Dispatch((Ready \ {p}) \cup {Owner} \cup woken, Asleep \ ({p} \cup woken))
      BY <2>2 DEF M!Kill, Ready, Asleep
    <3>2. ((Ready \ {p}) \cup {Owner} \cup woken) \cap (Asleep \ ({p} \cup woken)) = {}
      BY <1>2 DEF M!OnePlace, Ready, Asleep
    <3>3. IDLE \in (Ready \ {p}) \cup {Owner} \cup woken
      BY <1>2, <2>2 DEF M!OnePlace, M!Kill, Ready, Asleep
    <3> QED
      BY <3>1, <3>2, <3>3, DispatchOnePlace
  <2>3. CASE M!Preempt
    <3>1. PICK woken \in SUBSET Asleep :
             M!Dispatch(Ready \cup {Owner} \cup woken, Asleep \ woken)
      BY <2>3 DEF M!Preempt, Ready, Asleep
    <3>2. (Ready \cup {Owner} \cup woken) \cap (Asleep \ woken) = {}
      BY <1>2 DEF M!OnePlace, Ready, Asleep
    <3>3. IDLE \in Ready \cup {Owner} \cup woken
      BY <1>2 DEF M!OnePlace, Ready, Asleep
    <3> QED
      BY <3>1, <3>2, <3>3, DispatchOnePlace
  <2>4. CASE M!Sleep
    <3>1. PICK woken \in SUBSET (Asleep \cup {Owner}) :
             M!Dispatch(Ready \cup woken, (Asleep \cup {Owner}) \ woken)
      BY <2>4 DEF M!Sleep, Ready, Asleep
    <3>2. (Ready \cup woken) \cap ((Asleep \cup {Owner}) \ woken) = {}
      BY <1>2 DEF M!OnePlace, Ready, Asleep
    <3>3. IDLE \in Ready \cup woken
      BY <1>2, <2>4 DEF M!OnePlace, M!Sleep, Ready, Asleep
    <3> QED
      BY <3>1, <3>2, <3>3, DispatchOnePlace
  <2>5. CASE M!Exit
    <3>1. PICK woken \in SUBSET Asleep : M!Dispatch(Ready \cup woken, Asleep \ woken)
      BY <2>5 DEF M!Exit, Ready, Asleep
    <3>2. (Ready \cup woken) \cap (Asleep \ woken) = {}
      BY <1>2 DEF M!OnePlace, Ready, Asleep
    <3>3. IDLE \in Ready \cup woken
      BY <1>2, <2>5 DEF M!OnePlace, M!Exit, Ready, Asleep
    <3> QED
      BY <3>1, <3>2, <3>3, DispatchOnePlace
  <2>6. CASE UNCHANGED M!mvars
    BY <2>6, <1>2 DEF M!OnePlace, M!mvars, Ready, Asleep
  <2> QED
    BY <1>2, <2>1, <2>2, <2>3, <2>4, <2>5, <2>6 DEF M!MNext
<1> QED
  BY <1>1, <1>2, PTL DEF M!MSpec

(***************************************************************************)
(* What a step never does.                                                 *)
(***************************************************************************)

Election == \/ sys_exit
            \/ \E p \in Killable : sys_kill(p)
            \/ \E d \in Durations : sys_sleep(d)
            \/ timer_preempt

\* An election is a call of scheduler on a table where no slot but its argument is
\* RUNNING, and where the terminated slots are terminated still; it begins at the slot that
\* was RUNNING or, after an exit, at none.
LEMMA ElectionTable ==
  ASSUME ProcInv, Sheltered, Election
  PROVE  \E st \in Tables, pid \in Slots, wake \in [Pids -> Int] :
            /\ scheduler(pid, st, wake, timer_ticks')
            /\ \A p \in Pids : st[p] = "RUNNING" => p = pid
            /\ \A p \in Pids : state[p] = "TERMINATED" => st[p] = "TERMINATED"
            /\ st[IDLE] # "TERMINATED"
            /\ pending = <<>>
            /\ pid # 0 => pid \in Pids /\ state[pid] = "RUNNING"
<1>1. state \in Tables /\ sleeping_end_time \in [Pids -> Int]
  BY DEF ProcInv, TypeOK, Tables
<1>2. Pids \subseteq Slots /\ IDLE \in Pids
  BY ProcAssumption DEF Pids, Slots, IDLE
<1>3. \A p \in Pids : state[p] = "RUNNING" <=> p = Owner
  BY OwnerRuns
<1>4. state[IDLE] # "TERMINATED"
  BY DEF ProcInv
<1>5. ASSUME NEW p \in Pids \ {IDLE}, InUserCode, terminate_proc(p)
      PROVE  \E st \in Tables, pid \in Slots, wake \in [Pids -> Int] :
                /\ scheduler(pid, st, wake, timer_ticks')
                /\ \A q \in Pids : st[q] = "RUNNING" => q = pid
                /\ \A q \in Pids : state[q] = "TERMINATED" => st[q] = "TERMINATED"
                /\ st[IDLE] # "TERMINATED"
                /\ pending = <<>>
                /\ pid # 0 => pid \in Pids /\ state[pid] = "RUNNING"
  <2> DEFINE st == [state EXCEPT ![p] = "TERMINATED"]
  <2> DEFINE pid == get_current_pid(st)
  <2>1. st \in Tables
    BY <1>1 DEF Tables, PROC_STATES
  <2>2. \A q \in Pids : st[q] = IF q = p THEN "TERMINATED" ELSE state[q]
    BY <1>1, <1>2 DEF Tables
  <2>3. scheduler(pid, st, sleeping_end_time, timer_ticks') /\ pending = <<>>
    BY <1>5 DEF terminate_proc, InUserCode
  <2> HIDE DEF st
  <2>4. pid \in Slots /\ (Having(st, "RUNNING") # {} => pid \in Having(st, "RUNNING"))
    BY <2>1, CurrentPid
  <2> HIDE DEF pid
  <2>5. \A q \in Pids : st[q] = "RUNNING" => q = pid
    BY <1>3, <2>2, <2>4 DEF Having
  <2>6. st[IDLE] # "TERMINATED"
    BY <1>2, <1>4, <1>5, <2>2
  <2>7. \A q \in Pids : state[q] = "TERMINATED" => st[q] = "TERMINATED"
    BY <2>2
  <2>8. pid # 0 => pid \in Pids /\ state[pid] = "RUNNING"
    <3>1. Having(st, "RUNNING") = {} => pid = 0
      BY <2>1, CurrentPid DEF pid
    <3> QED BY <2>2, <2>4, <3>1 DEF Having
  <2> QED BY <1>1, <2>1, <2>3, <2>4, <2>5, <2>6, <2>7, <2>8
<1>6. CASE sys_exit
  BY <1>5, <1>6, CallerOwns DEF sys_exit
<1>7. CASE \E p \in Killable : sys_kill(p)
  BY <1>5, <1>7 DEF sys_kill, Sheltered
<1>8. ASSUME NEW d \in Durations, sys_sleep(d)
      PROVE  \E st \in Tables, pid \in Slots, wake \in [Pids -> Int] :
                /\ scheduler(pid, st, wake, timer_ticks')
                /\ \A q \in Pids : st[q] = "RUNNING" => q = pid
                /\ \A q \in Pids : state[q] = "TERMINATED" => st[q] = "TERMINATED"
                /\ st[IDLE] # "TERMINATED"
                /\ pending = <<>>
                /\ pid # 0 => pid \in Pids /\ state[pid] = "RUNNING"
  <2> DEFINE end == ToInt((timer_ticks + d) % TickModulus)
  <2> DEFINE st == [state EXCEPT ![cpu] = "BLOCKED"]
  <2> DEFINE wake == [sleeping_end_time EXCEPT ![cpu] = end]
  <2>0. Owner = cpu /\ cpu \in Pids \ {IDLE} /\ pending = <<>> /\ get_current_pid(state) = cpu
    BY <1>8, CallerOwns DEF sys_sleep
  <2>1. st \in Tables
    BY <1>1 DEF Tables, PROC_STATES
  <2>2. \A q \in Pids : st[q] = IF q = cpu THEN "BLOCKED" ELSE state[q]
    BY <1>1, <1>2 DEF Tables
  <2>3. scheduler(cpu, st, wake, timer_ticks')
    BY <1>8, <2>0 DEF sys_sleep
  <2>4. end \in Int
    BY ProcAssumption DEF ToInt, ProcInv, TypeOK
  <2>5. wake \in [Pids -> Int]
    BY <1>1, <2>4
  <2> HIDE DEF st, wake, end
  <2>6. \A q \in Pids : st[q] = "RUNNING" => q = cpu
    BY <1>3, <2>0, <2>2
  <2>7. st[IDLE] # "TERMINATED"
    BY <1>2, <1>4, <2>2
  <2>8. \A q \in Pids : state[q] = "TERMINATED" => st[q] = "TERMINATED"
    BY <1>3, <2>0, <2>2
  <2> QED BY <1>2, <1>3, <2>0, <2>1, <2>3, <2>5, <2>6, <2>7, <2>8
<1>9. CASE timer_preempt
  <2> DEFINE pid == get_current_pid(state)
  <2>1. pending = <<>>
    BY <1>9 DEF timer_preempt, Sheltered, Exposed, Windows
  <2>2. scheduler(pid, state, sleeping_end_time, timer_ticks')
    BY <1>9 DEF timer_preempt
  <2>3. /\ pid \in Slots
        /\ Having(state, "RUNNING") # {} => pid \in Having(state, "RUNNING")
        /\ Having(state, "RUNNING") = {} => pid = 0
    BY <1>1, CurrentPid
  <2> HIDE DEF pid
  <2>5. pid # 0 => pid \in Pids /\ state[pid] = "RUNNING"
    BY <2>3 DEF Having
  <2>4. \A q \in Pids : state[q] = "RUNNING" => q = pid
    BY <1>3, <2>3 DEF Having
  <2> QED BY <1>1, <1>4, <2>1, <2>2, <2>3, <2>4, <2>5
<1> QED
  BY <1>6, <1>7, <1>8, <1>9 DEF Election

\* The other steps announce no switch; but for a spawn they leave the table alone.
LEMMA OtherSteps ==
  ASSUME ProcInv, Sheltered, [Next]_vars, ~ Election
  PROVE  /\ ~ Electing
         /\ \/ state' = [state EXCEPT ![get_pid(state)] = "READY"]
            \/ state' = state
<1>1. ProcInv'
  BY NextInv
<1>2. Len(pending) \in Nat
  BY DEF ProcInv, TypeOK
<1>3. CASE ctx_sw
  <2>1. Len(pending) # 0 /\ Len(pending') <= 1
    <3>1. pending # <<>> /\ pending \in Seq(Switches)
      BY <1>3 DEF ctx_sw, ProcInv, TypeOK
    <3>2. Len(pending') <= 1
      BY <1>1 DEF ProcInv
    <3> QED BY <3>1, <3>2
  <2> QED BY <1>2, <1>3, <2>1 DEF Electing, ctx_sw
<1>4. CASE sys_fork \/ boot_claim
  BY <1>2, <1>4 DEF sys_fork, boot_claim, Electing
<1>5. CASE timer_tick \/ boot_furnish \/ UNCHANGED vars
  BY <1>2, <1>5 DEF timer_tick, boot_furnish, vars, Electing
<1> QED
  BY <1>3, <1>4, <1>5 DEF Next, Election

\* A terminated process does not come back: only a spawn takes a slot again, and makes it
\* READY.  (Idle terminated would be elected: hence the assumption that idle is spared.)
THEOREM DeadStayDead == ASSUME Sheltered PROVE Spec => TerminatedStaysDead
<1> DEFINE Safe == \A p \in Pids : state[p] = "TERMINATED" /\ state'[p] # "TERMINATED"
                                     => p = get_pid(state) /\ ~ Electing
<1>1. ProcInv /\ [Next]_vars => [Safe]_vars
  <2> SUFFICES ASSUME ProcInv, [Next]_vars PROVE Safe
    OBVIOUS
  <2>1. CASE Election
    <3>1. PICK st \in Tables, pid \in Slots, wake \in [Pids -> Int] :
                /\ scheduler(pid, st, wake, timer_ticks')
                /\ \A p \in Pids : st[p] = "RUNNING" => p = pid
                /\ \A p \in Pids : state[p] = "TERMINATED" => st[p] = "TERMINATED"
                /\ st[IDLE] # "TERMINATED"
                /\ pending = <<>>
      BY <2>1, ElectionTable
    <3>2. \A p \in Pids : state'[p] = "TERMINATED" <=> st[p] = "TERMINATED"
      BY <3>1, SchedulerStep
    <3> QED BY <3>1, <3>2
  <2>2. CASE ~ Election
    <3>1. /\ ~ Electing
          /\ \/ state' = [state EXCEPT ![get_pid(state)] = "READY"]
             \/ state' = state
      BY <2>2, OtherSteps
    <3>2. state \in [Slots -> PROC_STATES]
      BY DEF ProcInv, TypeOK
    <3>3. Pids \subseteq Slots
      BY ProcAssumption DEF Pids, Slots
    <3> QED BY <3>1, <3>2, <3>3
  <2> QED BY <2>1, <2>2
<1> QED
  BY <1>1, Invariant, PTL DEF Spec, TerminatedStaysDead

\* The idle slot is elected only when no other process is ready and no sleeper's time is
\* up: neither the wrap-around of the search nor the wake-ups before it miss anyone.
THEOREM WorkConserved == ASSUME Sheltered PROVE Spec => IdleOnlyWithoutWork
<1> DEFINE NoWork == /\ Candidates(state') = {}
                     /\ Due(state', sleeping_end_time', timer_ticks') = {}
<1>1. ProcInv /\ [Next]_vars => [Electing /\ Head(pending').to = IDLE => NoWork]_vars
  <2> SUFFICES ASSUME ProcInv, [Next]_vars, Electing, Head(pending').to = IDLE PROVE NoWork
    OBVIOUS
  <2>1. Election
    BY OtherSteps
  <2>2. PICK st \in Tables, pid \in Slots, wake \in [Pids -> Int] :
              scheduler(pid, st, wake, timer_ticks') /\ pending = <<>>
    BY <2>1, ElectionTable
  <2> DEFINE stopped == stop_proc(st, pid)
  <2> DEFINE due == Due(stopped, wake, timer_ticks')
  <2> DEFINE awake == Awake(st, pid, wake, timer_ticks')
  <2> DEFINE next == Elect(awake, pid)
  <2>3. stopped \in Tables /\ awake \in Tables
    BY AwakeTable
  <2>4. Candidates(awake) # {} => next \in Candidates(awake)
    BY <2>3, Elected
  <2>5. /\ state' = [awake EXCEPT ![next] = "RUNNING"]
        /\ pending' = <<[from |-> pid, to |-> next]>> \o pending
        /\ sleeping_end_time' = [p \in Pids |-> IF p \in due THEN -1 ELSE wake[p]]
    BY <2>2 DEF scheduler
  <2>6. awake = [p \in Slots |-> IF p \in due THEN "READY" ELSE stopped[p]]
    BY DEF Awake
  <2>7. \A p \in Pids : p \in due <=> /\ stopped[p] = "BLOCKED" /\ wake[p] # -1
                                      /\ ToInt(timer_ticks') >= wake[p]
    BY DEF Due
  <2> HIDE DEF stopped, due, awake, next
  <2>8. next = IDLE
    BY <2>2, <2>5
  <2>9. Pids \subseteq Slots
    BY ProcAssumption DEF Pids, Slots
  <2>10. \A p \in Pids : state'[p] = IF p = IDLE THEN "RUNNING" ELSE awake[p]
    BY <2>3, <2>5, <2>8, <2>9 DEF Tables
  <2>11. Candidates(awake) = {}
    BY <2>4, <2>8 DEF Candidates
  <2>12. Candidates(state') = {}
    BY <2>10, <2>11 DEF Candidates, Having
  <2>13. ASSUME NEW p \in Due(state', sleeping_end_time', timer_ticks') PROVE FALSE
    <3>1. /\ p \in Pids /\ state'[p] = "BLOCKED" /\ sleeping_end_time'[p] # -1
          /\ ToInt(timer_ticks') >= sleeping_end_time'[p]
      BY <2>13 DEF Due
    <3>2. p \notin due /\ stopped[p] = "BLOCKED"
      BY <2>6, <2>9, <2>10, <3>1
    <3>3. sleeping_end_time'[p] = wake[p]
      BY <2>5, <3>1, <3>2
    <3> QED BY <2>7, <3>1, <3>2, <3>3
  <2> QED BY <2>12, <2>13
<1> QED
  BY <1>1, Invariant, PTL DEF Spec, IdleOnlyWithoutWork

-----------------------------------------------------------------------------

(***************************************************************************)
(* Sleeps have their length: until the tick counter gets near the largest  *)
(* int, a sleep ends after its ticks and at the first preemption then.     *)
(***************************************************************************)

\* Programs sleep for no negative time, and for some.
LastingSleeps == Durations # {} /\ Durations \subseteq Nat

\* The clock and the table agree: who does not sleep owes nothing, and what a sleeper owes is
\* what is left to its wake-up time, which no preemption has found reached.
DebtInv ==
    /\ owed \in [Pids -> Int]
    /\ \A p \in Pids : state[p] # "BLOCKED" => owed[p] = 0
    /\ \A p \in Pids : state[p] = "BLOCKED" =>
          /\ sleeping_end_time[p] = timer_ticks + owed[p]
          /\ sleeping_end_time[p] # -1
          /\ owed[p] > - (timer_ticks % SchedPeriod)

\* Before overflow a tick adds one, and it and the wake-up times are themselves as ints.
LEMMA EarlyTicks ==
    ASSUME LastingSleeps, BeforeOverflow, timer_ticks \in 0 .. TickModulus - 1
    PROVE  /\ timer_ticks \in Nat
           /\ NextTick = timer_ticks + 1 /\ ToInt(NextTick) = timer_ticks + 1
           /\ ToInt(timer_ticks) = timer_ticks
           /\ \A d \in Durations : ToInt((timer_ticks + d) % TickModulus) = timer_ticks + d
<1>1. TickModulus \in Nat /\ TickModulus >= 2 /\ timer_ticks \in Nat
  BY ProcAssumption
<1>2. ASSUME NEW n \in Nat, 2 * n < TickModulus PROVE n % TickModulus = n /\ ToInt(n) = n
  <2>1. n < TickModulus
    BY <1>1, <1>2
  <2> QED
    BY <1>1, <1>2, <2>1 DEF ToInt
<1>3. \A d \in Durations : d \in Nat /\ 2 * (timer_ticks + d) < TickModulus - 2
  BY DEF LastingSleeps, BeforeOverflow
<1>4. PICK d \in Durations : d \in Nat
  BY DEF LastingSleeps
<1>5. timer_ticks + 1 \in Nat /\ 2 * (timer_ticks + 1) < TickModulus
  BY <1>1, <1>3, <1>4
<1>6. \A e \in Durations : timer_ticks + e \in Nat /\ 2 * (timer_ticks + e) < TickModulus
  BY <1>1, <1>3
<1>7. 2 * timer_ticks < TickModulus
  BY <1>1, <1>5
<1> QED
  BY <1>1, <1>2, <1>5, <1>6, <1>7 DEF NextTick

\* Between two preemptions the ticks since the last one are counted by the remainder.
LEMMA PeriodCounts ==
    ASSUME NEW t \in Nat
    PROVE  /\ t % SchedPeriod \in Nat
           /\ (t + 1) % SchedPeriod # 0 => (t + 1) % SchedPeriod = (t % SchedPeriod) + 1
<1> DEFINE q == t \div SchedPeriod
           r == t % SchedPeriod
<1>1. SchedPeriod \in Nat \ {0}
  BY ProcAssumption
<1>2. q \in Nat /\ r \in 0 .. SchedPeriod - 1
  BY <1>1
<1>3. r = t - SchedPeriod * q
  BY <1>1
<1>4. ASSUME NEW u \in Nat, NEW a \in Nat, NEW b \in 0 .. SchedPeriod - 1, u = SchedPeriod * a + b
      PROVE  u % SchedPeriod = b
  BY <1>1, <1>4
<1> HIDE DEF q, r
<1>5. CASE r + 1 < SchedPeriod
  <2>1. t + 1 = SchedPeriod * q + (r + 1) /\ r + 1 \in 0 .. SchedPeriod - 1
    BY <1>1, <1>2, <1>3, <1>5
  <2> QED
    BY <1>2, <1>4, <2>1 DEF r
<1>6. CASE r + 1 = SchedPeriod
  <2>1. t + 1 = SchedPeriod * (q + 1) + 0
    BY <1>1, <1>2, <1>3, <1>6
  <2>2. q + 1 \in Nat /\ 0 \in 0 .. SchedPeriod - 1
    BY <1>1, <1>2
  <2>3. (t + 1) % SchedPeriod = 0
    BY <1>4, <2>1, <2>2
  <2> QED
    BY <1>2, <2>3 DEF r
<1> QED
  BY <1>1, <1>2, <1>5, <1>6

\* From a table where idle can run, scheduler leaves asleep the sleepers that are not due, with
\* their wake-up times, and takes no slot that is free.
LEMMA SchedulerSleepers ==
    ASSUME NEW st \in Tables, NEW pid \in Slots, NEW wake \in [Pids -> Int], NEW now,
           st[IDLE] \in {"READY", "RUNNING"},
           scheduler(pid, st, wake, now)
    PROVE  \A p \in Pids :
              /\ st[p] = "TERMINATED" => state'[p] = "TERMINATED"
              /\ state'[p] = "BLOCKED" <=>
                    st[p] = "BLOCKED" /\ (wake[p] # -1 => ~ (ToInt(now) >= wake[p]))
              /\ state'[p] = "BLOCKED" => sleeping_end_time'[p] = wake[p]
<1> DEFINE stopped == stop_proc(st, pid)
           awake == Awake(st, pid, wake, now)
           next == Elect(awake, pid)
<1>1. Pids \subseteq Slots /\ IDLE \in Pids
  BY ProcAssumption DEF Pids, Slots, IDLE
<1>2. stopped \in Tables /\ \A p \in Pids : /\ stopped[p] = "BLOCKED" <=> st[p] = "BLOCKED"
                                            /\ stopped[p] = "TERMINATED" <=> st[p] = "TERMINATED"
                                            /\ stopped[p] \in PROC_STATES
  BY <1>1 DEF stop_proc, Tables, PROC_STATES
<1> HIDE DEF stopped
<1>3. \A p \in Pids : p \in Due(stopped, wake, now) <=>
         st[p] = "BLOCKED" /\ wake[p] # -1 /\ ToInt(now) >= wake[p]
  BY <1>2 DEF Due
<1>4. awake \in Tables /\ \A p \in Pids :
         awake[p] = IF p \in Due(stopped, wake, now) THEN "READY" ELSE stopped[p]
  BY <1>1, AwakeTable DEF Awake, stopped
<1> HIDE DEF awake
<1>5. next \in Pids /\ (next \in Candidates(awake) \/ next = IDLE)
  BY <1>4, Elected
<1>6. awake[next] \notin {"BLOCKED", "TERMINATED"}
  <2>1. CASE next \in Candidates(awake)
    BY <2>1 DEF Candidates, Having
  <2>2. CASE next = IDLE
    BY <2>2, <1>1, <1>2, <1>3, <1>4
  <2> QED
    BY <1>5, <2>1, <2>2
<1> HIDE DEF next
<1>7. /\ \A p \in Pids : state'[p] = IF p = next THEN "RUNNING" ELSE awake[p]
      /\ \A p \in Pids : sleeping_end_time'[p] =
            IF p \in Due(stopped, wake, now) THEN -1 ELSE wake[p]
  BY <1>1, <1>4, <1>5 DEF scheduler, Tables, stopped, awake, next
<1> QED
  BY <1>2, <1>3, <1>4, <1>6, <1>7

\* At boot nobody sleeps.
LEMMA DebtInit == SleepInit => DebtInv
<1> SUFFICES ASSUME SleepInit PROVE DebtInv
  OBVIOUS
<1>1. Pids \subseteq Slots /\ 0 \notin Pids
  BY ProcAssumption DEF Pids, Slots
<1>2. \A p \in Pids : state[p] # "BLOCKED"
  BY <1>1 DEF SleepInit, Init
<1> QED
  BY <1>2 DEF SleepInit, DebtInv

\* Every step keeps the clock and the table in agreement.
LEMMA DebtNext ==
    ASSUME Sheltered, LastingSleeps, RefInv, BeforeOverflow, DebtInv, [SleepNext]_svars
    PROVE  DebtInv'
<1>1. /\ state \in Tables /\ Pids \subseteq Slots /\ IDLE \in Pids
      /\ state[IDLE] \in {"READY", "RUNNING"}
  BY RefTable
<1>2. /\ sleeping_end_time \in [Pids -> Int] /\ timer_ticks \in 0 .. TickModulus - 1
      /\ timer_ticks \in Nat
  BY ProcAssumption DEF RefInv, ProcInv, TypeOK
<1>3. /\ owed \in [Pids -> Int]
      /\ \A p \in Pids : state[p] # "BLOCKED" => owed[p] = 0
      /\ \A p \in Pids : state[p] = "BLOCKED" =>
            /\ sleeping_end_time[p] = timer_ticks + owed[p]
            /\ sleeping_end_time[p] # -1
            /\ owed[p] > - (timer_ticks % SchedPeriod)
  BY DEF DebtInv
<1>4. /\ NextTick = timer_ticks + 1 /\ ToInt(NextTick) = timer_ticks + 1
      /\ ToInt(timer_ticks) = timer_ticks
      /\ \A d \in Durations : ToInt((timer_ticks + d) % TickModulus) = timer_ticks + d
  BY <1>2, EarlyTicks
<1>5. /\ timer_ticks % SchedPeriod \in Nat
      /\ NextTick % SchedPeriod # 0 => NextTick % SchedPeriod = (timer_ticks % SchedPeriod) + 1
  BY <1>2, <1>4, PeriodCounts
\* Whatever the step: the debts of those who do not sleep are settled.
<1>6. ASSUME NEW due \in [Pids -> Int], owed' = [p \in Pids |-> Settled(p, due[p])],
             \A p \in Pids : state'[p] = "TERMINATED" \/ state'[p] = "BLOCKED" \/ due[p] <= 0,
             \A p \in Pids : state'[p] = "BLOCKED" =>
                /\ sleeping_end_time'[p] = timer_ticks' + due[p]
                /\ sleeping_end_time'[p] # -1
                /\ due[p] > - (timer_ticks' % SchedPeriod)
      PROVE  DebtInv'
  BY <1>6 DEF Settled, DebtInv
<1>7. ASSUME NEW d \in Durations, Sleeping(d) PROVE DebtInv'
  <2> DEFINE due == [p \in Pids |-> IF p = cpu THEN d ELSE owed[p]]
             st == [state EXCEPT ![cpu] = "BLOCKED"]
             wake == [sleeping_end_time EXCEPT ![cpu] = ToInt((timer_ticks + d) % TickModulus)]
  <2>1. cpu \in Pids \ {IDLE} /\ get_current_pid(state) = cpu
    BY <1>7, CallerOwns DEF Sleeping, sys_sleep, RefInv
  <2>2. scheduler(cpu, st, wake, timer_ticks) /\ timer_ticks' = timer_ticks
    BY <1>7, <2>1 DEF Sleeping, sys_sleep
  <2>3. /\ d \in Nat /\ st \in Tables /\ wake \in [Pids -> Int] /\ st[IDLE] = state[IDLE]
        /\ wake[cpu] = timer_ticks + d
        /\ \A p \in Pids \ {cpu} : wake[p] = sleeping_end_time[p] /\ st[p] = state[p]
    BY <1>1, <1>2, <1>4, <2>1 DEF LastingSleeps, Tables, PROC_STATES
  <2>4. due \in [Pids -> Int] /\ owed' = [p \in Pids |-> Settled(p, due[p])]
    BY <1>3, <1>7, <2>1, <2>3 DEF Sleeping
  <2>5. st[cpu] = "BLOCKED" /\ cpu \in Slots
    BY <1>1, <2>1 DEF Tables
  <2> HIDE DEF st, wake
  <2>6. \A p \in Pids :
           /\ st[p] = "TERMINATED" => state'[p] = "TERMINATED"
           /\ state'[p] = "BLOCKED" <=>
                 st[p] = "BLOCKED" /\ (wake[p] # -1 => ~ (timer_ticks >= wake[p]))
           /\ state'[p] = "BLOCKED" => sleeping_end_time'[p] = wake[p]
    BY <1>1, <1>4, <2>2, <2>3, <2>5, SchedulerSleepers
  <2>7. \A p \in Pids : state'[p] = "TERMINATED" \/ state'[p] = "BLOCKED" \/ due[p] <= 0
    <3> SUFFICES ASSUME NEW p \in Pids, state'[p] # "BLOCKED" PROVE due[p] <= 0
      OBVIOUS
    <3>1. CASE p = cpu
      BY <3>1, <1>2, <2>3, <2>6, <2>5
    <3>2. CASE p # cpu
      BY <3>2, <1>2, <1>3, <2>3, <2>6
    <3> QED
      BY <3>1, <3>2
  <2>8. ASSUME NEW p \in Pids, state'[p] = "BLOCKED"
        PROVE  /\ sleeping_end_time'[p] = timer_ticks + due[p]
               /\ sleeping_end_time'[p] # -1
               /\ due[p] > - (timer_ticks % SchedPeriod)
    <3>1. CASE p = cpu
      BY <3>1, <2>8, <1>2, <1>5, <2>3, <2>6
    <3>2. CASE p # cpu
      BY <3>2, <2>8, <1>2, <1>3, <2>3, <2>6
    <3> QED
      BY <3>1, <3>2
  <2> HIDE DEF due
  <2> QED
    BY <1>6, <2>2, <2>4, <2>7, <2>8
<1>8. CASE Ticking
  <2> DEFINE due == [p \in Pids |-> IF state[p] = "BLOCKED" THEN owed[p] - 1 ELSE owed[p]]
  <2>1. /\ due \in [Pids -> Int] /\ owed' = [p \in Pids |-> Settled(p, due[p])]
        /\ timer_ticks' = timer_ticks + 1
    BY <1>3, <1>4, <1>8 DEF Ticking, timer_tick, timer_preempt
  <2>2. CASE timer_tick
    <3>1. /\ UNCHANGED <<state, sleeping_end_time>>
          /\ timer_ticks' % SchedPeriod = (timer_ticks % SchedPeriod) + 1
      BY <1>4, <1>5, <2>1, <2>2 DEF timer_tick
    <3>2. \A p \in Pids : state'[p] = "TERMINATED" \/ state'[p] = "BLOCKED" \/ due[p] <= 0
      BY <1>3, <3>1
    <3>3. ASSUME NEW p \in Pids, state'[p] = "BLOCKED"
          PROVE  /\ sleeping_end_time'[p] = timer_ticks' + due[p]
                 /\ sleeping_end_time'[p] # -1
                 /\ due[p] > - (timer_ticks' % SchedPeriod)
      BY <1>2, <1>3, <1>5, <2>1, <3>1, <3>3
    <3> HIDE DEF due
    <3> QED
      BY <1>6, <2>1, <3>2, <3>3
  <2>3. CASE timer_preempt
    <3>1. /\ get_current_pid(state) \in Slots
          /\ scheduler(get_current_pid(state), state, sleeping_end_time, NextTick)
          /\ timer_ticks' % SchedPeriod = 0
      BY <1>1, <2>3, CurrentPid DEF timer_preempt
    <3> DEFINE pid == get_current_pid(state)
               now == NextTick
    <3> HIDE DEF pid, now
    <3>2. \A p \in Pids :
             /\ state'[p] = "BLOCKED" <=>
                   state[p] = "BLOCKED" /\ (sleeping_end_time[p] # -1 => ~ (timer_ticks + 1 >= sleeping_end_time[p]))
             /\ state'[p] = "BLOCKED" => sleeping_end_time'[p] = sleeping_end_time[p]
      <4>1. pid \in Slots /\ scheduler(pid, state, sleeping_end_time, now)
        BY <3>1 DEF pid, now
      <4>2. ToInt(now) = timer_ticks + 1
        BY <1>4 DEF now
      <4> QED
        BY <1>1, <1>2, <4>1, <4>2, SchedulerSleepers
    <3>3. \A p \in Pids : state'[p] = "TERMINATED" \/ state'[p] = "BLOCKED" \/ due[p] <= 0
      <4> SUFFICES ASSUME NEW p \in Pids, state'[p] # "BLOCKED" PROVE due[p] <= 0
        OBVIOUS
      <4>1. state[p] = "BLOCKED" => /\ sleeping_end_time[p] = timer_ticks + owed[p]
                                    /\ sleeping_end_time[p] # -1
        BY <1>3
      <4>2. owed[p] \in Int /\ sleeping_end_time[p] \in Int
        BY <1>2, <1>3
      <4> QED
        BY <1>2, <1>3, <3>2, <4>1, <4>2
    <3>4. ASSUME NEW p \in Pids, state'[p] = "BLOCKED"
          PROVE  /\ sleeping_end_time'[p] = timer_ticks' + due[p]
                 /\ sleeping_end_time'[p] # -1
                 /\ due[p] > - (timer_ticks' % SchedPeriod)
      <4>1. /\ state[p] = "BLOCKED" /\ sleeping_end_time'[p] = sleeping_end_time[p]
            /\ sleeping_end_time[p] = timer_ticks + owed[p] /\ sleeping_end_time[p] # -1
            /\ ~ (timer_ticks + 1 >= sleeping_end_time[p])
        BY <1>3, <3>2, <3>4
      <4>2. owed[p] \in Int /\ due[p] = owed[p] - 1
        BY <1>3, <4>1
      <4> QED
        BY <1>2, <2>1, <3>1, <4>1, <4>2
    <3> HIDE DEF due
    <3> QED
      BY <1>6, <2>1, <3>3, <3>4
  <2> QED
    BY <1>8, <2>2, <2>3 DEF Ticking
<1>9. ASSUME Other PROVE DebtInv'
  <2>1. owed' = [p \in Pids |-> Settled(p, owed[p])] /\ timer_ticks' = timer_ticks
    BY <1>9 DEF Other, sys_fork, sys_exit, sys_kill, terminate_proc, ctx_sw, boot_claim,
                boot_furnish
  <2>2. ASSUME NEW q \in Pids \ {IDLE}, InUserCode, terminate_proc(q)
        PROVE  DebtInv'
    <3> DEFINE st == [state EXCEPT ![q] = "TERMINATED"]
    <3>1. /\ st \in Tables /\ st[IDLE] = state[IDLE] /\ st[q] = "TERMINATED"
          /\ \A p \in Pids \ {q} : st[p] = state[p]
      BY <1>1 DEF Tables, PROC_STATES
    <3>2. /\ scheduler(get_current_pid(st), st, sleeping_end_time, timer_ticks)
          /\ get_current_pid(st) \in Slots
      BY <2>2, <3>1, CurrentPid DEF terminate_proc
    <3>3. \A p \in Pids :
             /\ st[p] = "TERMINATED" => state'[p] = "TERMINATED"
             /\ state'[p] = "BLOCKED" <=>
                   st[p] = "BLOCKED" /\ (sleeping_end_time[p] # -1 => ~ (timer_ticks >= sleeping_end_time[p]))
             /\ state'[p] = "BLOCKED" => sleeping_end_time'[p] = sleeping_end_time[p]
      <4> DEFINE pid == get_current_pid(st)
      <4> HIDE DEF st, pid
      <4>1. pid \in Slots /\ scheduler(pid, st, sleeping_end_time, timer_ticks)
        BY <3>2 DEF pid
      <4> QED
        BY <1>1, <1>2, <1>4, <3>1, <4>1, SchedulerSleepers
    <3> HIDE DEF st
    <3>4. \A p \in Pids : state'[p] = "TERMINATED" \/ state'[p] = "BLOCKED" \/ owed[p] <= 0
      <4> SUFFICES ASSUME NEW p \in Pids, state'[p] # "TERMINATED", state'[p] # "BLOCKED"
                   PROVE  owed[p] <= 0
        OBVIOUS
      <4>1. st[p] = state[p]
        BY <3>1, <3>3
      <4>2. state[p] = "BLOCKED" => sleeping_end_time[p] = timer_ticks + owed[p]
        BY <1>3
      <4>3. owed[p] \in Int /\ sleeping_end_time[p] \in Int
        BY <1>2, <1>3
      <4> QED
        BY <1>2, <1>3, <3>3, <4>1, <4>2, <4>3
    <3>5. ASSUME NEW p \in Pids, state'[p] = "BLOCKED"
          PROVE  /\ sleeping_end_time'[p] = timer_ticks + owed[p]
                 /\ sleeping_end_time'[p] # -1
                 /\ owed[p] > - (timer_ticks % SchedPeriod)
      <4>1. state[p] = "BLOCKED" /\ sleeping_end_time'[p] = sleeping_end_time[p]
        BY <3>1, <3>3, <3>5
      <4> QED
        BY <1>3, <4>1
    <3> QED
      BY <1>3, <1>6, <2>1, <3>4, <3>5
  <2>3. ASSUME sleeping_end_time' = sleeping_end_time,
               \A p \in Pids : \/ state'[p] = state[p]
                               \/ state[p] # "BLOCKED" /\ state'[p] # "BLOCKED"
        PROVE  DebtInv'
    BY <1>3, <1>6, <2>1, <2>3
  <2>4. CASE sys_fork \/ boot_claim
    <3>1. /\ sleeping_end_time' = sleeping_end_time
          /\ state' = [state EXCEPT ![get_pid(state)] = "READY"]
      BY <2>4 DEF sys_fork, boot_claim
    <3>2. \A p \in Pids : state'[p] = IF p = get_pid(state) THEN "READY" ELSE state[p]
      BY <1>1, <3>1 DEF Tables
    <3>3. \A p \in Pids : p = get_pid(state) => state[p] = "TERMINATED"
      BY <1>1, FreePid, ProcAssumption DEF Pids
    <3> QED
      BY <2>3, <3>1, <3>2, <3>3
  <2>5. CASE ctx_sw \/ boot_furnish
    BY <2>3, <2>5 DEF ctx_sw, boot_furnish
  <2>6. CASE sys_exit
    BY <2>2, <2>6, CallerOwns DEF sys_exit, RefInv
  <2>7. CASE \E p \in Killable : sys_kill(p)
    BY <2>2, <2>7 DEF sys_kill, Sheltered
  <2> QED
    BY <1>9, <2>4, <2>5, <2>6, <2>7 DEF Other
<1>10. CASE UNCHANGED svars
  BY <1>3, <1>10 DEF svars, vars, DebtInv
<1> QED
  BY <1>7, <1>8, <1>9, <1>10 DEF SleepNext

\* The invariant, with that of the table, for as long as no wake-up time overflows.
LEMMA DebtsHold ==
    ASSUME Sheltered, LastingSleeps
    PROVE  SleepSpec /\ []BeforeOverflow => [](DebtInv /\ RefInv)
<1>1. SleepInit => DebtInv
  BY DebtInit
<1>2. SleepInit => Init
  BY DEF SleepInit
<1>3. Init => RefInv
  BY InitRefines
<1>4. RefInv /\ [Next]_vars => RefInv'
  BY NextRef
<1>5. [SleepNext]_svars => [Next]_vars
  BY DEF SleepNext, svars, Next, Sleeping, Ticking, Other
<1>6. RefInv /\ BeforeOverflow /\ DebtInv /\ [SleepNext]_svars => DebtInv'
  BY DebtNext
<1> QED
  BY <1>1, <1>2, <1>3, <1>4, <1>5, <1>6, PTL DEF SleepSpec

\* Until the first wake-up time beyond the largest int, and with no preemption in a window, no
\* sleeper is woken before its ticks are over, by no wake-up, kill or election of others.
THEOREM NeverWokenEarly ==
    ASSUME Sheltered, LastingSleeps
    PROVE  SleepSpec /\ []BeforeOverflow => []SleepsLongEnough
<1>1. DebtInv => SleepsLongEnough
  BY DEF DebtInv, SleepsLongEnough
<1> QED
  BY <1>1, DebtsHold, PTL

\* Under the same assumptions no sleeper that is due is passed over by a preemption.
THEOREM WokenInTime ==
    ASSUME Sheltered, LastingSleeps
    PROVE  SleepSpec /\ []BeforeOverflow => []SleepsNotTooLong
<1>1. DebtInv => SleepsNotTooLong
  BY DEF DebtInv, SleepsNotTooLong
<1> QED
  BY <1>1, DebtsHold, PTL

(***************************************************************************)
(* Turns are taken in order: what had its turn while a process waits lies  *)
(* between that process and the running one, in the order of the search.   *)
(***************************************************************************)

\* How far the search goes from slot p to slot x.
Ahead(p, x) == (x - p) % MAX_PROC

\* The slots that had a turn while p waits are those the search has visited on its way from
\* p to the one that is running.
TurnsInv ==
    /\ passed \in [Pids -> SUBSET Pids]
    /\ \A p \in Pids \ {IDLE}, c \in Pids :
          state[p] = "READY" /\ state[c] = "RUNNING"
             => \A x \in passed[p] : Ahead(p, x) <= Ahead(p, c)

LEMMA Around ==
    ASSUME NEW x \in Int, 0 - MAX_PROC <= x, x < MAX_PROC
    PROVE  x % MAX_PROC = IF x < 0 THEN x + MAX_PROC ELSE x
<1>1. MAX_PROC \in Nat /\ MAX_PROC > 0
  BY ProcAssumption
<1>2. CASE x < 0
  <2>1. x % MAX_PROC = x + MAX_PROC
    BY <1>1, <1>2, SMT
  <2> QED
    BY <2>1, <1>2
<1>3. CASE 0 <= x
  BY <1>1, <1>3
<1> QED
  BY <1>2, <1>3

\* A slot that the search from c finds no later than p lies beyond c on the way from p.
LEMMA Beyond ==
    ASSUME NEW c \in Pids, NEW p \in Pids, NEW q \in Pids, p # c, q # p,
           Turn(c, q) <= Turn(c, p)
    PROVE  Ahead(p, q) > Ahead(p, c)
<1>1. MAX_PROC \in Nat /\ c \in 1 .. MAX_PROC /\ p \in 1 .. MAX_PROC /\ q \in 1 .. MAX_PROC
  BY ProcAssumption DEF Pids
<1>2. /\ Turn(c, q) = IF q - 1 - c < 0 THEN q - 1 - c + MAX_PROC ELSE q - 1 - c
      /\ Turn(c, p) = IF p - 1 - c < 0 THEN p - 1 - c + MAX_PROC ELSE p - 1 - c
      /\ Ahead(p, q) = IF q - p < 0 THEN q - p + MAX_PROC ELSE q - p
      /\ Ahead(p, c) = IF c - p < 0 THEN c - p + MAX_PROC ELSE c - p
  <2> HIDE DEF Turn
  <2>1. ASSUME NEW a \in 1 .. MAX_PROC, NEW b \in 1 .. MAX_PROC
        PROVE  /\ Turn(a, b) = IF b - 1 - a < 0 THEN b - 1 - a + MAX_PROC ELSE b - 1 - a
               /\ Ahead(a, b) = IF b - a < 0 THEN b - a + MAX_PROC ELSE b - a
    <3>1. /\ b - 1 - a \in Int /\ 0 - MAX_PROC <= b - 1 - a /\ b - 1 - a < MAX_PROC
          /\ b - a \in Int /\ 0 - MAX_PROC <= b - a /\ b - a < MAX_PROC
      BY <1>1
    <3>2. (b - 1 - a) % MAX_PROC = IF b - 1 - a < 0 THEN b - 1 - a + MAX_PROC ELSE b - 1 - a
      BY <3>1, Around
    <3>3. (b - a) % MAX_PROC = IF b - a < 0 THEN b - a + MAX_PROC ELSE b - a
      BY <3>1, Around
    <3> QED
      BY <3>2, <3>3 DEF Turn, Ahead
  <2> QED
    BY <1>1, <2>1
<1> QED
  BY <1>1, <1>2

\* The slot elected comes no later than any other candidate.
LEMMA ElectedFirst ==
    ASSUME NEW st \in Tables, NEW pid \in Slots, NEW r \in Candidates(st)
    PROVE  Turn(pid, Elect(st, pid)) <= Turn(pid, r)
<1>1. Candidates(st) \in SUBSET Pids /\ Candidates(st) # {}
  BY DEF Candidates, Having
<1>2. \E q \in Candidates(st) : \A s \in Candidates(st) : Turn(pid, q) <= Turn(pid, s)
  BY <1>1, FirstTurnExists
<1> QED
  BY <1>1, <1>2 DEF Elect

\* An election after an exit begins at the first slot; any other at the slot that was running.
\* It gives no process that waits its turn after a slot beyond it.
LEMMA Turns ==
    ASSUME ProcInv, Sheltered, Election
    PROVE  /\ Electing
           /\ Head(pending').to \in Pids
           /\ \A c \in Pids : state'[c] = "RUNNING" <=> c = Head(pending').to
           /\ Head(pending').from # 0 =>
                /\ Head(pending').from \in Pids /\ state[Head(pending').from] = "RUNNING"
                /\ \A p \in Pids \ {IDLE} : Waits(p) =>
                      Turn(Head(pending').from, Head(pending').to) <= Turn(Head(pending').from, p)
<1>1. PICK st \in Tables, pid \in Slots, wake \in [Pids -> Int] :
         /\ scheduler(pid, st, wake, timer_ticks')
         /\ \A p \in Pids : st[p] = "RUNNING" => p = pid
         /\ st[IDLE] # "TERMINATED"
         /\ pending = <<>>
         /\ pid # 0 => pid \in Pids /\ state[pid] = "RUNNING"
  BY ElectionTable
<1> DEFINE awake == Awake(st, pid, wake, timer_ticks')
           next == Elect(awake, pid)
<1>2. awake \in Tables
  BY AwakeTable
<1>3. next \in Pids
  BY <1>2, Elected
<1>4. \A r \in Candidates(awake) : Turn(pid, next) <= Turn(pid, r)
  BY <1>2, ElectedFirst
<1>5. /\ state' = [awake EXCEPT ![next] = "RUNNING"]
      /\ pending' = <<[from |-> pid, to |-> next]>>
  BY <1>1 DEF scheduler
<1>6. \A p \in Slots : awake[p] = "RUNNING" => p = 0
  <2>1. \A p \in Slots : awake[p] = "RUNNING" => st[p] = "RUNNING" /\ p # pid
    BY AwakeTable
  <2> QED
    BY <1>1, <2>1, ProcAssumption DEF Slots, Pids
<1> HIDE DEF awake, next
<1>7. Pids \subseteq Slots /\ 0 \notin Pids
  BY ProcAssumption DEF Pids, Slots
<1>8. \A p \in Pids : state'[p] = IF p = next THEN "RUNNING" ELSE awake[p]
  BY <1>2, <1>3, <1>5, <1>7 DEF Tables
<1>9. Head(pending').to = next /\ Head(pending').from = pid
  BY <1>5
<1>10. \A p \in Pids \ {IDLE} : Waits(p) => p \in Candidates(awake)
  BY <1>8 DEF Waits, Candidates, Having
<1>11. Electing
  BY <1>1, <1>5 DEF Electing
<1> QED
  BY <1>1, <1>3, <1>4, <1>6, <1>7, <1>8, <1>9, <1>10, <1>11

\* The promise of a step, and what the invariant owes it.
LEMMA TurnsStep ==
    ASSUME ExitOpensRound = TRUE, Sheltered, ProcInv, TurnsInv, [TurnsNext]_tvars
    PROVE  /\ TurnsInv'
           /\ \A p \in Pids \ {IDLE} : Electing /\ Waits(p) => Head(pending').to \notin Earlier(p)
<1>1. CASE UNCHANGED tvars
  BY <1>1 DEF tvars, vars, TurnsInv, Electing, ProcInv, TypeOK
<1>2. CASE TurnsNext
  <2>1. Next /\ passed \in [Pids -> SUBSET Pids]
    BY <1>2 DEF TurnsNext, TurnsInv
  <2>2. \A p \in Pids : passed'[p] = IF ~ Waits(p) THEN {}
                                     ELSE IF Electing THEN Earlier(p) \cup {Head(pending').to}
                                     ELSE passed[p]
    BY <1>2 DEF TurnsNext
  <2>3. CASE Election
    <3> DEFINE q == Head(pending').to
               c == Head(pending').from
    <3>1. Electing /\ q \in Pids /\ \A r \in Pids : state'[r] = "RUNNING" <=> r = q
      BY <2>3, Turns
    <3>2. ASSUME c # 0
          PROVE  /\ c \in Pids /\ state[c] = "RUNNING"
                 /\ \A p \in Pids \ {IDLE} : Waits(p) => Turn(c, q) <= Turn(c, p)
      BY <2>3, <3>2, Turns
    <3> HIDE DEF q, c
    <3>3. \A p \in Pids : Earlier(p) = IF c = 0 THEN {} ELSE passed[p]
      BY DEF Earlier, c
    <3>4. ASSUME NEW p \in Pids \ {IDLE}, Waits(p)
          PROVE  q \notin Earlier(p) /\ \A x \in Earlier(p) : Ahead(p, x) <= Ahead(p, q)
      <4>1. CASE c = 0
        BY <3>3, <4>1
      <4>2. CASE c # 0
        <5>1. c \in Pids /\ state[c] = "RUNNING" /\ Turn(c, q) <= Turn(c, p)
          BY <3>2, <3>4, <4>2
        <5>2. p # c /\ q # p
          BY <3>1, <3>4, <5>1 DEF Waits
        <5>3. Ahead(p, q) > Ahead(p, c)
          BY <3>1, <5>1, <5>2, Beyond
        <5>4. \A x \in passed[p] : Ahead(p, x) <= Ahead(p, c)
          BY <3>4, <5>1 DEF TurnsInv, Waits
        <5>5. \A x \in Pids : Ahead(p, x) \in Int
          BY ProcAssumption DEF Ahead, Pids
        <5> QED
          BY <2>1, <3>1, <3>3, <4>2, <5>1, <5>3, <5>4, <5>5
      <4> QED
        BY <4>1, <4>2
    <3>5. passed' \in [Pids -> SUBSET Pids]
      <4>1. DOMAIN passed' = Pids /\ passed' = [p \in Pids |-> passed'[p]]
        BY <1>2 DEF TurnsNext
      <4>2. ASSUME NEW p \in Pids PROVE passed'[p] \in SUBSET Pids
        <5>1. passed'[p] = {} \/ passed'[p] = Earlier(p) \cup {q}
          BY <2>2, <3>1 DEF q
        <5> QED
          BY <2>1, <3>1, <3>3, <5>1
      <4> QED
        BY <4>1, <4>2
    <3>6. ASSUME NEW p \in Pids \ {IDLE}, NEW x \in passed'[p]
          PROVE  Ahead(p, x) <= Ahead(p, q)
      <4>1. Waits(p) /\ x \in Earlier(p) \cup {q}
        BY <2>2, <3>1, <3>6 DEF q
      <4>2. Ahead(p, q) \in Int
        BY <3>1, ProcAssumption DEF Ahead, Pids
      <4> QED
        BY <3>4, <4>1, <4>2
    <3>7. TurnsInv'
      BY <3>1, <3>5, <3>6 DEF TurnsInv, Ahead
    <3> QED
      BY <3>4, <3>7 DEF q
  <2>4. CASE ~ Election
    <3>1. /\ ~ Electing
          /\ state' = state \/ state' = [state EXCEPT ![get_pid(state)] = "READY"]
      BY <2>1, <2>4, OtherSteps
    <3>2. state \in Tables /\ Pids \subseteq Slots
      <4>1. Pids \subseteq Slots
        BY ProcAssumption DEF Pids, Slots
      <4> QED
        BY <4>1 DEF ProcInv, TypeOK, Tables
    <3>3. \A c \in Pids : state'[c] = "RUNNING" => state[c] = "RUNNING"
      BY <3>1, <3>2 DEF Tables
    <3>4. \A p \in Pids : passed'[p] = {} \/ (state[p] = "READY" /\ passed'[p] = passed[p])
      BY <2>2, <3>1 DEF Waits
    <3>5. passed' \in [Pids -> SUBSET Pids]
      <4>1. DOMAIN passed' = Pids /\ passed' = [p \in Pids |-> passed'[p]]
        BY <1>2 DEF TurnsNext
      <4> QED
        BY <2>1, <3>4, <4>1
    <3>6. TurnsInv'
      BY <3>3, <3>4, <3>5 DEF TurnsInv, Ahead
    <3> QED
      BY <3>1, <3>6
  <2> QED
    BY <2>3, <2>4
<1> QED
  BY <1>1, <1>2

\* "Scheduler tourniquet": no slot gets the processor twice while a ready process waits for
\* its first turn, if an exit, after which the search starts again at slot 1, counts as a new
\* round: for every table size, whatever is forked, put to sleep, woken and killed meanwhile.
THEOREM RoundRobinCorrect ==
    ASSUME Sheltered, ExitOpensRound = TRUE
    PROVE  TurnsSpec => RoundRobin
<1>1. TurnsInit => TurnsInv
  BY DEF TurnsInit, TurnsInv
<1>2. ProcInv /\ TurnsInv /\ [TurnsNext]_tvars => TurnsInv'
  BY TurnsStep
<1>3. ProcInv /\ TurnsInv /\ [TurnsNext]_tvars
        => [\A p \in Pids \ {IDLE} :
               Electing /\ Waits(p) => Head(pending').to \notin Earlier(p)]_tvars
  BY TurnsStep
<1>4. TurnsSpec => Spec
  <2>1. [TurnsNext]_tvars => [Next]_vars
    BY DEF TurnsNext, tvars
  <2> QED
    BY <2>1, PTL DEF TurnsSpec, TurnsInit, Spec
<1> QED
  BY <1>1, <1>2, <1>3, <1>4, Invariant, PTL DEF TurnsSpec, RoundRobin
=============================================================================
