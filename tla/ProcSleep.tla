----------------------------- MODULE ProcSleep ------------------------------
(***************************************************************************)
(* Proc observed by a clock of its own: for every process, the ticks its   *)
(* last sleep still owes it.  The clock counts interrupts and knows        *)
(* nothing of sleeping_end_time, of the conversion to int or of wrapping.  *)
(***************************************************************************)
EXTENDS Proc

VARIABLE owed   \* owed[p]: ticks before p's sleep is over, negative when overdue

svars == <<vars, owed>>

\* The debt of p after a step that leaves due ticks of its sleep: it is cancelled when
\* the sleep ends on time and when the process is terminated.
Settled(p, due) ==
    IF state'[p] = "TERMINATED" \/ (state'[p] # "BLOCKED" /\ due <= 0) THEN 0 ELSE due

SleepInit == Init /\ owed = [p \in Pids |-> 0]

Sleeping(d) ==
    /\ sys_sleep(d)
    /\ owed' = [p \in Pids |-> Settled(p, IF p = get_current_pid(state) THEN d ELSE owed[p])]

Ticking ==
    /\ timer_tick \/ timer_preempt
    /\ owed' = [p \in Pids |-> Settled(p, IF state[p] = "BLOCKED" THEN owed[p] - 1
                                          ELSE owed[p])]

Other ==
    /\ \/ sys_fork \/ sys_exit \/ ctx_sw \/ boot_claim \/ boot_furnish
       \/ \E p \in Killable : sys_kill(p)
    /\ owed' = [p \in Pids |-> Settled(p, owed[p])]

SleepNext == (\E d \in Durations : Sleeping(d)) \/ Ticking \/ Other

SleepSpec == SleepInit /\ [][SleepNext]_svars

\* Ticks early enough that no wake-up time leaves the positive ints.
BeforeOverflow ==
    \A d \in Durations : 2 * (timer_ticks + d) < TickModulus - 2

-----------------------------------------------------------------------------

\* sleep(d) returns after d ticks at the earliest, whatever wakes, kills and switches
\* happen meanwhile.
SleepsLongEnough ==
    \A p \in Pids : state[p] \in {"READY", "RUNNING"} => owed[p] <= 0

\* A sleeper is woken at the latest by the first preemption at which its time is up: one
\* that is overdue has been so for fewer ticks than there were since the last preemption.
SleepsNotTooLong ==
    \A p \in Pids : state[p] = "BLOCKED" => owed[p] > - (timer_ticks % SchedPeriod)
=============================================================================
