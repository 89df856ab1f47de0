----------------------------- MODULE Multitask ------------------------------
(***************************************************************************)
(* What the process manager of n7OS promises, with no table, registers or  *)
(* interrupts: one processor, at every moment executing exactly one        *)
(* process, which is chosen among those that are ready; the idle process   *)
(* only for want of another.  proc.c implements it: see Proc.              *)
(***************************************************************************)
CONSTANTS
    Procs,      \* process identities
    Idle        \* the one that runs when no other can

VARIABLES
    owner,      \* the process the processor executes
    ready,      \* the processes waiting for it
    asleep      \* the processes waiting for a time

mvars == <<owner, ready, asleep>>

Alive == {owner} \cup ready \cup asleep

MInit == owner = Idle /\ ready = {} /\ asleep = {}

\* A free identity becomes a ready process.
Spawn(p) ==
    /\ p \notin Alive
    /\ ready' = ready \cup {p}
    /\ UNCHANGED <<owner, asleep>>

\* The processor goes to one of the processes in able, or to Idle if it is alone; the
\* others are ready, and sleeping of them are still asleep.
Dispatch(able, sleeping) ==
    /\ asleep' = sleeping
    /\ owner' \in IF able \subseteq {Idle} THEN {Idle} ELSE able \ {Idle}
    /\ ready' = able \ {owner'}

\* Some sleepers wake up, and the processor is given anew: after the owner used up its
\* time slice, went to sleep, or terminated, or after it killed p.
Preempt == \E woken \in SUBSET asleep :
    Dispatch(ready \cup {owner} \cup woken, asleep \ woken)

Sleep == owner # Idle /\ \E woken \in SUBSET (asleep \cup {owner}) :
    Dispatch(ready \cup woken, (asleep \cup {owner}) \ woken)

Exit == owner # Idle /\ \E woken \in SUBSET asleep :
    Dispatch(ready \cup woken, asleep \ woken)

Kill(p) ==
    /\ owner # Idle
    /\ p \in (ready \cup asleep) \ {Idle}
    /\ \E woken \in SUBSET (asleep \ {p}) :
          Dispatch((ready \ {p}) \cup {owner} \cup woken, asleep \ ({p} \cup woken))

MNext ==
    \/ \E p \in Procs : Spawn(p) \/ Kill(p)
    \/ Preempt
    \/ Sleep
    \/ Exit

MSpec == MInit /\ [][MNext]_mvars

\* A process waits for the processor, waits for a time or runs: never two of these, and
\* Idle is never asleep nor gone.
OnePlace ==
    /\ ready \cap asleep = {}
    /\ owner \notin ready \cup asleep
    /\ Idle \in ready \cup {owner}
=============================================================================
