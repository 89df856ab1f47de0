----------------------------- MODULE ProcTurns ------------------------------
(***************************************************************************)
(* Proc observed with the order of elections: for every process, the       *)
(* slots elected since it became ready.                                    *)
(***************************************************************************)
EXTENDS Proc

CONSTANT ExitOpensRound     \* whether an exit starts a new round

ASSUME TurnsAssumption == ExitOpensRound \in BOOLEAN

VARIABLE passed     \* passed[p]: slots elected while p has been waiting, READY

tvars == <<vars, passed>>

Waits(p) == state[p] = "READY" /\ state'[p] = "READY"

TurnsInit == Init /\ passed = [p \in Pids |-> {}]

Earlier(p) == IF ExitOpensRound /\ Head(pending').from = 0 THEN {} ELSE passed[p]

TurnsNext ==
    /\ Next
    /\ passed' = [p \in Pids |->
                    IF ~ Waits(p) THEN {}
                    ELSE IF Electing THEN Earlier(p) \cup {Head(pending').to}
                    ELSE passed[p]]

TurnsSpec == TurnsInit /\ [][TurnsNext]_tvars

FairTurnsSpec == TurnsSpec /\ Fairness

-----------------------------------------------------------------------------

\* "Scheduler tourniquet": no slot gets the processor twice while a ready process
\* waits for its first turn, forks, sleeps, wake-ups and kills included.
RoundRobin ==
    [][\A p \in Pids \ {IDLE} :
         Electing /\ Waits(p) => Head(pending').to \notin Earlier(p)]_tvars
=============================================================================
