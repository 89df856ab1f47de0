---------------------------- MODULE MCProcTurns -----------------------------
(***************************************************************************)
(* Values of ProcTurns's constants for TLC.                                *)
(***************************************************************************)
EXTENDS ProcTurns

MCDurations == {0, 1}

\* Kills of one process, which has others before and after it in the table.
MCMiddle == {3}

MCUsers == Pids \ {IDLE}
=============================================================================
