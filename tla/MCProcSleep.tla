---------------------------- MODULE MCProcSleep -----------------------------
(***************************************************************************)
(* Values of ProcSleep's constants for TLC.                                *)
(***************************************************************************)
EXTENDS ProcSleep

\* No sleep, one shorter and one longer than a period between preemptions.
MCDurations == {0, 1, 3}

\* Kills of one process, which has others before and after it in the table.
MCMiddle == {3}
=============================================================================
