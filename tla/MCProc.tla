------------------------------- MODULE MCProc -------------------------------
(***************************************************************************)
(* Values of Proc's constants for TLC.                                     *)
(***************************************************************************)
EXTENDS Proc

\* Sleeps that end at once, and that may outlast the next preemption.
MCDurations == {0, 2}

\* The user processes of the table, the free slots among them.
MCUsers == Pids \ {IDLE}

\* A window is shorter than a tick: the only tick that lands in one is the next one.
OneTickAtMost == timer_tick => pending = <<>>
=============================================================================
