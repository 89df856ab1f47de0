-------------------------------- MODULE Fifo --------------------------------
(***************************************************************************)
(* What the keyboard buffer of n7OS promises: a bounded queue that one     *)
(* producer fills and one consumer empties from the other end, or clears.  *)
(* keyboard.c implements it with a ring and two indices: see Keyboard.     *)
(***************************************************************************)
EXTENDS Sequences, Naturals

CONSTANTS
    Values,     \* what the queue can hold
    None,       \* what a get from an empty queue returns
    Capacity

VARIABLES
    queue,
    taken,      \* what the last get returned
    clearing    \* whether the consumer is in the middle of a clear

fvars == <<queue, taken, clearing>>

FInit == queue = <<>> /\ taken = None /\ clearing = FALSE

HasRoom == Len(queue) < Capacity

\* A value is appended unless the queue is full or being cleared, when it is lost.
Put(v) ==
    /\ HasRoom /\ ~ clearing
    /\ queue' = Append(queue, v)
    /\ UNCHANGED <<taken, clearing>>

Get ==
    /\ ~ clearing
    /\ queue # <<>>
    /\ taken' = Head(queue)
    /\ queue' = Tail(queue)
    /\ UNCHANGED clearing

GetNone ==
    /\ ~ clearing
    /\ queue = <<>>
    /\ taken' = None
    /\ UNCHANGED <<queue, clearing>>

Clear == ~ clearing /\ queue' = <<>> /\ clearing' = TRUE /\ UNCHANGED taken

Cleared == clearing /\ queue' = <<>> /\ clearing' = FALSE /\ UNCHANGED taken

FNext == (\E v \in Values : Put(v)) \/ Get \/ GetNone \/ Clear \/ Cleared

FSpec == FInit /\ [][FNext]_fvars
=============================================================================
