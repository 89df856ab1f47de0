------------------------------- MODULE MCHeap -------------------------------
(* Four pages of 64 bytes; small chunks below 32 bytes, fast ones of 16.  The   *)
(* elements are two large chunks of one bin, with small ones after each.         *)
EXTENDS Heap

MCElements == {<<4>>, <<60, 4, 68, 4>>}
=============================================================================
