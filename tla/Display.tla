------------------------------- MODULE Display ------------------------------
(***************************************************************************)
(* What the console promises to the process that prints: each of its calls *)
(* happens at once, and there is no banner.  The lines below the first and *)
(* the cursor are all it knows of.                                         *)
(***************************************************************************)
EXTENDS Screen

CONSTANT Texts  \* the strings that processes print

VARIABLES text,     \* the lines below the first
          place     \* where the next character goes

display == <<text, place>>

\* The screen with this text; what is on the first line does not matter.
Shown == [cells |-> [i \in Cells |-> IF i \in DOMAIN text THEN text[i] ELSE Blank], cursor |-> place]

Becomes(s) == text' = Below(s.cells) /\ place' = s.cursor

Init == text = [i \in Width .. EndOfScreen - 1 |-> Blank] /\ place = 0

Move    == \E x \in 0 .. Width - 1, y \in 0 .. Height - 1 : Becomes(MoveTo(Shown, x, y))
PutChar == \E c \in Printable : Becomes(console_putchar(Shown, c))
Write   == \E t \in Texts : Becomes(console_putbytes(Shown, t))

Next == Move \/ PutChar \/ Write
Spec == Init /\ [][Next]_display
=============================================================================
