----------------------------- MODULE MCKeyboard -----------------------------
(***************************************************************************)
(* Values of Keyboard's constants for TLC.                                 *)
(***************************************************************************)
EXTENDS Keyboard

CONSTANT a  \* the key that the user types

MCKeys == {a}

\* Keystrokes with shift and arrows going down and up, and the simplest ones.
MCStrokes == {<<a>>, <<SHIFT>>, <<UNSHIFT>>, <<RELEASE>>, <<E0, ARROW>>, <<E0, NOARROW>>}
=============================================================================
