------------------------------- MODULE MCSnake -------------------------------
(* A board with twelve cells for the snake, two keys at most in a tick. *)
EXTENDS Snake
=============================================================================
