------------------------------- MODULE MCStart ------------------------------
(***************************************************************************)
(* The start, the calls of the library and the printing for TLC.           *)
(***************************************************************************)
EXTENDS Start

\* The strings of at most n characters.
MCStrings(n) == UNION {[1 .. k -> {1, 2}] : k \in 0 .. n}
MCFirsts  == MCStrings(4)
MCSeconds == MCStrings(3)

MCFormats == [conv : {"d", "u", "o", "x", "p", "z"}, altfmt : BOOLEAN, ladjust : BOOLEAN,
              plus_sign : {0, BLANK, PLUS}, padc : {BLANK, ZERO}, length : {0, 4},
              prec : {-1, 3}]
      \cup [conv : {"s"}, altfmt : {FALSE}, ladjust : BOOLEAN, plus_sign : {0},
             padc : {BLANK}, length : {0, 4}, prec : {-1, 0, 2}]
MCArguments == 0 .. 63

\* Words at the ends of their range, as the halves of double words.
MCDoubles == {h * 64 + l : h \in {0, 1, 2, 3, 31, 32, 62, 63}, l \in {0, 1, 2, 31, 32, 62, 63}}
MCDivisors == MCDoubles \ {0}

\* In the middle and at the start of a page that is mapped.
MCHeaps == {3, 4}

\* Texts shorter than the buffer, that fill it, and with a character more, and a line's end.
MCBootTexts == {<<97, NEWLINE>>}
MCTexts == {<<97>>, <<97, 98, 99>>, <<97, 98, NEWLINE, 99>>, <<97, 98, 99, 100, 101>>}
=============================================================================
