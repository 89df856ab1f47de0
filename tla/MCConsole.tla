----------------------------- MODULE MCConsole ------------------------------
(***************************************************************************)
(* Values of Console's constants for TLC: three lines of four columns, and *)
(* texts with every kind of control character.                             *)
(***************************************************************************)
EXTENDS Console

MCPrintable == {Space, "a", "N"}
MCLeft  == <<"N">>
MCRight == <<Space, "N">>
MCTexts == {<<FORMFEED, NEWLINE>>, <<"a", NEWLINE, "a">>, <<TAB, "a", BACKSPACE>>,
            <<"N", RETURN, "a">>}
=============================================================================
