---------------------------- MODULE MCLineEditor ----------------------------
(***************************************************************************)
(* Values of LineEditor's constants for TLC: three rows of five columns;   *)
(* a line of four characters with its prompt wraps.                        *)
(***************************************************************************)
EXTENDS LineEditor

MCPrintable == {Space, "c", "d", ">"}
MCLetters   == {"c", "d"}
MCPrompt    == <<">">>
MCBuiltins  == {<<"c", "d">>, <<"d">>}
MCNames     == {<<"c", "c">>}
MCOutputs   == {<<FORMFEED>>, <<"c", NEWLINE>>}
=============================================================================
