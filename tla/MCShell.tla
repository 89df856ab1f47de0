------------------------------- MODULE MCShell ------------------------------
(***************************************************************************)
(* The commands on files for TLC.  Names of three characters fill their    *)
(* array, as those of 31 do in the code, a longer one is split, and two of *)
(* them are too long for a path, so that a copy cuts the second.           *)
(***************************************************************************)
EXTENDS Shell

MCWords   == {"/", "aaa", "bb", "home", "user", "readme.txt", "hello.txt"}
MCStrings == UNION {{SubSeq(w, 1, n) : n \in 0 .. Len(w)} : w \in MCWords}

MCArgs  == {"/aaa", " /bb", "aaabb", "../bb//.."}
MCPairs == {<<"/aaa", "aaabb">>, <<"/aaa", " /bb">>}
MCTyped == {"", "a", "/", "/b", "aaa/", "../b", "aaabb"}
MCTexts == {<<"x", "y">>}
=============================================================================
