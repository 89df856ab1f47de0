----------------------------- MODULE MCFsDurable -----------------------------
(***************************************************************************)
(* The file system across power losses and failed writes for TLC.  One     *)
(* parent, of nine bytes, and two names are long enough to be torn; what   *)
(* is left of the parent can be the path of the entry itself.  A child of  *)
(* /othername keeps one byte of its name.                                  *)
(***************************************************************************)
EXTENDS FsDurable

MCWords   == {"/", "longname", "ab", "othername", "longnaXX", "home", "user", "readme.txt",
              "hello.txt"}
MCStrings == UNION {{SubSeq(w, 1, n) : n \in 0 .. Len(w)} : w \in MCWords}

MCPaths  == {<<"/", "longname">>, <<"/", "othername">>, <<"/", "longname", "ab">>}
MCScraps == {<<"/", "longname", "ab">>, <<"longnaXX">>}
MCTexts  == {<<"x", "y">>}
==============================================================================
