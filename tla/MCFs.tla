-------------------------------- MODULE MCFs --------------------------------
(***************************************************************************)
(* The file system for TLC: paths of one to three components, each of      *)
(* which can be a file or a directory.  Of what a copy puts below the      *)
(* longest ones no byte, or one byte, of the name is left.                 *)
(***************************************************************************)
EXTENDS FileSystem

MCWords   == {"/", "aa", "bbbbbbb", "home", "user", "readme.txt", "hello.txt"}
MCStrings == UNION {{SubSeq(w, 1, n) : n \in 0 .. Len(w)} : w \in MCWords}

MCPaths == {Root, <<"/", "aa">>, <<"/", "aa", "aa">>, <<"/", "aa", "aa", "aa">>,
            <<"/", "bbbbbbb">>}
MCTexts == {<<"x", "y">>}
=============================================================================
