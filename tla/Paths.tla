------------------------------- MODULE Paths --------------------------------
(***************************************************************************)
(* The paths that users type, and what fs_resolve_path and fs_complete of  *)
(* kernel/fs.c make of them.                                               *)
(*                                                                         *)
(* A text is a string; a path is a sequence of components, as in           *)
(* PathNames.                                                              *)
(***************************************************************************)
EXTENDS PathNames

Seqs == INSTANCE SequencesExt

CONSTANT MAX_PARTS      \* components that fs_resolve_path has room for (16)

ASSUME MaxPartsAssumption == MAX_PARTS \in Nat \ {0}

Bad == <<>>     \* no path: fs_resolve_path returns -1

Char(text, i) == SubSeq(text, i, i)
Chars(text)   == [i \in 1 .. Len(text) |-> Char(text, i)]
From(text, i) == SubSeq(text, i, Len(text))

IsPrefixOf(text, other) == Clip(other, Len(text)) = text

\* The text of a path.
Text(path) == Seqs!FoldLeft(LAMBDA text, name : text \o (IF text = "/" THEN "" ELSE "/") \o name,
                            Head(path), Tail(path))

trim_spaces(text) ==
    From(text, CHOOSE i \in 1 .. Len(text) + 1 :
                  /\ i = Len(text) + 1 \/ Char(text, i) # " "
                  /\ \A j \in 1 .. i - 1 : Char(text, j) = " ")

-----------------------------------------------------------------------------
(***************************************************************************)
(* Resolution.  A piece that fills a name ends there: the rest of a longer *)
(* one becomes the next component.                                         *)
(***************************************************************************)
Pieces(text) ==
    LET Close(s) == IF s.part = "" THEN s ELSE [done |-> Append(s.done, s.part), part |-> ""]
        Read(s, c) ==
            IF c = "/" \/ Len(s.part) = FS_MAX_NAME - 1
            THEN [Close(s) EXCEPT !.part = IF c = "/" THEN "" ELSE c]
            ELSE [s EXCEPT !.part = @ \o c]
    IN  Close(Seqs!FoldLeft(Read, [done |-> <<>>, part |-> ""], Chars(text))).done

\* From a path on; Bad when there is a component too many on the way, even if ".." follows.
Walk(from, pieces) ==
    LET Step(at, piece) ==
            CASE at = Bad            -> Bad
              [] piece = "."         -> at
              [] piece = ".."        -> IF at = Root THEN Root ELSE Front(at)
              [] OTHER               -> IF Len(at) > MAX_PARTS THEN Bad ELSE Append(at, piece)
    IN  Seqs!FoldLeft(Step, from, pieces)

IsAbsolute(text) == Char(text, 1) = "/"

\* Mutant: a path that begins with ".." is taken from the root.
Start_FromTop(cwd, text) ==
    IF IsAbsolute(text) \/ IsPrefixOf("..", text) THEN Root ELSE Walk(Root, Pieces(Text(cwd)))

\* Where a relative path begins: in the current directory, split again into its components.
Start(cwd, text) == IF IsAbsolute(text) THEN Root ELSE Walk(Root, Pieces(Text(cwd)))

fs_resolve_path(cwd, arg) ==
    LET text == trim_spaces(arg)
        path == Walk(Start(cwd, text), Pieces(text))
    IN  IF text = "" \/ path = Bad \/ (path # Root /\ Len(Text(path)) + 1 >= FS_MAX_PATH)
        THEN Bad
        ELSE path

-----------------------------------------------------------------------------
(***************************************************************************)
(* Completion among the entries of a table t that a user can see.          *)
(***************************************************************************)
\* The place of the last slash of a text, or 0.
LastSlash(text) ==
    CHOOSE i \in 0 .. Len(text) : /\ i = 0 \/ Char(text, i) = "/"
                                  /\ \A j \in i + 1 .. Len(text) : Char(text, j) # "/"

\* The directory of the typed text and what is there of a name.
Parent(text)  ==
    IF LastSlash(text) = 1 THEN "/" ELSE Clip(Clip(text, LastSlash(text) - 1), FS_MAX_PATH - 1)
Partial(text) == Clip(From(text, LastSlash(text) + 1), FS_MAX_NAME - 1)

BaseDir(cwd, text) ==
    IF LastSlash(text) = 0 THEN cwd ELSE fs_resolve_path(cwd, Parent(text))

\* Mutant: the entries of the current directory are offered wherever the text leads.
Candidates_Here(t, cwd, text) ==
    {i \in DOMAIN t : t[i].used /\ t[i].parent = cwd
                                /\ IsPrefixOf(Partial(text), Text(t[i].name))}

Candidates(t, cwd, text) ==
    LET base == BaseDir(cwd, text)
    IN  {i \in DOMAIN t : t[i].used /\ base # Bad /\ t[i].parent = base
                                    /\ IsPrefixOf(Partial(text), Text(t[i].name))}

\* What the text becomes if entry is the only candidate.
Chosen(text, entry) ==
    LET whole == IF LastSlash(text) = 0 THEN Text(entry.name)
                 ELSE IF Parent(text) = "/" THEN "/" \o Text(entry.name)
                 ELSE Parent(text) \o "/" \o Text(entry.name)
        short == Clip(whole, FS_MAX_PATH - 1)
    IN  IF entry.is_dir /\ Len(short) + 1 < FS_MAX_PATH THEN short \o "/" ELSE short

\* The completion of a text, or the text itself if there is not exactly one candidate.
fs_complete(t, cwd, text) ==
    LET found == Candidates(t, cwd, text)
    IN  IF \E i \in found : found = {i}
        THEN Chosen(text, t[CHOOSE i \in found : TRUE])
        ELSE text
=============================================================================
