------------------------------ MODULE PathNames ------------------------------
(***************************************************************************)
(* Paths as kernel/fs.c keeps them, their names and their parents.         *)
(*                                                                         *)
(* A path is the sequence of its components: what stands between two       *)
(* slashes, with "/" for the first one of an absolute path.  A slash at    *)
(* the end leaves an empty component behind it, as in <<"/", "a", "">>.    *)
(* The empty text is <<>>.                                                 *)
(***************************************************************************)
EXTENDS Integers, Sequences

CONSTANTS
    FS_MAX_PATH,    \* bytes of a path, the NUL included (64)
    FS_MAX_NAME,    \* bytes of a name, the NUL included (32)
    Strings         \* the components that occur, and their beginnings

ASSUME PathNamesAssumption ==
    /\ FS_MAX_PATH \in Nat /\ FS_MAX_PATH >= 3
    /\ FS_MAX_NAME \in Nat /\ FS_MAX_NAME >= 3

\* What Len and SubSeq are on strings.
ASSUME StringsAssumption ==
    /\ Strings \subseteq STRING
    /\ "/" \in Strings
    /\ \A s \in Strings :
          /\ Len(s) \in Nat /\ SubSeq(s, 1, Len(s)) = s
          /\ Len(s) = 0 <=> s = ""
          /\ \A n \in 0 .. Len(s) : SubSeq(s, 1, n) \in Strings /\ Len(SubSeq(s, 1, n)) = n

Root  == <<"/">>
Paths == Seq(Strings)
Named == {p \in Paths : p # <<>>}

\* The paths that fs_resolve_path returns have no empty component.
Names == Strings \ {""}
Clean == {p \in Seq(Names) : p # <<>>}

\* A string cut at n bytes.
Clip(text, n) == SubSeq(text, 1, IF Len(text) < n THEN Len(text) ELSE n)

\* The bytes of the first k components of a path, each with a slash behind it.
Width(p, k) ==
    LET width[i \in 0 .. Len(p)] ==
            IF i = 0 THEN 0
            ELSE width[i - 1] + (IF p[i] = "/" THEN 1 ELSE Len(p[i]) + 1)
    IN  width[k]

\* A path cut at n bytes: it ends in the last component that begins before them.
Clipped(p, n) ==
    LET last == CHOOSE k \in 1 .. Len(p) :
                   /\ k = 1 \/ Width(p, k - 1) <= n
                   /\ \A j \in k + 1 .. Len(p) : Width(p, j - 1) > n
    IN  Append(SubSeq(p, 1, last - 1), Clip(p[last], n - Width(p, last - 1)))

-----------------------------------------------------------------------------

Front(p) == SubSeq(p, 1, Len(p) - 1)

\* A path without the slashes at its end.
Trim(p) == SubSeq(p, 1, CHOOSE i \in 1 .. Len(p) :
                           /\ i = 1 \/ p[i] # ""
                           /\ \A j \in i + 1 .. Len(p) : p[j] = "")

fs_parent_path(p) == IF Len(Trim(p)) = 1 THEN Root ELSE Front(Trim(p))

\* The last name of a path, with the slashes behind it: it is a path too.
fs_path_name(p) == Clipped(SubSeq(p, Len(Trim(p)), Len(p)), FS_MAX_NAME - 1)

\* The bytes that are left for a name behind p and a slash; negative when that has no room.
RoomBehind(p) == FS_MAX_PATH - 1 - Width(p, Len(p))

\* A path that would be too long is cut, in the middle of the name or before it.
build_child_path(p, name) ==
    IF RoomBehind(p) < 0 THEN p ELSE p \o Clipped(name, RoomBehind(p))

Begins(p, q) == Len(p) >= Len(q) /\ SubSeq(p, 1, Len(q)) = q

\* fs_parent_path leads from p to q.
IsBelow(p, q) == Len(p) > Len(q) /\ Begins(p, q) /\ p[Len(q) + 1] # ""
=============================================================================
