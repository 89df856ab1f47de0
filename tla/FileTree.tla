------------------------------ MODULE FileTree ------------------------------
(***************************************************************************)
(* What the file system of n7OS promises between two starts, with no table *)
(* and no disk: a tree of names, in which a request that succeeds happens  *)
(* whole and at once, and one that fails changes nothing, unless it is a   *)
(* copy.  fs.c implements it: see FileSystem.  It promises less than one   *)
(* expects: a file may be a parent, and what is below it is not copied     *)
(* with it, nor with a directory that the file is in; and what is copied   *)
(* to a path that would be too long is found under a part of its name.     *)
(***************************************************************************)
EXTENDS PathNames

CONSTANTS
    Dir,        \* what is found where a directory is
    Room        \* the length of the longest text

VARIABLES
    request,    \* an operation with its path and its argument, or None
    tree,       \* what is found at each path: Dir, or the text of a file
    status      \* of the last operation: 0 or -1

tvars == <<request, tree, status>>

None == <<>>

Below(q) == {p \in DOMAIN tree : p = q \/ IsBelow(p, q)}

Fit(text) == SubSeq(text, 1, IF Len(text) < Room THEN Len(text) ELSE Room)

TInit == request = None /\ tree = [p \in {} |-> Dir] /\ status = 0

CanMake(p) == /\ p \notin DOMAIN tree \cup {Root}
              /\ fs_parent_path(p) \in DOMAIN tree \cup {Root}

Make(p, it) ==
    /\ CanMake(p)
    /\ tree' = [q \in DOMAIN tree \cup {p} |-> IF q = p THEN it ELSE tree[q]]

\* A file gets a text; it is made if there is none.
Set(p, text) ==
    \/ Make(p, text)
    \/ p \in DOMAIN tree /\ tree[p] # Dir /\ tree' = [tree EXCEPT ![p] = text]

Remove(p) ==
    /\ p \in DOMAIN tree
    /\ tree' = [q \in DOMAIN tree \ Below(p) |-> tree[q]]

\* A copy takes with it what it reaches through directories, and goes into itself without end
\* if it reaches the place where it begins.
Reached(p, src) == \A q \in Below(src) : IsBelow(p, q) => tree[q] = Dir
Copied(src)     == {p \in Below(src) : Reached(p, src)}

\* Each thing gets its own place, a child of the place of its parent.
IsPlacing(place, src, dst) ==
    /\ place[src] = dst
    /\ \A p \in Copied(src) \ {src} :
          place[p] = build_child_path(place[fs_parent_path(p)], fs_path_name(p))
    /\ \A p, q \in Copied(src) : place[p] = place[q] => p = q

Copy(src, dst) ==
    /\ src \in DOMAIN tree /\ CanMake(dst)
    /\ ~ (IsBelow(dst, src) /\ Reached(dst, src))
    /\ DOMAIN tree \subseteq DOMAIN tree'
    /\ \A q \in DOMAIN tree : tree'[q] = tree[q]
    /\ \E place \in [Copied(src) -> DOMAIN tree' \ DOMAIN tree] :
          /\ IsPlacing(place, src, dst)
          /\ DOMAIN tree' = DOMAIN tree \cup {place[p] : p \in Copied(src)}
          /\ \A p \in Copied(src) : tree'[place[p]] = tree[p]

\* A copy that fails may leave a part of itself, but touches nothing else.
CopyPart(dst) ==
    /\ DOMAIN tree \subseteq DOMAIN tree'
    /\ \A q \in DOMAIN tree' : IF q \in DOMAIN tree THEN tree'[q] = tree[q] ELSE Begins(q, dst)

Old(p) == IF p \in DOMAIN tree THEN tree[p] ELSE <<>>

\* The request has its effect; whether it is kept on the disk is reported later, or is
\* no question because nothing changes.
Succeed ==
    /\ LET p == request.path
           a == request.arg
       IN  \/ request.do = "mkdir"  /\ Make(p, Dir)
           \/ request.do = "create" /\ Make(p, <<>>)
           \/ request.do = "write"  /\ Set(p, Fit(a))
           \/ request.do = "append" /\ Old(p) # Dir /\ Set(p, Fit(Old(p) \o a))
           \/ request.do = "remove" /\ Remove(p)
           \/ request.do = "copy"   /\ Copy(p, a)
           \/ request.do = "sync"   /\ UNCHANGED tree
    /\ status' = status \/ (status' = 0 /\ UNCHANGED tree)

Refuse ==
    /\ status' = -1
    /\ UNCHANGED tree \/ (request.do = "copy" /\ CopyPart(request.arg))

Report == UNCHANGED tree /\ status' \in {0, -1}

TNext == IF request = None THEN Report ELSE Succeed \/ Refuse

TSpec == TInit /\ [][TNext]_tvars
=============================================================================
