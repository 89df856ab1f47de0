------------------------- MODULE FileSystem_proofs -------------------------
(***************************************************************************)
(* Theorems about FileSystem, for every size of the table and of the data, *)
(* all paths and texts, and every length at which they are cut: the table is*)
(* a tree (TreeCorrect), the disk keeps what is synced (DurableCorrect, about*)
(* FsDurable), and the OK of a command of Shell is true (OkCorrect, for which*)
(* the module from PathIs on is).                                          *)
(***************************************************************************)
EXTENDS FsDurable, Shell, Recursion_proofs, FiniteSetTheorems

\* Least chooses a least element.
LEMMA LeastProperty ==
    ASSUME NEW S \in SUBSET Nat, S # {}
    PROVE  Least(S) \in S /\ \A j \in S : Least(S) <= j
  BY LeastExists DEF Least

(***************************************************************************)
(* The table, and paths.                                                   *)
(***************************************************************************)

\* What TableIsTree says of a table: the entry that find_file finds by a path is the only one
\* that has it, and the parent of an entry is there.
Tree(t) ==
    \A i \in Files : t[i].used
        => /\ find_file(t, t[i].path) = i
           /\ t[i].parent = fs_parent_path(t[i].path)
           /\ t[i].name = fs_path_name(t[i].path)
           /\ t[i].parent = Root \/ Exists(t, t[i].parent)

Trees   == {t \in Tables : Tree(t)}

Ends    == {"sync", "fail", "done"}
Results == [entries : Trees, then : Ends]

\* What an operation leaves of any table, whether it is a tree or not.
Outcomes == [entries : Tables, then : Ends]

LEMMA Indices == /\ FS_MAX_FILES \in Nat \ {0} /\ FS_MAX_DATA \in Nat \ {0}
                 /\ Files = 1 .. FS_MAX_FILES /\ Files \in SUBSET Nat /\ 0 \notin Files
  BY FsAssumption DEF Files

LEMMA WiderItems == ASSUME NEW S, NEW W, S \subseteq W, NEW a \in Seq(S) PROVE a \in Seq(W)
<1>1. \A i \in 1 .. Len(a) : a[i] \in W
  OBVIOUS
<1> QED
  BY <1>1

\* A path without an empty component.
LEMMA CleanPaths ==
    ASSUME NEW p \in Clean
    PROVE  /\ p \in Named /\ p \in Paths /\ p \in Seq(Names)
           /\ Len(p) \in Nat /\ Len(p) >= 1 /\ p[Len(p)] \in Names
<1>1. Names \subseteq Strings
  BY DEF Names
<1>2. p \in Seq(Names) /\ p # <<>>
  BY DEF Clean
<1>3. Len(p) \in Nat /\ Len(p) >= 1 /\ p[Len(p)] \in Names
  BY <1>2
<1>4. p \in Seq(Strings)
  BY <1>1, <1>2, WiderItems
<1> QED
  BY <1>2, <1>3, <1>4 DEF Named, Paths

\* find_file finds an entry exactly if one has the path.
LEMMA Found ==
    ASSUME NEW t, NEW p
    PROVE  /\ Exists(t, p) <=> \E i \in Files : t[i].used /\ t[i].path = p
           /\ Exists(t, p) => /\ find_file(t, p) \in Files
                              /\ t[find_file(t, p)].used /\ t[find_file(t, p)].path = p
<1>1. Having(t, p) \in SUBSET Nat /\ Having(t, p) \subseteq Files
  BY Indices DEF Having
<1>2. Having(t, p) # {} => Least(Having(t, p)) \in Having(t, p)
  BY <1>1, LeastProperty
<1>3. \A i \in Having(t, p) : i \in Files /\ t[i].used /\ t[i].path = p
  BY DEF Having
<1>4. Having(t, p) # {} => find_file(t, p) \in Having(t, p)
  BY <1>2 DEF find_file
<1>5. Having(t, p) # {} <=> \E i \in Files : t[i].used /\ t[i].path = p
  BY DEF Having
<1>6. Having(t, p) = {} => find_file(t, p) = 0
  BY DEF find_file
<1> QED
  BY <1>3, <1>4, <1>5, <1>6, Indices DEF Exists

\* The only entry that has a path is the one that find_file finds.
LEMMA FoundAlone ==
    ASSUME NEW t, NEW i \in Files, t[i].used,
           \A j \in Files : t[j].used /\ t[j].path = t[i].path => j = i
    PROVE  find_file(t, t[i].path) = i
<1>1. Exists(t, t[i].path)
  BY Found
<1> QED
  BY <1>1, Found

\* In a tree no two entries have the same path.
LEMMA Alone ==
    ASSUME NEW t \in Trees, NEW i \in Files, NEW j \in Files,
           t[i].used, t[j].used, t[i].path = t[j].path
    PROVE  i = j
  BY DEF Trees, Tree

\* The strings that occur are strings, and so is what is cut off them.
LEMMA Clips ==
    ASSUME NEW s \in Strings, NEW n \in Nat
    PROVE  /\ Clip(s, n) \in Strings
           /\ n = 0 => Clip(s, n) = ""
           /\ s = "" => Clip(s, n) = ""
           /\ s # "" /\ n > 0 => Clip(s, n) # ""
<1>1. /\ Len(s) \in Nat /\ SubSeq(s, 1, Len(s)) = s /\ (Len(s) = 0 <=> s = "")
      /\ \A m \in 0 .. Len(s) : SubSeq(s, 1, m) \in Strings /\ Len(SubSeq(s, 1, m)) = m
      /\ \A x \in Strings : Len(x) = 0 <=> x = ""
  BY StringsAssumption
<1> DEFINE m == IF Len(s) < n THEN Len(s) ELSE n
<1>2. m \in 0 .. Len(s) /\ (n = 0 => m = 0) /\ (Len(s) = 0 => m = 0)
      /\ (Len(s) # 0 /\ n > 0 => m # 0)
  <2> DEFINE l == Len(s)
  <2>1. l \in Nat
    BY <1>1
  <2> HIDE DEF l
  <2>2. /\ (IF l < n THEN l ELSE n) \in 0 .. l
        /\ n = 0 => (IF l < n THEN l ELSE n) = 0
        /\ l = 0 => (IF l < n THEN l ELSE n) = 0
        /\ l # 0 /\ n > 0 => (IF l < n THEN l ELSE n) # 0
    BY <2>1
  <2> QED
    BY <2>2 DEF l
<1>3. Clip(s, n) = SubSeq(s, 1, m)
  BY DEF Clip
<1> HIDE DEF m
<1> QED
  BY <1>1, <1>2, <1>3

LEMMA SingleNamed == ASSUME NEW x \in Strings PROVE <<x>> \in Named
<1>1. <<x>> \in Seq(Strings) /\ Len(<<x>>) = 1
  OBVIOUS
<1>2. Len(<<>>) = 0
  OBVIOUS
<1> QED
  BY <1>1, <1>2 DEF Named, Paths

\* The bytes of a component and of the slash behind it.
Bytewise(s) == IF s = "/" THEN 1 ELSE Len(s) + 1

\* Every component makes a path longer.
LEMMA Widths ==
    ASSUME NEW p \in Paths
    PROVE  /\ Width(p, 0) = 0
           /\ \A k \in 0 .. Len(p) : Width(p, k) \in Nat
           /\ \A k \in 1 .. Len(p) : /\ Width(p, k) = Width(p, k - 1) + Bytewise(p[k])
                                     /\ Bytewise(p[k]) \in Nat \ {0}
<1> DEFINE N == Len(p)
           F == [i \in 1 .. N |-> [x \in Nat |-> x + Bytewise(p[i])]]
           Solution(g) == g = [i \in 0 .. N |-> IF i = 0 THEN 0 ELSE g[i - 1] + Bytewise(p[i])]
           W == CHOOSE g : Solution(g)
<1>1. N \in Nat /\ \A i \in 1 .. N : p[i] \in Strings
  BY DEF Paths
<1>2. \A s \in Strings : Bytewise(s) \in Nat \ {0}
  <2>1. \A s \in Strings : Len(s) \in Nat
    BY StringsAssumption
  <2> QED
    BY <2>1 DEF Bytewise
<1>3. \A i \in 1 .. N : Bytewise(p[i]) \in Nat \ {0}
  BY <1>1, <1>2
<1>4. \A k : Width(p, k) = W[k]
  BY DEF Width, Bytewise
<1> HIDE DEF N
<1>5. F \in [1 .. N -> [Nat -> Nat]]
  BY <1>3
<1>6. \A i \in 1 .. N, x \in Nat : F[i][x] = x + Bytewise(p[i])
  OBVIOUS
<1> HIDE DEF F
<1>7. PICK g \in [0 .. N -> Nat] : Follows(g, 0, F, N)
  BY <1>1, <1>5, RecursionExists
<1>8. ASSUME NEW i \in 0 .. N PROVE g[i] = IF i = 0 THEN 0 ELSE g[i - 1] + Bytewise(p[i])
  <2>1. CASE i = 0
    BY <1>7, <2>1 DEF Follows
  <2>2. CASE i # 0
    <3>1. i \in 1 .. N /\ i - 1 \in 0 .. N
      BY <1>1, <2>2
    <3> QED
      BY <1>6, <1>7, <2>2, <3>1 DEF Follows
  <2> QED
    BY <2>1, <2>2
<1>9. Solution(g)
  BY <1>7, <1>8
<1>10. Solution(W)
  <2> HIDE DEF Solution
  <2> QED
    BY <1>9
<1> HIDE DEF W
<1>11. \A i \in 0 .. N : W[i] = IF i = 0 THEN 0 ELSE W[i - 1] + Bytewise(p[i])
  BY <1>10
<1>12. \A i \in 1 .. N : i \in 0 .. N /\ i - 1 \in 0 .. N /\ i # 0
  BY <1>1
<1>13. 0 \in 0 .. N
  BY <1>1
<1> DEFINE Kept == {i \in 0 .. N : W[i] \in Nat}
<1>14. 0 \in Kept
  BY <1>11, <1>13
<1>15. ASSUME NEW i \in 1 .. N, i - 1 \in Kept PROVE i \in Kept
  BY <1>3, <1>11, <1>12, <1>15
<1> HIDE DEF Kept
<1>16. 0 .. N \subseteq Kept
  BY <1>1, <1>14, <1>15, UpTo
<1>17. \A i \in 0 .. N : W[i] \in Nat
  BY <1>16 DEF Kept
<1> QED
  BY <1>3, <1>4, <1>11, <1>12, <1>13, <1>17 DEF N

\* A path is cut inside or at the end of one of its components.
LEMMA ClippedIs ==
    ASSUME NEW p \in Named, NEW n \in Nat
    PROVE  \E k \in 1 .. Len(p) :
              /\ n - Width(p, k - 1) \in Nat
              /\ Clipped(p, n) = Append(SubSeq(p, 1, k - 1), Clip(p[k], n - Width(p, k - 1)))
<1>1. Len(p) \in Nat /\ Len(p) >= 1 /\ p \in Paths
  BY DEF Named, Paths
<1> DEFINE S == {k \in 1 .. Len(p) : k = 1 \/ Width(p, k - 1) <= n}
           Ends_(k) == /\ k = 1 \/ Width(p, k - 1) <= n
                       /\ \A j \in k + 1 .. Len(p) : Width(p, j - 1) > n
           last == CHOOSE k \in 1 .. Len(p) : Ends_(k)
<1>2. Width(p, 0) = 0 /\ \A k \in 0 .. Len(p) : Width(p, k) \in Nat
  BY <1>1, Widths
<1>3. \E k \in 1 .. Len(p) : Ends_(k)
  <2>1. S \in SUBSET (1 .. Len(p)) /\ 1 \in S
    BY <1>1
  <2>2. PICK k \in S : \A j \in S : j <= k
    BY <1>1, <2>1, GreatestExists
  <2>3. ASSUME NEW j \in k + 1 .. Len(p) PROVE Width(p, j - 1) > n
    <3>1. k \in 1 .. Len(p)
      BY <2>1
    <3>2. j \in 1 .. Len(p) /\ ~ (j <= k) /\ j - 1 \in 0 .. Len(p)
      BY <1>1, <3>1
    <3>3. ~ (Width(p, j - 1) <= n)
      BY <2>2, <3>2
    <3> QED
      BY <1>2, <3>2, <3>3
  <2>4. k \in 1 .. Len(p) /\ (k = 1 \/ Width(p, k - 1) <= n)
    BY <2>2
  <2> QED
    BY <2>3, <2>4
<1>4. last \in 1 .. Len(p) /\ Ends_(last)
  <2> HIDE DEF Ends_
  <2> QED
    BY <1>3
<1>5. Clipped(p, n) = Append(SubSeq(p, 1, last - 1), Clip(p[last], n - Width(p, last - 1)))
  BY DEF Clipped
<1> HIDE DEF last
<1>6. last - 1 \in 0 .. Len(p)
  BY <1>1, <1>4
<1>7. n - Width(p, last - 1) \in Nat
  <2>1. last = 1 => Width(p, last - 1) = 0
    BY <1>2
  <2>2. Width(p, last - 1) \in Nat
    BY <1>2, <1>6
  <2> QED
    BY <1>4, <2>1, <2>2
<1> QED
  BY <1>4, <1>5, <1>7

LEMMA ClippedNamed ==
    ASSUME NEW p \in Named, NEW n \in Nat
    PROVE  Clipped(p, n) \in Named
<1>1. PICK k \in 1 .. Len(p) :
              /\ n - Width(p, k - 1) \in Nat
              /\ Clipped(p, n) = Append(SubSeq(p, 1, k - 1), Clip(p[k], n - Width(p, k - 1)))
  BY ClippedIs
<1>2. p \in Seq(Strings) /\ p[k] \in Strings
  BY DEF Named, Paths
<1>3. Clip(p[k], n - Width(p, k - 1)) \in Strings
  BY <1>1, <1>2, Clips
<1>4. SubSeq(p, 1, k - 1) \in Seq(Strings)
  BY <1>2
<1>5. ASSUME NEW q \in Seq(Strings), NEW x \in Strings PROVE Append(q, x) \in Named
  <2>1. Append(q, x) \in Seq(Strings) /\ Len(Append(q, x)) = Len(q) + 1 /\ Len(q) \in Nat
    OBVIOUS
  <2>2. Len(<<>>) = 0
    OBVIOUS
  <2> QED
    BY <2>1, <2>2 DEF Named, Paths
<1> QED
  BY <1>1, <1>3, <1>4, <1>5

\* The end of a path that Trim keeps.
LEMMA TrimIs ==
    ASSUME NEW p \in Named
    PROVE  \E i \in 1 .. Len(p) : /\ Trim(p) = SubSeq(p, 1, i) /\ Len(Trim(p)) = i
                                  /\ i = 1 \/ p[i] # ""
                                  /\ \A j \in i + 1 .. Len(p) : p[j] = ""
<1>1. p \in Seq(Strings) /\ Len(p) \in Nat /\ Len(p) >= 1
  BY DEF Named, Paths
<1> DEFINE S == {i \in 1 .. Len(p) : i = 1 \/ p[i] # ""}
<1>2. \E i \in 1 .. Len(p) : (i = 1 \/ p[i] # "") /\ \A j \in i + 1 .. Len(p) : p[j] = ""
  <2>1. S \in SUBSET (1 .. Len(p))
    OBVIOUS
  <2>2. 1 \in S
    BY <1>1
  <2>3. PICK i \in S : \A j \in S : j <= i
    BY <1>1, <2>1, <2>2, GreatestExists
  <2> HIDE DEF S
  <2>4. ASSUME NEW j \in i + 1 .. Len(p) PROVE p[j] = ""
    <3>1. j \in 1 .. Len(p) /\ ~ (j <= i)
      BY <1>1, <2>1
    <3>2. j \notin S
      BY <2>3, <3>1
    <3> QED
      BY <3>1, <3>2 DEF S
  <2>5. i \in 1 .. Len(p) /\ (i = 1 \/ p[i] # "")
    BY <2>3 DEF S
  <2> QED
    BY <2>4, <2>5
<1> DEFINE Last(i) == (i = 1 \/ p[i] # "") /\ \A j \in i + 1 .. Len(p) : p[j] = ""
           last == CHOOSE i \in 1 .. Len(p) : Last(i)
<1>3. last \in 1 .. Len(p) /\ Last(last)
  <2>1. \E i \in 1 .. Len(p) : Last(i)
    BY <1>2
  <2> HIDE DEF Last
  <2> QED
    BY <2>1
<1>4. Trim(p) = SubSeq(p, 1, last)
  BY DEF Trim
<1> HIDE DEF last
<1>5. last \in 1 .. Len(p)
  BY <1>3
<1>6. Len(SubSeq(p, 1, last)) = last
  BY <1>1, <1>5
<1> QED
  BY <1>3, <1>4, <1>6

\* The name and the parent of a path are paths, and so is that of a child.
LEMMA Trimmed ==
    ASSUME NEW p \in Named
    PROVE  /\ Trim(p) \in Named
           /\ fs_path_name(p) \in Named
           /\ fs_parent_path(p) \in Paths
<1>1. p \in Seq(Strings) /\ Len(p) \in Nat /\ Len(p) >= 1
  BY DEF Named, Paths
<1>2. PICK i \in 1 .. Len(p) : Trim(p) = SubSeq(p, 1, i) /\ Len(Trim(p)) = i
  BY TrimIs
<1>3. Trim(p) \in Seq(Strings) /\ i \in Nat /\ i >= 1
  BY <1>1, <1>2
<1>4. Front(Trim(p)) \in Seq(Strings)
  BY <1>2, <1>3 DEF Front
<1>5. Root \in Seq(Strings)
  BY SingleNamed, StringsAssumption DEF Root, Named, Paths
<1>6. SubSeq(p, i, Len(p)) \in Named
  <2>1. SubSeq(p, i, Len(p)) \in Seq(Strings) /\ Len(SubSeq(p, i, Len(p))) = Len(p) - i + 1
    BY <1>1
  <2>2. Len(<<>>) = 0 /\ Len(p) - i + 1 # 0
    BY <1>1
  <2> QED
    BY <2>1, <2>2 DEF Named, Paths
<1>7. FS_MAX_NAME - 1 \in Nat
  BY PathNamesAssumption
<1>8. fs_path_name(p) \in Named
  BY <1>2, <1>6, <1>7, ClippedNamed DEF fs_path_name
<1>9. Trim(p) # <<>>
  <2>1. Len(<<>>) = 0
    OBVIOUS
  <2> QED
    BY <1>2, <1>3, <2>1
<1> QED
  BY <1>3, <1>4, <1>5, <1>8, <1>9 DEF fs_parent_path, Named, Paths

LEMMA ChildNamed ==
    ASSUME NEW p \in Named, NEW name \in Named
    PROVE  build_child_path(p, name) \in Named
<1>1. p \in Seq(Strings) /\ Len(p) \in Nat /\ Len(p) >= 1 /\ p \in Paths
  BY DEF Named, Paths
<1>2. RoomBehind(p) \in Int
  <2>1. Len(p) \in 0 .. Len(p)
    BY <1>1
  <2>2. Width(p, Len(p)) \in Nat
    BY <1>1, <2>1, Widths
  <2> QED
    BY <2>2, PathNamesAssumption DEF RoomBehind
<1>3. CASE RoomBehind(p) < 0
  BY <1>3 DEF build_child_path
<1>4. CASE ~ (RoomBehind(p) < 0)
  <2> DEFINE c == Clipped(name, RoomBehind(p))
  <2>1. c \in Named
    BY <1>2, <1>4, ClippedNamed
  <2>2. build_child_path(p, name) = p \o c
    BY <1>4 DEF build_child_path
  <2> HIDE DEF c
  <2>3. c \in Seq(Strings)
    BY <2>1 DEF Named, Paths
  <2>4. p \o c \in Seq(Strings) /\ Len(p \o c) = Len(p) + Len(c) /\ Len(c) \in Nat
    BY <1>1, <2>3
  <2>5. p \o c # <<>>
    <3>1. Len(<<>>) = 0
      OBVIOUS
    <3> QED
      BY <1>1, <2>4, <3>1
  <2> QED
    BY <2>2, <2>4, <2>5 DEF Named, Paths
<1> QED
  BY <1>3, <1>4

\* A path is a text as well.
LEMMA PathsData == Paths \subseteq Data
<1>1. Strings \subseteq STRING
  BY StringsAssumption
<1> QED
  BY <1>1, WiderItems DEF Paths, Data
(***************************************************************************)
(* Operations that end with one entry.                                     *)
(***************************************************************************)

\* A table that alloc does not leave alone has one entry more, in a place that was free.
LEMMA NewEntry ==
    ASSUME NEW t \in Tables, NEW p \in Named, NEW dir \in BOOLEAN
    PROVE  \/ alloc(t, p, dir) = [entries |-> t, then |-> "fail"]
           \/ /\ alloc(t, p, dir) = [entries |-> New(t, p, dir), then |-> "sync"]
              /\ New(t, p, dir) \in Tables
              /\ ~ Exists(t, p) /\ Exists(New(t, p, dir), p)
              /\ fs_parent_path(p) = Root \/ Exists(t, fs_parent_path(p))
              /\ \E f \in Files :
                    /\ ~ t[f].used
                    /\ \A i \in Files \ {f} : New(t, p, dir)[i] = t[i]
                    /\ New(t, p, dir)[f].path = p
                    /\ New(t, p, dir)[f].parent = fs_parent_path(p)
                    /\ New(t, p, dir)[f].name = fs_path_name(p)
<1>1. CASE ~ CanAlloc(t, p)
  BY <1>1 DEF alloc, Fail
<1>2. CASE CanAlloc(t, p)
  <2> DEFINE f == Least(Free(t))
             it == [used |-> TRUE, is_dir |-> dir, path |-> p, parent |-> fs_parent_path(p),
                    name |-> fs_path_name(p), size |-> 0, data |-> <<>>]
             u == New(t, p, dir)
  <2>1. Free(t) # {} /\ Free(t) \in SUBSET Nat
    BY <1>2, Indices DEF CanAlloc, Free
  <2>2. f \in Free(t)
    BY <2>1, LeastProperty
  <2>3. f \in Files /\ ~ t[f].used
    BY <2>2 DEF Free
  <2>4. it \in Entries
    <3>1. 0 \in 0 .. FS_MAX_DATA - 1
      BY Indices
    <3>2. <<>> \in Data /\ p \in Paths
      BY DEF Data, Named
    <3> QED
      BY <3>1, <3>2, Trimmed DEF Entries
  <2>5. u = [t EXCEPT ![f] = it]
    BY DEF New
  <2> HIDE DEF f, u
  <2>6. it.used = TRUE /\ it.path = p /\ it.parent = fs_parent_path(p) /\ it.name = fs_path_name(p)
    OBVIOUS
  <2> HIDE DEF it
  <2>7. t \in [Files -> Entries]
    BY DEF Tables
  <2>8. /\ u \in [Files -> Entries]
        /\ \A i \in Files : u[i] = IF i = f THEN it ELSE t[i]
    BY <2>3, <2>4, <2>5, <2>7
  <2>9. Exists(u, p)
    BY <2>3, <2>6, <2>8, Found
  <2>10. ~ Exists(t, p) /\ (fs_parent_path(p) = Root \/ Exists(t, fs_parent_path(p)))
    BY <1>2 DEF CanAlloc
  <2>11. alloc(t, p, dir) = [entries |-> u, then |-> "sync"]
    BY <1>2 DEF alloc, Sync, u
  <2> QED
    BY <2>3, <2>6, <2>8, <2>9, <2>10, <2>11 DEF Tables, u
<1> QED
  BY <1>1, <1>2

LEMMA AllocTyped ==
    ASSUME NEW t \in Tables, NEW p \in Named, NEW dir \in BOOLEAN
    PROVE  /\ alloc(t, p, dir) \in Outcomes /\ alloc(t, p, dir).then \in {"sync", "fail"}
           /\ alloc(t, p, dir).then = "sync" => Exists(alloc(t, p, dir).entries, p)
<1> DEFINE u == New(t, p, dir)
<1>1. CASE alloc(t, p, dir) = [entries |-> t, then |-> "fail"]
  BY <1>1 DEF Outcomes, Ends
<1>2. CASE alloc(t, p, dir) # [entries |-> t, then |-> "fail"]
  <2>1. alloc(t, p, dir) = [entries |-> u, then |-> "sync"] /\ u \in Tables /\ Exists(u, p)
    BY <1>2, NewEntry
  <2> HIDE DEF u
  <2> QED
    BY <2>1 DEF Outcomes, Ends
<1> QED
  BY <1>1, <1>2

\* A new entry at a path that no entry has, below one that is there, makes a tree of a tree.
LEMMA Allocated ==
    ASSUME NEW t \in Trees, NEW p \in Named, NEW dir \in BOOLEAN
    PROVE  /\ alloc(t, p, dir) \in Results
           /\ alloc(t, p, dir).then \in {"sync", "fail"}
           /\ alloc(t, p, dir).then = "sync" => Exists(alloc(t, p, dir).entries, p)
<1> DEFINE u == New(t, p, dir)
<1>1. t \in Tables /\ Tree(t)
  BY DEF Trees
<1>2. CASE alloc(t, p, dir) = [entries |-> t, then |-> "fail"]
  BY <1>2 DEF Results, Ends
<1>3. CASE alloc(t, p, dir) # [entries |-> t, then |-> "fail"]
  <2>1. /\ alloc(t, p, dir) = [entries |-> u, then |-> "sync"]
        /\ u \in Tables
        /\ ~ Exists(t, p) /\ Exists(u, p)
        /\ fs_parent_path(p) = Root \/ Exists(t, fs_parent_path(p))
    BY <1>1, <1>3, NewEntry
  <2>2. PICK f \in Files : /\ ~ t[f].used
                           /\ \A i \in Files \ {f} : u[i] = t[i]
                           /\ u[f].path = p
                           /\ u[f].parent = fs_parent_path(p)
                           /\ u[f].name = fs_path_name(p)
    BY <1>1, <1>3, NewEntry
  <2> HIDE DEF u
  <2>3. \A i \in Files : t[i].used => t[i].path # p /\ i # f
    BY <2>1, <2>2, Found
  <2>4. \A q : Exists(t, q) => Exists(u, q)
    BY <2>2, <2>3, Found
  <2>5. ASSUME NEW i \in Files, u[i].used
        PROVE  /\ find_file(u, u[i].path) = i
               /\ u[i].parent = fs_parent_path(u[i].path)
               /\ u[i].name = fs_path_name(u[i].path)
               /\ u[i].parent = Root \/ Exists(u, u[i].parent)
    <3>1. CASE i = f
      <4>1. \A j \in Files : u[j].used /\ u[j].path = u[i].path => j = i
        BY <2>2, <2>3, <3>1
      <4> QED
        BY <2>1, <2>2, <2>4, <2>5, <3>1, <4>1, FoundAlone
    <3>2. CASE i # f
      <4>1. u[i] = t[i] /\ t[i].used
        BY <2>2, <2>5, <3>2
      <4>2. \A j \in Files : u[j].used /\ u[j].path = u[i].path => j = i
        BY <2>2, <2>3, <4>1, Alone
      <4>3. /\ t[i].parent = fs_parent_path(t[i].path)
            /\ t[i].name = fs_path_name(t[i].path)
            /\ t[i].parent = Root \/ Exists(t, t[i].parent)
        BY <1>1, <4>1 DEF Tree
      <4> QED
        BY <2>4, <2>5, <4>1, <4>2, <4>3, FoundAlone
    <3> QED
      BY <3>1, <3>2
  <2>6. u \in Trees
    BY <2>1, <2>5 DEF Trees, Tree
  <2> QED
    BY <2>1, <2>6 DEF Results, Ends
<1> QED
  BY <1>2, <1>3

\* New data in an entry leaves a table a table, and a tree a tree.
LEMMA Filled ==
    ASSUME NEW t \in Tables, NEW i \in Files, NEW text \in Data, Len(text) < FS_MAX_DATA
    PROVE  Fill(t, i, text) \in Tables /\ (t \in Trees => Fill(t, i, text) \in Trees)
<1> DEFINE u == Fill(t, i, text)
<1>1. t \in [Files -> Entries]
  BY DEF Tables
<1>2. Len(text) \in 0 .. FS_MAX_DATA - 1
  BY Indices DEF Data
<1>3. u = [t EXCEPT ![i] = [[@ EXCEPT !.data = text] EXCEPT !.size = Len(text)]]
  BY <1>1 DEF Fill
<1>4. t[i] \in Entries
  BY <1>1
<1>5. [[t[i] EXCEPT !.data = text] EXCEPT !.size = Len(text)] \in Entries
  BY <1>2, <1>4 DEF Entries
<1>6. u \in [Files -> Entries]
  BY <1>1, <1>3, <1>5
<1>7. \A j \in Files : /\ u[j].used = t[j].used /\ u[j].path = t[j].path
                       /\ u[j].parent = t[j].parent /\ u[j].name = t[j].name
  BY <1>1, <1>3, <1>4 DEF Entries
<1> HIDE DEF u
<1>8. \A p : Having(u, p) = Having(t, p)
  BY <1>7 DEF Having
<1>9. \A p : find_file(u, p) = find_file(t, p) /\ (Exists(u, p) <=> Exists(t, p))
  BY <1>8 DEF find_file, Exists
<1>10. Tree(t) => Tree(u)
  BY <1>7, <1>9 DEF Tree
<1> QED
  BY <1>6, <1>10 DEF Trees, Tables, u

\* The bytes of an entry, and what is left of a text that is cut.
LEMMA TextLengths ==
    /\ \A it \in Entries : Bytes(it) \in Data /\ Len(Bytes(it)) = it.size
    /\ \A text \in Data, room \in Nat : Cut(text, room) \in Data /\ Len(Cut(text, room)) <= room
<1>1. ASSUME NEW it \in Entries PROVE Bytes(it) \in Data /\ Len(Bytes(it)) = it.size
  <2>1. it.data \in Seq(STRING) /\ it.size \in Nat
    BY Indices DEF Entries, Data
  <2>2. "" \in STRING
    BY LiteralAssumption, StringsAssumption
  <2>3. \A k \in 1 .. it.size : (IF k <= Len(it.data) THEN it.data[k] ELSE "") \in STRING
    <3>1. Len(it.data) \in Nat /\ \A k \in 1 .. Len(it.data) : it.data[k] \in STRING
      BY <2>1
    <3>2. ASSUME NEW k \in 1 .. it.size
          PROVE  (IF k <= Len(it.data) THEN it.data[k] ELSE "") \in STRING
      <4>1. CASE k <= Len(it.data)
        <5>1. k \in 1 .. Len(it.data)
          BY <2>1, <3>1, <4>1
        <5> QED
          BY <3>1, <4>1, <5>1
      <4>2. CASE ~ (k <= Len(it.data))
        BY <2>2, <4>2
      <4> QED
        BY <4>1, <4>2
    <3> QED
      BY <3>2
  <2>4. Bytes(it) \in [1 .. it.size -> STRING]
    BY <2>3 DEF Bytes
  <2> QED
    BY <2>1, <2>4 DEF Data
<1>2. ASSUME NEW text \in Data, NEW room \in Nat
      PROVE  Cut(text, room) \in Data /\ Len(Cut(text, room)) <= room
  BY DEF Cut, Data
<1> QED
  BY <1>1, <1>2

\* write and append find a file that is there, or make one.
LEMMA OpenedTree ==
    ASSUME NEW t \in Tables, NEW p \in Named
    PROVE  /\ Opened(t, p) \in Outcomes /\ (t \in Trees => Opened(t, p) \in Results)
           /\ Opened(t, p).then \in {"sync", "fail"}
           /\ Opened(t, p).then = "sync" => find_file(Opened(t, p).entries, p) \in Files
<1>1. CASE Exists(t, p) /\ ~ t[find_file(t, p)].is_dir
  <2>1. Opened(t, p) = [entries |-> t, then |-> "sync"]
    BY <1>1 DEF Opened, Sync
  <2> QED
    BY <1>1, <2>1, Found DEF Results, Outcomes, Ends
<1>2. CASE ~ (Exists(t, p) /\ ~ t[find_file(t, p)].is_dir)
  <2> DEFINE out == alloc(t, p, FALSE)
  <2>1. Opened(t, p) = out
    BY <1>2 DEF Opened
  <2>2. /\ out \in Outcomes /\ out.then \in {"sync", "fail"}
        /\ out.then = "sync" => Exists(out.entries, p)
    BY AllocTyped
  <2>3. t \in Trees => out \in Results
    BY Allocated
  <2> HIDE DEF out
  <2>4. Exists(out.entries, p) => find_file(out.entries, p) \in Files
    BY Found
  <2> QED
    BY <2>1, <2>2, <2>3, <2>4
<1> QED
  BY <1>1, <1>2

\* A write or an append changes the data of one file.
LEMMA TextsWritten ==
    ASSUME NEW t \in Tables, NEW p \in Named, NEW text \in Data
    PROVE  /\ write(t, p, text) \in Outcomes /\ append(t, p, text) \in Outcomes
           /\ t \in Trees => write(t, p, text) \in Results /\ append(t, p, text) \in Results
<1> DEFINE open == Opened(t, p)
           i == find_file(open.entries, p)
<1>1. /\ open \in Outcomes /\ (t \in Trees => open \in Results) /\ open.then \in {"sync", "fail"}
      /\ open.then = "sync" => i \in Files
  BY OpenedTree
<1>2. CASE open.then = "fail"
  <2>1. write(t, p, text) = open /\ append(t, p, text) = open
    BY <1>2 DEF write, append
  <2> QED
    BY <1>1, <2>1
<1>3. CASE open.then = "sync"
  <2> DEFINE u == open.entries
             file == u[i]
             room == FS_MAX_DATA - 1 - file.size
             cut == Cut(text, FS_MAX_DATA - 1)
             all == Bytes(file) \o Cut(text, room)
  <2>1. u \in Tables /\ (t \in Trees => u \in Trees) /\ i \in Files
    BY <1>1, <1>3 DEF Results, Outcomes, Ends
  <2>2. write(t, p, text) = [entries |-> Fill(u, i, cut), then |-> "sync"]
    BY <1>3 DEF write, Sync
  <2>3. append(t, p, text) = IF room <= 0 THEN [entries |-> u, then |-> "done"]
                             ELSE [entries |-> Fill(u, i, all), then |-> "sync"]
    BY <1>3 DEF append, Sync, Done
  <2>4. cut \in Data /\ Len(cut) < FS_MAX_DATA
    <3>1. FS_MAX_DATA - 1 \in Nat
      BY Indices
    <3>2. cut \in Data /\ Len(cut) <= FS_MAX_DATA - 1
      BY <3>1, TextLengths
    <3>3. Len(cut) \in Nat
      BY <3>2 DEF Data
    <3> QED
      BY <3>2, <3>3, Indices
  <2>5. ASSUME ~ (room <= 0) PROVE all \in Data /\ Len(all) < FS_MAX_DATA
    <3>1. file \in Entries
      BY <2>1 DEF Tables
    <3>2. file.size \in 0 .. FS_MAX_DATA - 1
      BY <3>1 DEF Entries
    <3> HIDE DEF file
    <3>3. room \in Nat /\ room + file.size < FS_MAX_DATA
      BY <2>5, <3>2, Indices
    <3>4. /\ Bytes(file) \in Data /\ Len(Bytes(file)) = file.size
          /\ Cut(text, room) \in Data /\ Len(Cut(text, room)) <= room
      BY <3>1, <3>3, TextLengths
    <3> HIDE DEF room
    <3>5. ASSUME NEW a \in Seq(STRING), NEW b \in Seq(STRING)
          PROVE  a \o b \in Seq(STRING) /\ Len(a \o b) = Len(a) + Len(b)
                 /\ Len(a) \in Nat /\ Len(b) \in Nat
      OBVIOUS
    <3>6. all \in Data /\ Len(all) = file.size + Len(Cut(text, room)) /\ Len(Cut(text, room)) \in Nat
      BY <3>4, <3>5 DEF Data
    <3> HIDE DEF all
    <3>7. FS_MAX_DATA \in Nat
      BY Indices
    <3> QED
      BY <3>2, <3>3, <3>4, <3>6, <3>7
  <2>6. Fill(u, i, cut) \in Tables /\ (t \in Trees => Fill(u, i, cut) \in Trees)
    BY <2>1, <2>4, Filled
  <2>7. ~ (room <= 0) => Fill(u, i, all) \in Tables /\ (t \in Trees => Fill(u, i, all) \in Trees)
    BY <2>1, <2>5, Filled
  <2> HIDE DEF u, room, cut, all
  <2>8. write(t, p, text) \in Outcomes /\ append(t, p, text) \in Outcomes
    BY <2>1, <2>2, <2>3, <2>6, <2>7 DEF Outcomes, Ends
  <2>9. t \in Trees => write(t, p, text) \in Results /\ append(t, p, text) \in Results
    BY <2>1, <2>2, <2>3, <2>6, <2>7 DEF Results, Ends
  <2> QED
    BY <2>8, <2>9
<1> QED
  BY <1>1, <1>2, <1>3
(***************************************************************************)
(* Removal.                                                                *)
(***************************************************************************)

\* One generation more.
Children(t, i, S) ==
    {j \in Files : j = i \/ (t[j].used /\ t[j].parent \in {t[k].path : k \in S})}

\* The recursive function Kin is what its definition says.
LEMMA KinSolved ==
    ASSUME NEW t, NEW i \in Files
    PROVE  /\ Kin(t, i) \in [0 .. FS_MAX_FILES -> SUBSET Files]
           /\ Kin(t, i)[0] = {i}
           /\ \A n \in 1 .. FS_MAX_FILES : Kin(t, i)[n] = Children(t, i, Kin(t, i)[n - 1])
<1> DEFINE N == FS_MAX_FILES
           Parts == SUBSET Files
           F == [n \in 1 .. N |-> [S \in Parts |-> Children(t, i, S)]]
           Solution(g) == g = [depth \in 0 .. N |->
                                  IF depth = 0 THEN {i} ELSE Children(t, i, g[depth - 1])]
<1>1. \A S : Children(t, i, S) \in Parts
  BY DEF Children
<1>2. {i} \in Parts /\ N \in Nat
  BY Indices
<1> HIDE DEF N, Parts
<1>3. F \in [1 .. N -> [Parts -> Parts]]
  BY <1>1
<1>4. \A n \in 1 .. N, S \in Parts : F[n][S] = Children(t, i, S)
  OBVIOUS
<1> HIDE DEF F
<1>5. PICK g \in [0 .. N -> Parts] : Follows(g, {i}, F, N)
  BY <1>2, <1>3, RecursionExists
<1>6. ASSUME NEW n \in 0 .. N
      PROVE  g[n] = IF n = 0 THEN {i} ELSE Children(t, i, g[n - 1])
  <2>1. CASE n = 0
    BY <1>5, <2>1 DEF Follows
  <2>2. CASE n # 0
    <3>1. n \in 1 .. N /\ n - 1 \in 0 .. N
      BY <1>2, <2>2
    <3> QED
      BY <1>4, <1>5, <2>2, <3>1 DEF Follows
  <2> QED
    BY <2>1, <2>2
<1>7. Solution(g)
  BY <1>5, <1>6
<1>8. Kin(t, i) = CHOOSE kin : Solution(kin)
  BY DEF Kin, Children, N
<1>9. Solution(Kin(t, i))
  <2> HIDE DEF Solution
  <2> QED
    BY <1>7, <1>8
<1> HIDE DEF Kin
<1>10. \A n \in 0 .. N : Kin(t, i)[n] = IF n = 0 THEN {i} ELSE Children(t, i, Kin(t, i)[n - 1])
  BY <1>9
<1>11. DOMAIN Kin(t, i) = 0 .. N /\ Kin(t, i) = [n \in 0 .. N |-> Kin(t, i)[n]]
  BY <1>9
<1>12. \A n \in 0 .. N : Kin(t, i)[n] \in Parts
  BY <1>1, <1>2, <1>10
<1>13. Kin(t, i) \in [0 .. N -> Parts]
  BY <1>11, <1>12
<1>14. \A n \in 1 .. N : n \in 0 .. N /\ n # 0
  OBVIOUS
<1>15. 0 \in 0 .. N
  BY <1>2
<1> QED
  BY <1>10, <1>13, <1>14, <1>15 DEF N, Parts

\* Generations only grow.
LEMMA KinGrows ==
    ASSUME NEW t, NEW i \in Files
    PROVE  \A n \in 0 .. FS_MAX_FILES, m \in 0 .. FS_MAX_FILES :
              m <= n => Kin(t, i)[m] \subseteq Kin(t, i)[n]
<1> DEFINE N == FS_MAX_FILES
           K == Kin(t, i)
           Kept == {n \in 0 .. N : n = 0 \/ K[n - 1] \subseteq K[n]}
<1>1. N \in Nat
  BY Indices
<1>2. K[0] = {i} /\ \A n \in 1 .. N : K[n] = Children(t, i, K[n - 1])
  BY KinSolved
<1> HIDE DEF N, K
<1>3. 0 \in Kept
  BY <1>1
<1>4. ASSUME NEW n \in 1 .. N, n - 1 \in Kept PROVE n \in Kept
  <2>1. CASE n = 1
    <3>1. 1 \in 1 .. N /\ K[1] = Children(t, i, K[0])
      BY <1>2, <2>1
    <3>2. K[0] \subseteq K[1]
      BY <1>2, <3>1 DEF Children
    <3> QED
      BY <2>1, <3>1, <3>2
  <2>2. CASE n # 1
    <3>1. n - 1 \in 1 .. N /\ n - 1 # 0 /\ (n - 1) - 1 = n - 2
      BY <1>1, <2>2
    <3>2. K[n - 2] \subseteq K[n - 1]
      BY <1>4, <3>1
    <3>3. K[n - 1] = Children(t, i, K[n - 2]) /\ K[n] = Children(t, i, K[n - 1])
      BY <1>2, <3>1
    <3>4. K[n - 1] \subseteq K[n]
      BY <3>2, <3>3 DEF Children
    <3> QED
      BY <3>4
  <2> QED
    BY <2>1, <2>2
<1> HIDE DEF Kept
<1>5. 0 .. N \subseteq Kept
  BY <1>1, <1>3, <1>4, UpTo
<1>6. \A n \in 1 .. N : K[n - 1] \subseteq K[n]
  BY <1>5 DEF Kept
<1> DEFINE U == {n \in 0 .. N : \A m \in 0 .. n : K[m] \subseteq K[n]}
<1>7. 0 \in U
  BY <1>1
<1>8. ASSUME NEW n \in 1 .. N, n - 1 \in U PROVE n \in U
  <2>1. \A m \in 0 .. n - 1 : K[m] \subseteq K[n - 1]
    BY <1>8
  <2>2. ASSUME NEW m \in 0 .. n PROVE K[m] \subseteq K[n]
    <3>1. m = n \/ m \in 0 .. n - 1
      OBVIOUS
    <3> QED
      BY <1>6, <2>1, <3>1
  <2> QED
    BY <2>2
<1> HIDE DEF U
<1>9. 0 .. N \subseteq U
  BY <1>1, <1>7, <1>8, UpTo
<1>10. ASSUME NEW n \in 0 .. N, NEW m \in 0 .. N, m <= n PROVE K[m] \subseteq K[n]
  <2>1. n \in U /\ m \in 0 .. n
    BY <1>9, <1>10
  <2> QED
    BY <2>1 DEF U
<1> QED
  BY <1>10 DEF N, K
\* A table has room for fewer generations than entries that could all be new: one of the
\* FS_MAX_FILES generations adds nothing to the one before.
LEMMA KinStops ==
    ASSUME NEW t, NEW i \in Files
    PROVE  \E n \in 1 .. FS_MAX_FILES : Kin(t, i)[n] = Kin(t, i)[n - 1]
<1> DEFINE N == FS_MAX_FILES
           K == Kin(t, i)
           f == [n \in 0 .. N |-> IF n = 0 THEN i ELSE CHOOSE j : j \in K[n] \ K[n - 1]]
<1>1. N \in Nat
  BY Indices
<1>2. K \in [0 .. N -> SUBSET Files] /\ K[0] = {i}
  BY KinSolved
<1>3. \A n \in 0 .. N, m \in 0 .. N : m <= n => K[m] \subseteq K[n]
  BY KinGrows
<1>4. Files = 1 .. N
  BY Indices
<1> HIDE DEF N, K
<1> SUFFICES ASSUME \A n \in 1 .. N : K[n] # K[n - 1] PROVE FALSE
  BY DEF N, K
<1>5. ASSUME NEW n \in 1 .. N PROVE f[n] \in K[n] \ K[n - 1]
  <2>1. n \in 0 .. N /\ n - 1 \in 0 .. N /\ n - 1 <= n /\ n # 0
    BY <1>1
  <2>2. K[n - 1] \subseteq K[n] /\ K[n] # K[n - 1]
    BY <1>3, <2>1
  <2>3. f[n] = CHOOSE j : j \in K[n] \ K[n - 1]
    BY <2>1
  <2> QED
    BY <2>2, <2>3
<1>6. 0 \in 0 .. N /\ f[0] = i
  BY <1>1
<1>7. \A n \in 0 .. N : f[n] \in K[n]
  <2>1. \A n \in 0 .. N : n = 0 \/ n \in 1 .. N
    BY <1>1
  <2> QED
    BY <1>2, <1>5, <1>6, <2>1
<1>8. f \in [0 .. N -> Files]
  <2>1. \A n \in 0 .. N : f[n] \in Files
    BY <1>2, <1>7
  <2>2. DOMAIN f = 0 .. N /\ f = [n \in 0 .. N |-> f[n]]
    OBVIOUS
  <2> HIDE DEF f
  <2> QED
    BY <2>1, <2>2
<1> HIDE DEF f
<1>9. /\ IsFiniteSet(0 .. N) /\ Cardinality(0 .. N) = N + 1
      /\ IsFiniteSet(Files) /\ Cardinality(Files) = N
  <2>1. IsFiniteSet(0 .. N) /\ Cardinality(0 .. N) = IF 0 > N THEN 0 ELSE N - 0 + 1
    BY <1>1, FS_Interval
  <2>2. IsFiniteSet(1 .. N) /\ Cardinality(1 .. N) = IF 1 > N THEN 0 ELSE N - 1 + 1
    BY <1>1, FS_Interval
  <2> QED
    BY <1>1, <1>4, <2>1, <2>2
<1>10. PICK x \in 0 .. N, y \in 0 .. N : x # y /\ f[x] = f[y]
  <2> DEFINE S == 0 .. N
  <2>1. IsFiniteSet(S) /\ IsFiniteSet(Files) /\ Cardinality(Files) < Cardinality(S)
    BY <1>1, <1>9
  <2>2. f \in [S -> Files]
    BY <1>8
  <2> HIDE DEF S
  <2>3. \E x, y \in S : x # y /\ f[x] = f[y]
    BY <2>1, <2>2, FS_PigeonHole
  <2> QED
    BY <2>3 DEF S
<1>11. ASSUME NEW a \in 0 .. N, NEW b \in 0 .. N, a < b PROVE f[a] # f[b]
  <2>1. b \in 1 .. N /\ b - 1 \in 0 .. N /\ a <= b - 1
    BY <1>1, <1>11
  <2>2. f[a] \in K[b - 1] /\ f[b] \notin K[b - 1]
    BY <1>3, <1>5, <1>7, <2>1
  <2> QED
    BY <2>2
<1> QED
  BY <1>1, <1>10, <1>11

\* A family is the entry and all that is below it.
LEMMA FamilyClosed ==
    ASSUME NEW t, NEW i \in Files
    PROVE  /\ i \in Family(t, i)
           /\ \A j \in Files, k \in Family(t, i) :
                 t[j].used /\ t[j].parent = t[k].path => j \in Family(t, i)
<1> DEFINE N == FS_MAX_FILES
           K == Kin(t, i)
<1>1. N \in Nat /\ 0 \in 0 .. N /\ N \in 0 .. N
  BY Indices
<1>2. K[0] = {i} /\ \A n \in 1 .. N : K[n] = Children(t, i, K[n - 1])
  BY KinSolved
<1>3. PICK n \in 1 .. N : K[n] = K[n - 1]
  BY KinStops
<1>4. K[0] \subseteq K[N]
  BY <1>1, KinGrows
<1> DEFINE Kept == {m \in 0 .. N : m < n \/ K[m] = K[n]}
<1> HIDE DEF N, K
<1>5. 0 \in Kept
  BY <1>1
<1>6. ASSUME NEW m \in 1 .. N, m - 1 \in Kept PROVE m \in Kept
  <2>1. m \in 0 .. N /\ (m < n \/ m = n \/ ~ (m - 1 < n))
    BY <1>1
  <2>2. CASE m < n \/ m = n
    BY <2>1, <2>2
  <2>3. CASE ~ (m - 1 < n)
    <3>1. K[m - 1] = K[n - 1]
      BY <1>3, <1>6, <2>3
    <3>2. K[m] = Children(t, i, K[m - 1]) /\ K[n] = Children(t, i, K[n - 1])
      BY <1>2
    <3> QED
      BY <2>1, <3>1, <3>2
  <2> QED
    BY <2>1, <2>2, <2>3
<1> HIDE DEF Kept
<1>7. 0 .. N \subseteq Kept
  BY <1>1, <1>5, <1>6, UpTo
<1>8. K[N] = K[n]
  BY <1>1, <1>7 DEF Kept
<1>9. K[N] = Children(t, i, K[N])
  BY <1>2, <1>3, <1>8
<1>10. Family(t, i) = K[N]
  BY DEF Family, N, K
<1> QED
  BY <1>2, <1>4, <1>9, <1>10 DEF Children

\* A blank entry is an entry, and an empty table a tree.
LEMMA BlankTree ==
    Blank \in Entries /\ Blank.used = FALSE /\ [i \in Files |-> Blank] \in Trees
<1>1. 0 \in 0 .. FS_MAX_DATA - 1 /\ <<>> \in Paths /\ <<>> \in Data
  BY Indices DEF Paths, Data
<1>2. <<"">> \in Named
  BY LiteralAssumption, SingleNamed
<1>3. Blank \in Entries /\ Blank.used = FALSE
  BY <1>1, <1>2 DEF Blank, Entries
<1> QED
  BY <1>3 DEF Trees, Tables, Tree

\* What is left after a family is removed is a tree.
LEMMA Removed ==
    ASSUME NEW t \in Trees, NEW p \in Named
    PROVE  remove(t, p) \in Results
<1>1. CASE ~ Exists(t, p)
  <2>1. remove(t, p) = [entries |-> t, then |-> "fail"]
    BY <1>1 DEF remove, Fail
  <2> QED
    BY <2>1 DEF Results, Ends
<1>2. CASE Exists(t, p)
  <2> DEFINE f == find_file(t, p)
             gone == Family(t, f)
             u == [i \in Files |-> IF i \in gone THEN Blank ELSE t[i]]
  <2>1. f \in Files
    BY <1>2, Found
  <2>2. \A j \in Files, k \in gone : t[j].used /\ t[j].parent = t[k].path => j \in gone
    BY <2>1, FamilyClosed
  <2> HIDE DEF f, gone
  <2>3. t \in [Files -> Entries] /\ Tree(t)
    BY DEF Trees, Tables
  <2>4. Blank \in Entries /\ Blank.used = FALSE
    BY BlankTree
  <2>5. u \in [Files -> Entries]
    BY <2>3, <2>4
  <2>6. \A i \in Files : u[i].used => i \notin gone /\ u[i] = t[i] /\ t[i].used
    BY <2>4
  <2>7. \A i \in Files : i \notin gone => u[i] = t[i]
    OBVIOUS
  <2> HIDE DEF u
  <2>8. ASSUME NEW i \in Files, u[i].used
        PROVE  /\ find_file(u, u[i].path) = i
               /\ u[i].parent = fs_parent_path(u[i].path)
               /\ u[i].name = fs_path_name(u[i].path)
               /\ u[i].parent = Root \/ Exists(u, u[i].parent)
    <3>1. u[i] = t[i] /\ t[i].used /\ i \notin gone
      BY <2>6, <2>8
    <3>2. /\ t[i].parent = fs_parent_path(t[i].path)
          /\ t[i].name = fs_path_name(t[i].path)
          /\ t[i].parent = Root \/ Exists(t, t[i].parent)
      BY <2>3, <3>1 DEF Tree
    <3>3. \A j \in Files : u[j].used /\ u[j].path = u[i].path => j = i
      BY <2>6, <3>1, Alone
    <3>4. ASSUME Exists(t, t[i].parent) PROVE Exists(u, t[i].parent)
      <4>1. PICK k \in Files : t[k].used /\ t[k].path = t[i].parent
        BY <3>4, Found
      <4>2. k \notin gone
        BY <2>2, <3>1, <4>1
      <4> QED
        BY <2>7, <4>1, <4>2, Found
    <3> QED
      BY <2>8, <3>1, <3>2, <3>3, <3>4, FoundAlone
  <2>9. u \in Trees
    BY <2>5, <2>8 DEF Trees, Tables, Tree
  <2>10. remove(t, p) = [entries |-> u, then |-> "sync"]
    BY <1>2 DEF remove, Sync, u, gone, f
  <2> QED
    BY <2>9, <2>10 DEF Results, Ends
<1> QED
  BY <1>1, <1>2
(***************************************************************************)
(* Recursive copies.                                                       *)
(***************************************************************************)

\* One iteration of the loop over the children of a directory.
CopyStep(below, a, out, i) ==
    IF out.then = "fail" \/ ~ (out.entries[i].used /\ out.entries[i].parent = a.t[a.src].path)
    THEN out
    ELSE below[[t |-> out.entries, src |-> i,
                dst |-> build_child_path(a.dst, out.entries[i].name)]]

\* An iteration makes a call, or leaves the outcome as it is.
LEMMA StepCalls ==
    ASSUME NEW below, NEW a \in CopyCalls, NEW out \in Outcomes, NEW i \in Files
    PROVE  \/ CopyStep(below, a, out, i) = out
           \/ \E b \in CopyCalls : b.t = out.entries /\ CopyStep(below, a, out, i) = below[b]
<1> DEFINE b == [t |-> out.entries, src |-> i,
                 dst |-> build_child_path(a.dst, out.entries[i].name)]
<1>1. out.entries \in Tables /\ a.dst \in Named
  BY DEF Outcomes, CopyCalls
<1>2. out.entries[i].name \in Named
  BY <1>1 DEF Tables, Entries
<1>3. build_child_path(a.dst, out.entries[i].name) \in Named
  BY <1>1, <1>2, ChildNamed
<1>4. b \in CopyCalls /\ b.t = out.entries
  BY <1>1, <1>3 DEF CopyCalls
<1>5. CopyStep(below, a, out, i) = out \/ CopyStep(below, a, out, i) = below[b]
  BY DEF CopyStep
<1> HIDE DEF b
<1> QED
  BY <1>4, <1>5

\* The recursive function CopyLoop is what its definition says.
LEMMA LoopSolved ==
    ASSUME NEW below \in [CopyCalls -> Outcomes], NEW a \in CopyCalls, NEW made \in Outcomes
    PROVE  /\ CopyLoop(below, a, made) \in [0 .. FS_MAX_FILES -> Outcomes]
           /\ CopyLoop(below, a, made)[0] = made
           /\ \A i \in 1 .. FS_MAX_FILES :
                 CopyLoop(below, a, made)[i] = CopyStep(below, a, CopyLoop(below, a, made)[i - 1], i)
<1> DEFINE N == FS_MAX_FILES
           F == [i \in 1 .. N |-> [out \in Outcomes |-> CopyStep(below, a, out, i)]]
           L == CopyLoop(below, a, made)
           Solution(g) == g = [i \in 0 .. N |-> IF i = 0 THEN made
                                               ELSE CopyStep(below, a, g[i - 1], i)]
<1>1. N \in Nat /\ Files = 1 .. N
  BY Indices
<1> HIDE DEF N
<1>2. \A i \in 1 .. N, out \in Outcomes : CopyStep(below, a, out, i) \in Outcomes
  BY <1>1, StepCalls
<1>3. F \in [1 .. N -> [Outcomes -> Outcomes]]
  BY <1>2
<1>4. \A i \in 1 .. N, out \in Outcomes : F[i][out] = CopyStep(below, a, out, i)
  OBVIOUS
<1> HIDE DEF F
<1>5. PICK g \in [0 .. N -> Outcomes] : Follows(g, made, F, N)
  BY <1>1, <1>3, RecursionExists
<1>6. ASSUME NEW i \in 0 .. N
      PROVE  g[i] = IF i = 0 THEN made ELSE CopyStep(below, a, g[i - 1], i)
  <2>1. CASE i = 0
    BY <1>5, <2>1 DEF Follows
  <2>2. CASE i # 0
    <3>1. i \in 1 .. N /\ i - 1 \in 0 .. N
      BY <1>1, <2>2
    <3> QED
      BY <1>4, <1>5, <2>2, <3>1 DEF Follows
  <2> QED
    BY <2>1, <2>2
<1>7. Solution(g)
  BY <1>5, <1>6
<1>8. L = CHOOSE loop : Solution(loop)
  BY DEF CopyLoop, CopyStep, N
<1>9. Solution(L)
  <2> HIDE DEF Solution, L
  <2> QED
    BY <1>7, <1>8
<1> HIDE DEF L
<1>10. \A i \in 0 .. N : L[i] = IF i = 0 THEN made ELSE CopyStep(below, a, L[i - 1], i)
  BY <1>9
<1>11. DOMAIN L = 0 .. N /\ L = [i \in 0 .. N |-> L[i]]
  BY <1>9
<1>12. \A i \in 1 .. N : i \in 0 .. N /\ i - 1 \in 0 .. N /\ i # 0
  BY <1>1
<1>13. 0 \in 0 .. N
  BY <1>1
<1> DEFINE Kept == {i \in 0 .. N : L[i] \in Outcomes}
<1>14. 0 \in Kept
  BY <1>10, <1>13
<1>15. ASSUME NEW i \in 1 .. N, i - 1 \in Kept PROVE i \in Kept
  BY <1>2, <1>10, <1>12, <1>15
<1> HIDE DEF Kept
<1>16. 0 .. N \subseteq Kept
  BY <1>1, <1>14, <1>15, UpTo
<1>17. \A i \in 0 .. N : L[i] \in Outcomes
  BY <1>16 DEF Kept
<1>18. L \in [0 .. N -> Outcomes]
  BY <1>11, <1>17
<1> QED
  BY <1>10, <1>12, <1>13, <1>18 DEF N, L

\* A call leaves a table; and, if every call that it makes leaves a tree of a tree, so does it.
LEMMA EntryCopied ==
    ASSUME NEW below \in [CopyCalls -> Outcomes], NEW a \in CopyCalls
    PROVE  /\ CopyEntry(below, a) \in Outcomes
           /\ (\A b \in CopyCalls : b.t \in Trees => below[b].entries \in Trees)
                 => (a.t \in Trees => CopyEntry(below, a).entries \in Trees)
<1> DEFINE from == a.t[a.src]
           made == alloc(a.t, a.dst, from.is_dir)
           at == find_file(made.entries, a.dst)
           L == CopyLoop(below, a, made)
           last == Fill(made.entries, at, Bytes(from))
<1>1. a.t \in Tables /\ a.src \in Files /\ a.dst \in Named
  BY DEF CopyCalls
<1>2. from \in Entries
  BY <1>1 DEF Tables
<1>3. from.is_dir \in BOOLEAN /\ from.size \in 0 .. FS_MAX_DATA - 1
  BY <1>2 DEF Entries
<1>4. CopyEntry(below, a) = IF made.then = "fail" THEN made
                            ELSE IF from.is_dir THEN L[FS_MAX_FILES]
                            ELSE [entries |-> last, then |-> "sync"]
  BY DEF CopyEntry, Sync
<1> HIDE DEF from
<1>5. /\ made \in Outcomes
      /\ made.then # "fail" => Exists(made.entries, a.dst)
      /\ a.t \in Trees => made.entries \in Trees
  <2>1. made \in Outcomes /\ (made.then # "fail" => Exists(made.entries, a.dst))
    BY <1>1, <1>3, NewEntry DEF Outcomes, Ends
  <2>2. a.t \in Trees => made \in Results
    BY <1>1, <1>3, Allocated
  <2> QED
    BY <2>1, <2>2 DEF Results
<1>6. made.then # "fail" => at \in Files
  BY <1>5, Found
<1> HIDE DEF made, at
<1>7. made.entries \in Tables
  BY <1>5 DEF Outcomes
<1>8. Bytes(from) \in Data /\ Len(Bytes(from)) < FS_MAX_DATA
  BY <1>2, <1>3, TextLengths, Indices
<1>9. made.then # "fail" => last \in Tables /\ (made.entries \in Trees => last \in Trees)
  BY <1>6, <1>7, <1>8, Filled
<1> HIDE DEF last
<1>10. /\ L \in [0 .. FS_MAX_FILES -> Outcomes]
       /\ L[0] = made
       /\ \A i \in 1 .. FS_MAX_FILES : L[i] = CopyStep(below, a, L[i - 1], i)
  BY <1>5, LoopSolved
<1> HIDE DEF L
<1>11. FS_MAX_FILES \in Nat /\ FS_MAX_FILES \in 0 .. FS_MAX_FILES /\ 0 \in 0 .. FS_MAX_FILES
  BY Indices
<1>12. CopyEntry(below, a) \in Outcomes
  BY <1>4, <1>5, <1>9, <1>10, <1>11 DEF Outcomes, Ends
<1>13. ASSUME \A b \in CopyCalls : b.t \in Trees => below[b].entries \in Trees, a.t \in Trees
       PROVE  CopyEntry(below, a).entries \in Trees
  <2> DEFINE Kept == {i \in 0 .. FS_MAX_FILES : L[i].entries \in Trees}
  <2>1. 0 \in Kept
    BY <1>5, <1>10, <1>11, <1>13
  <2>2. ASSUME NEW i \in 1 .. FS_MAX_FILES, i - 1 \in Kept PROVE i \in Kept
    <3>1. i \in Files /\ i \in 0 .. FS_MAX_FILES /\ i - 1 \in 0 .. FS_MAX_FILES
      BY Indices
    <3>2. L[i - 1] \in Outcomes /\ L[i - 1].entries \in Trees
      BY <1>10, <2>2, <3>1
    <3>3. L[i] = L[i - 1] \/ \E b \in CopyCalls : b.t = L[i - 1].entries /\ L[i] = below[b]
      BY <1>10, <3>1, <3>2, StepCalls
    <3>4. L[i].entries \in Trees
      BY <1>13, <3>2, <3>3
    <3> QED
      BY <3>1, <3>4
  <2> HIDE DEF Kept
  <2>3. 0 .. FS_MAX_FILES \subseteq Kept
    BY <1>11, <2>1, <2>2, UpTo
  <2>4. L[FS_MAX_FILES].entries \in Trees
    BY <1>11, <2>3 DEF Kept
  <2> QED
    BY <1>4, <1>5, <1>9, <1>13, <2>4
<1> QED
  BY <1>12, <1>13

\* The recursive function copy_entry_recursive_idx is what its definition says.
LEMMA CopySolved ==
    /\ copy_entry_recursive_idx \in [0 .. FS_MAX_FILES -> [CopyCalls -> Outcomes]]
    /\ copy_entry_recursive_idx[0] = [a \in CopyCalls |-> Fail(a.t)]
    /\ \A n \in 1 .. FS_MAX_FILES :
          copy_entry_recursive_idx[n] =
             [a \in CopyCalls |-> CopyEntry(copy_entry_recursive_idx[n - 1], a)]
<1> DEFINE N == FS_MAX_FILES
           Copiers == [CopyCalls -> Outcomes]
           first == [a \in CopyCalls |-> Fail(a.t)]
           Deeper(below) == [a \in CopyCalls |-> CopyEntry(below, a)]
           F == [n \in 1 .. N |-> [below \in Copiers |-> Deeper(below)]]
           Solution(g) == g = [depth \in 0 .. N |->
                                  [a \in CopyCalls |-> IF depth = 0 THEN Fail(a.t)
                                                       ELSE CopyEntry(g[depth - 1], a)]]
           C == copy_entry_recursive_idx
<1>1. N \in Nat
  BY Indices
<1> HIDE DEF N
<1>2. first \in Copiers
  <2>1. \A a \in CopyCalls : Fail(a.t) \in Outcomes
    BY DEF Fail, Outcomes, Ends, CopyCalls
  <2> QED
    BY <2>1
<1>3. \A below \in Copiers : Deeper(below) \in Copiers
  BY EntryCopied
<1>4. C = CHOOSE g : Solution(g)
  BY DEF copy_entry_recursive_idx, N
<1>5. \A g : Solution(g) <=> g = [depth \in 0 .. N |-> IF depth = 0 THEN first
                                                      ELSE Deeper(g[depth - 1])]
  <2>1. ASSUME NEW g, NEW depth \in 0 .. N
        PROVE  [a \in CopyCalls |-> IF depth = 0 THEN Fail(a.t) ELSE CopyEntry(g[depth - 1], a)]
                  = IF depth = 0 THEN first ELSE Deeper(g[depth - 1])
    OBVIOUS
  <2> HIDE DEF first, Deeper
  <2> QED
    BY <2>1
<1> HIDE DEF Copiers, first, Deeper, Solution, C
<1>6. F \in [1 .. N -> [Copiers -> Copiers]]
  BY <1>3
<1>7. \A n \in 1 .. N, below \in Copiers : F[n][below] = Deeper(below)
  OBVIOUS
<1> HIDE DEF F
<1>8. PICK g \in [0 .. N -> Copiers] : Follows(g, first, F, N)
  BY <1>1, <1>2, <1>6, RecursionExists
<1>9. ASSUME NEW n \in 0 .. N PROVE g[n] = IF n = 0 THEN first ELSE Deeper(g[n - 1])
  <2>1. CASE n = 0
    BY <1>8, <2>1 DEF Follows
  <2>2. CASE n # 0
    <3>1. n \in 1 .. N /\ n - 1 \in 0 .. N
      BY <1>1, <2>2
    <3> QED
      BY <1>7, <1>8, <2>2, <3>1 DEF Follows
  <2> QED
    BY <2>1, <2>2
<1>10. Solution(g)
  BY <1>5, <1>8, <1>9
<1>11. Solution(C)
  BY <1>4, <1>10
<1>12. C = [n \in 0 .. N |-> IF n = 0 THEN first ELSE Deeper(C[n - 1])]
  BY <1>5, <1>11
<1>13. \A n \in 0 .. N : C[n] = IF n = 0 THEN first ELSE Deeper(C[n - 1])
  BY <1>12
<1>14. DOMAIN C = 0 .. N /\ C = [n \in 0 .. N |-> C[n]]
  BY <1>12
<1>15. 0 \in 0 .. N /\ \A n \in 1 .. N : n \in 0 .. N /\ n - 1 \in 0 .. N /\ n # 0
  BY <1>1
<1> DEFINE Kept == {n \in 0 .. N : C[n] \in Copiers}
<1>16. 0 \in Kept
  BY <1>2, <1>13, <1>15
<1>17. ASSUME NEW n \in 1 .. N, n - 1 \in Kept PROVE n \in Kept
  BY <1>3, <1>13, <1>15, <1>17
<1> HIDE DEF Kept
<1>18. 0 .. N \subseteq Kept
  BY <1>1, <1>16, <1>17, UpTo
<1>19. \A n \in 0 .. N : C[n] \in Copiers
  BY <1>18 DEF Kept
<1>20. C \in [0 .. N -> Copiers]
  BY <1>14, <1>19
<1> QED
  BY <1>13, <1>15, <1>20 DEF N, C, Copiers, first, Deeper

\* A copy, whole or in part, makes a tree of a tree.
LEMMA Copied ==
    ASSUME NEW t \in Trees, NEW src \in Named, NEW dst \in Named
    PROVE  copy(t, src, dst) \in Results
<1> DEFINE N == FS_MAX_FILES
           C == copy_entry_recursive_idx
           Kept == {n \in 0 .. N : \A a \in CopyCalls : a.t \in Trees => C[n][a].entries \in Trees}
<1>1. N \in Nat /\ 0 \in 0 .. N /\ N \in 0 .. N
      /\ \A n \in 1 .. N : n \in 0 .. N /\ n - 1 \in 0 .. N
  BY Indices
<1>2. /\ C \in [0 .. N -> [CopyCalls -> Outcomes]]
      /\ C[0] = [a \in CopyCalls |-> Fail(a.t)]
      /\ \A n \in 1 .. N : C[n] = [a \in CopyCalls |-> CopyEntry(C[n - 1], a)]
  BY CopySolved
<1> HIDE DEF N, C
<1>3. 0 \in Kept
  BY <1>1, <1>2 DEF Fail
<1>4. ASSUME NEW n \in 1 .. N, n - 1 \in Kept PROVE n \in Kept
  <2>1. /\ C[n - 1] \in [CopyCalls -> Outcomes]
        /\ \A a \in CopyCalls : a.t \in Trees => C[n - 1][a].entries \in Trees
    BY <1>1, <1>2, <1>4
  <2>2. ASSUME NEW a \in CopyCalls, a.t \in Trees PROVE C[n][a].entries \in Trees
    <3>1. C[n][a] = CopyEntry(C[n - 1], a)
      BY <1>2
    <3> QED
      BY <2>1, <2>2, <3>1, EntryCopied
  <2> QED
    BY <1>1, <2>2
<1> HIDE DEF Kept
<1>5. 0 .. N \subseteq Kept
  BY <1>1, <1>3, <1>4, UpTo
<1>6. \A a \in CopyCalls : a.t \in Trees => C[N][a].entries \in Trees
  BY <1>1, <1>5 DEF Kept
<1>7. CASE ~ (Exists(t, src) /\ ~ Exists(t, dst))
  <2>1. copy(t, src, dst) = [entries |-> t, then |-> "fail"]
    BY <1>7 DEF copy, Fail
  <2> QED
    BY <2>1 DEF Results, Ends
<1>8. CASE Exists(t, src) /\ ~ Exists(t, dst)
  <2> DEFINE a == [t |-> t, src |-> find_file(t, src), dst |-> dst]
  <2>1. a \in CopyCalls /\ a.t \in Trees
    <3>1. find_file(t, src) \in Files /\ t \in Tables
      BY <1>8, Found DEF Trees
    <3> QED
      BY <3>1 DEF CopyCalls
  <2>2. copy(t, src, dst) = C[N][a]
    BY <1>8 DEF copy, C, N
  <2> HIDE DEF a
  <2>3. C[N][a] \in Outcomes /\ C[N][a].entries \in Trees
    BY <1>1, <1>2, <1>6, <2>1
  <2> QED
    BY <2>2, <2>3 DEF Outcomes, Results
<1> QED
  BY <1>7, <1>8
(***************************************************************************)
(* The invariant.                                                          *)
(***************************************************************************)

\* What may be on the list of things to do: every operation but a sync is on a path with a
\* component, and a copy goes to one.
Ops == {op \in [do : {"mkdir", "create", "write", "append", "remove", "copy", "sync"},
                path : Paths, arg : Data] :
           /\ op.do # "sync" => op.path \in Named
           /\ op.do = "copy" => op.arg \in Named}

TreeInv == entries \in Trees /\ todo \in Seq(Ops)

\* Every operation makes a tree of a tree.
LEMMA EffectTree ==
    ASSUME NEW t \in Trees, NEW op \in Ops
    PROVE  Effect(t, op) \in Results
<1>1. /\ op.do \in {"mkdir", "create", "write", "append", "remove", "copy", "sync"}
      /\ op.arg \in Data
      /\ op.do # "sync" => op.path \in Named
      /\ op.do = "copy" => op.arg \in Named
  BY DEF Ops
<1>2. CASE op.do = "mkdir"
  <2>1. Effect(t, op) = alloc(t, op.path, TRUE)
    BY <1>2 DEF Effect
  <2> QED
    BY <1>1, <1>2, <2>1, Allocated
<1>3. CASE op.do = "create"
  <2>1. Effect(t, op) = alloc(t, op.path, FALSE)
    BY <1>3 DEF Effect
  <2> QED
    BY <1>1, <1>3, <2>1, Allocated
<1>4. CASE op.do = "write"
  <2>1. Effect(t, op) = write(t, op.path, op.arg)
    BY <1>4 DEF Effect
  <2> QED
    BY <1>1, <1>4, <2>1, TextsWritten DEF Trees
<1>5. CASE op.do = "append"
  <2>1. Effect(t, op) = append(t, op.path, op.arg)
    BY <1>5 DEF Effect
  <2> QED
    BY <1>1, <1>5, <2>1, TextsWritten DEF Trees
<1>6. CASE op.do = "remove"
  <2>1. Effect(t, op) = remove(t, op.path)
    BY <1>6 DEF Effect
  <2> QED
    BY <1>1, <1>6, <2>1, Removed
<1>7. CASE op.do = "copy"
  <2>1. Effect(t, op) = copy(t, op.path, op.arg)
    BY <1>7 DEF Effect
  <2> QED
    BY <1>1, <1>7, <2>1, Copied
<1>8. CASE op.do = "sync"
  <2>1. Effect(t, op) = [entries |-> t, then |-> "sync"]
    BY <1>8 DEF Effect, Sync
  <2> QED
    BY <2>1 DEF Results, Ends
<1> QED
  BY <1>1, <1>2, <1>3, <1>4, <1>5, <1>6, <1>7, <1>8

\* What users ask for can be on the list.
LEMMA UserOps ==
    /\ \A p \in UserPaths : /\ Op("mkdir", p, <<>>) \in Ops /\ Op("create", p, <<>>) \in Ops
                             /\ Op("remove", p, <<>>) \in Ops
    /\ \A p \in UserPaths, text \in Texts :
          Op("write", p, text) \in Ops /\ Op("append", p, text) \in Ops
    /\ \A p \in UserPaths, q \in UserPaths : Op("copy", p, q) \in Ops
<1>1. /\ \A p \in UserPaths : p \in Paths /\ p \in Named
      /\ \A text \in Texts : text \in Data
      /\ <<>> \in Paths /\ <<>> \in Data
      /\ Paths \subseteq Data
  BY FsAssumption, CleanPaths, PathsData DEF Paths, Data
<1> QED
  BY <1>1 DEF Op, Ops

LEMMA SyncOp == Op("sync", <<>>, <<>>) \in Ops
<1>1. <<>> \in Paths /\ <<>> \in Data
  BY DEF Paths, Data
<1> QED
  BY <1>1 DEF Op, Ops

\* init_fs asks for nothing else.
LEMMA DefaultOps == Defaults \in Seq(Ops)
<1>1. ASSUME NEW S, NEW a \in S, NEW b \in S
      PROVE  /\ <<a>> \in Seq(S) /\ Len(<<a>>) = 1
             /\ <<a, b>> \in Seq(S) /\ Len(<<a, b>>) = 2
  OBVIOUS
<1>2. Len(<<>>) = 0
  OBVIOUS
<1>3. ASSUME NEW a \in Strings, NEW b \in Strings PROVE <<a>> \in Named /\ <<a, b>> \in Named
  <2>1. <<a>> \in Paths /\ <<a, b>> \in Paths
    BY <1>1 DEF Paths
  <2>2. <<a>> # <<>> /\ <<a, b>> # <<>>
    BY <1>1, <1>2
  <2> QED
    BY <2>1, <2>2 DEF Named
<1>4. <<>> \in Data /\ Named \subseteq Paths
  BY DEF Named, Data
<1>5. /\ <<"home">> \in Named /\ <<"readme.txt">> \in Named /\ <<"hello.txt">> \in Named
      /\ <<"home", "user">> \in Named
      /\ <<"Bienvenue">> \in Data /\ <<"Hello">> \in Data
  <2>1. /\ "home" \in Strings /\ "user" \in Strings /\ "readme.txt" \in Strings
        /\ "hello.txt" \in Strings /\ "Bienvenue" \in STRING /\ "Hello" \in STRING
    BY LiteralAssumption
  <2>2. <<"Bienvenue">> \in Data /\ <<"Hello">> \in Data
    BY <1>1, <2>1 DEF Data
  <2> QED
    BY <1>3, <2>1, <2>2
<1>6. ASSUME NEW a \in Ops, NEW b \in Ops, NEW c \in Ops, NEW d \in Ops, NEW e \in Ops,
             NEW f \in Ops, NEW g \in Ops
      PROVE  <<a, b, c, d, e, f, g>> \in Seq(Ops)
  OBVIOUS
<1>7. /\ Op("mkdir",  <<"home">>, <<>>) \in Ops
      /\ Op("mkdir",  <<"home", "user">>, <<>>) \in Ops
      /\ Op("create", <<"readme.txt">>, <<>>) \in Ops
      /\ Op("write",  <<"readme.txt">>, <<"Bienvenue">>) \in Ops
      /\ Op("create", <<"hello.txt">>, <<>>) \in Ops
      /\ Op("write",  <<"hello.txt">>, <<"Hello">>) \in Ops
  <2>1. ASSUME NEW p \in Named, NEW text \in Data
        PROVE  Op("mkdir", p, text) \in Ops /\ Op("create", p, text) \in Ops
               /\ Op("write", p, text) \in Ops
    BY <1>4 DEF Op, Ops
  <2> QED
    BY <1>4, <1>5, <2>1
<1> QED
  BY <1>6, <1>7, SyncOp DEF Defaults

\* The actions keep the invariant: the operations by the lemmas above, the others because they
\* leave the table alone.
LEMMA TreeInvHolds ==
    ASSUME TreeInv, [Steady]_vars
    PROVE  TreeInv'
<1>1. entries \in Trees /\ todo \in Seq(Ops)
  BY DEF TreeInv
<1>2. \A x \in Ops, y \in Ops, z \in Ops : <<x>> \in Seq(Ops) /\ <<x, y, z>> \in Seq(Ops)
  OBVIOUS
<1>3. ASSUME NEW ops \in Seq(Ops), Call(ops) PROVE TreeInv'
  BY <1>1, <1>3 DEF Call, TreeInv
<1>4. ASSUME NEW p \in UserPaths, fs_mkdir(p) \/ fs_create(p) \/ fs_remove(p) PROVE TreeInv'
  BY <1>2, <1>3, <1>4, UserOps DEF fs_mkdir, fs_create, fs_remove
<1>5. ASSUME NEW p \in UserPaths, NEW text \in Texts, fs_write(p, text) \/ fs_append(p, text)
      PROVE  TreeInv'
  BY <1>2, <1>3, <1>5, UserOps DEF fs_write, fs_append
<1>6. ASSUME NEW src \in UserPaths, NEW dst \in UserPaths, fs_copy(src, dst) \/ fs_move(src, dst)
      PROVE  TreeInv'
  BY <1>2, <1>3, <1>6, UserOps, SyncOp DEF fs_copy, fs_move
<1>7. <<>> \in Seq(Ops)
  OBVIOUS
<1>8. CASE operate
  <2> DEFINE out == Effect(entries, Head(todo))
  <2>1. Head(todo) \in Ops /\ Tail(todo) \in Seq(Ops)
    BY <1>1, <1>8 DEF operate
  <2>2. out \in Results
    BY <1>1, <2>1, EffectTree
  <2>3. entries' = out.entries /\ (todo' = Tail(todo) \/ todo' = <<>>)
    BY <1>8 DEF operate, End
  <2> HIDE DEF out
  <2>4. todo' \in Seq(Ops)
    BY <1>7, <2>1, <2>3
  <2> QED
    BY <2>2, <2>3, <2>4 DEF TreeInv, Results
<1>9. CASE write_sector
  BY <1>1, <1>9 DEF write_sector, TreeInv
<1>10. CASE sync_end
  BY <1>1, <1>10 DEF sync_end, End, TreeInv
<1>11. CASE format
  <2>1. [i \in Files |-> Blank] \in Trees
    BY BlankTree
  <2> QED
    BY <1>11, <2>1, DefaultOps DEF format, TreeInv
<1>12. CASE UNCHANGED vars
  BY <1>1, <1>12 DEF vars, TreeInv
<1> QED
  BY <1>4, <1>5, <1>6, <1>8, <1>9, <1>10, <1>11, <1>12 DEF Steady

\* The table is a tree: as long as the power stays on and no write fails, no operation leaves
\* two entries with one path, or an entry without its parent, for any size of the table and
\* whatever is created, copied, moved and removed, a copy that fails half way included.
THEOREM TreeCorrect == SteadySpec => []TableIsTree
<1>1. Init => TreeInv
  BY BlankTree DEF Init, TreeInv
<1>2. TreeInv /\ [Steady]_vars => TreeInv'
  BY TreeInvHolds
<1>3. TreeInv => TableIsTree
  BY DEF TreeInv, Trees, Tree, TableIsTree
<1> QED
  BY <1>1, <1>2, <1>3, PTL DEF SteadySpec

(***************************************************************************)
(* What the disk keeps: FsDurable.                                         *)
(***************************************************************************)

\* What the sectors up to a place behind the first group leave of an entry: its path is that of
\* the table, and it has the data of the table or those that were there, or the beginning of the
\* ones over the others.
Mixed(w, new, old) ==
    /\ w \in Entries
    /\ w.used = new.used /\ w.is_dir = new.is_dir /\ w.path = new.path
    /\ w.size \in {new.size, old.size}
    /\ w.data \in {new.data, old.data} \cup Over(new.data, old.data)

LEMMA GroupsAre ==
    /\ DOMAIN Groups = 1 .. 4 /\ Len(Groups) = 4
    /\ Groups[1] = {"used", "is_dir", "path"} /\ Groups[2] = {"parent"}
    /\ Groups[3] = {"name", "size"} /\ Groups[4] = {"data"}
  BY DEF Groups

\* Each field of what is written can be.
LEMMA FieldsWritten ==
    ASSUME NEW new, NEW old, NEW group \in 1 .. 4, NEW w \in Written(new, old, group)
    PROVE  /\ w.used = new.used /\ w.is_dir = new.is_dir /\ w.path = new.path
           /\ w.parent \in {new.parent, old.parent} \cup Torn(new.parent, 8)
           /\ w.name \in {new.name, old.name} \cup Torn(new.name, 4)
           /\ w.size \in {new.size, old.size}
           /\ w.data \in {new.data, old.data} \cup Over(new.data, old.data)
           /\ w = [used |-> w.used, is_dir |-> w.is_dir, path |-> w.path, parent |-> w.parent,
                   name |-> w.name, size |-> w.size, data |-> w.data]
<1> DEFINE next == Groups[IF group = Len(Groups) THEN group ELSE group + 1]
           Before(f) == \E g \in 1 .. group : f \in Groups[g]
           Can(f) == CASE f \in next -> Partly(new, old, f)
                       [] Before(f)  -> {new[f]}
                       [] OTHER      -> {old[f]}
<1>1. Written(new, old, group) =
          [used : Can("used"), is_dir : Can("is_dir"), path : Can("path"),
           parent : Can("parent"), name : Can("name"), size : Can("size"), data : Can("data")]
  BY DEF Written
<1>2. group \in {1, 2, 3, 4}
  OBVIOUS
<1>3. next \in {{"parent"}, {"name", "size"}, {"data"}}
  BY <1>2, GroupsAre
<1>4. ASSUME NEW f \in {"used", "is_dir", "path"} PROVE f \notin next /\ Before(f)
  <2>1. f \notin next
    BY <1>3
  <2>2. 1 \in 1 .. group /\ f \in Groups[1]
    BY GroupsAre
  <2> QED
    BY <2>1, <2>2
<1>5. \A f : Can(f) \subseteq {new[f], old[f]} \/ (f \in next /\ Can(f) = Partly(new, old, f))
  OBVIOUS
<1>6. ASSUME NEW f \in {"used", "is_dir", "path"} PROVE Can(f) = {new[f]}
  BY <1>4
<1> HIDE DEF next, Before, Can
<1>7. /\ w.used \in Can("used") /\ w.is_dir \in Can("is_dir") /\ w.path \in Can("path")
      /\ w.parent \in Can("parent") /\ w.name \in Can("name") /\ w.size \in Can("size")
      /\ w.data \in Can("data")
      /\ w = [used |-> w.used, is_dir |-> w.is_dir, path |-> w.path, parent |-> w.parent,
              name |-> w.name, size |-> w.size, data |-> w.data]
  BY <1>1
<1>8. /\ Partly(new, old, "parent") \subseteq {new.parent} \cup Torn(new.parent, 8)
      /\ Partly(new, old, "name") \subseteq {new.name, old.name} \cup Torn(new.name, 4)
      /\ Partly(new, old, "size") \subseteq {new.size, old.size}
      /\ Partly(new, old, "data") \subseteq {new.data} \cup Over(new.data, old.data)
  BY DEF Partly
<1>9. /\ w.used = new.used /\ w.is_dir = new.is_dir /\ w.path = new.path
  BY <1>6, <1>7
<1>10. w.parent \in {new.parent, old.parent} \cup Torn(new.parent, 8)
  BY <1>5, <1>7, <1>8
<1>11. w.name \in {new.name, old.name} \cup Torn(new.name, 4)
  BY <1>5, <1>7, <1>8
<1>12. w.size \in {new.size, old.size}
  BY <1>5, <1>7, <1>8
<1>13. w.data \in {new.data, old.data} \cup Over(new.data, old.data)
  BY <1>5, <1>7, <1>8
<1> QED
  BY <1>7, <1>9, <1>10, <1>11, <1>12, <1>13

LEMMA WrittenIs ==
    ASSUME NEW new \in Entries, NEW old \in Entries, NEW group \in 1 .. 4,
           NEW w \in Written(new, old, group)
    PROVE  Mixed(w, new, old)
<1>1. /\ w.used = new.used /\ w.is_dir = new.is_dir /\ w.path = new.path
      /\ w.parent \in {new.parent, old.parent} \cup Torn(new.parent, 8)
      /\ w.name \in {new.name, old.name} \cup Torn(new.name, 4)
      /\ w.size \in {new.size, old.size}
      /\ w.data \in {new.data, old.data} \cup Over(new.data, old.data)
      /\ w = [used |-> w.used, is_dir |-> w.is_dir, path |-> w.path, parent |-> w.parent,
              name |-> w.name, size |-> w.size, data |-> w.data]
  BY FieldsWritten
<1>2. /\ new.used \in BOOLEAN /\ new.is_dir \in BOOLEAN /\ new.path \in Paths
      /\ {new.parent, old.parent} \subseteq Paths /\ {new.name, old.name} \subseteq Named
      /\ {new.size, old.size} \subseteq 0 .. FS_MAX_DATA - 1
      /\ new.data \in Data /\ old.data \in Data
  BY DEF Entries
<1>3. Scraps \subseteq Named /\ Named \subseteq Paths
  BY FsAssumption DEF Named
<1>4. Torn(new.parent, 8) \subseteq Paths /\ Torn(new.name, 4) \subseteq Named
  BY <1>2, <1>3 DEF Torn
<1>5. Over(new.data, old.data) \subseteq Data
  <2>1. ASSUME NEW a \in Seq(STRING), NEW b \in Seq(STRING), NEW n \in WHOLE_DATA .. Len(a)
        PROVE  SubSeq(a, 1, n) \o SubSeq(b, n + 1, Len(b)) \in Seq(STRING)
    <3>1. WHOLE_DATA \in Nat \ {0} /\ Len(a) \in Nat /\ Len(b) \in Nat
      BY FsAssumption
    <3>2. n \in 1 .. Len(a) /\ n + 1 \in 1 .. Len(b) + n + 1
      BY <3>1
    <3>3. SubSeq(a, 1, n) \in Seq(STRING)
      BY <3>2
    <3>4. SubSeq(b, n + 1, Len(b)) \in Seq(STRING)
      BY <3>1, <3>2
    <3> QED
      BY <3>3, <3>4
  <2> QED
    BY <1>2, <2>1 DEF Over, Data
<1>6. w.parent \in Paths /\ w.name \in Named
  BY <1>1, <1>2, <1>4
<1>7. w.size \in 0 .. FS_MAX_DATA - 1
  BY <1>1, <1>2
<1>8. w.data \in Data
  BY <1>1, <1>2, <1>5
<1>9. w \in Entries
  BY <1>1, <1>2, <1>6, <1>7, <1>8 DEF Entries
<1> QED
  BY <1>1, <1>9 DEF Mixed

\* An entry is found by its path if no entry before it has that path.
LEMMA ShownIs ==
    ASSUME NEW t, NEW i \in Files
    PROVE  i \in Visible(t) <=> /\ t[i].used
                              /\ \A j \in Files : j < i => ~ (t[j].used /\ t[j].path = t[i].path)
<1> DEFINE H == Having(t, t[i].path)
<1>1. H \in SUBSET Nat /\ Files \in SUBSET Nat
  BY Indices DEF Having
<1>2. \A j : j \in H <=> j \in Files /\ t[j].used /\ t[j].path = t[i].path
  BY DEF Having
<1>3. /\ H = {} => find_file(t, t[i].path) = 0
      /\ H # {} => find_file(t, t[i].path) = Least(H)
  BY DEF find_file
<1> DEFINE m == find_file(t, t[i].path)
<1>4. (H = {} => m = 0) /\ (H # {} => m \in H /\ \A j \in H : m <= j)
  BY <1>1, <1>3, LeastProperty
<1>5. i \in Visible(t) <=> t[i].used /\ m = i
  BY DEF Visible
<1> HIDE DEF H, m
<1>6. ASSUME t[i].used, m = i, NEW j \in Files, j < i, t[j].used, t[j].path = t[i].path PROVE FALSE
  <2>1. i \in H /\ j \in H
    BY <1>2, <1>6
  <2> QED
    BY <1>1, <1>4, <1>6, <2>1
<1>7. ASSUME t[i].used, \A j \in Files : j < i => ~ (t[j].used /\ t[j].path = t[i].path)
      PROVE  m = i
  <2>1. i \in H
    BY <1>2, <1>7
  <2>2. m \in H /\ m <= i
    BY <1>4, <2>1
  <2>3. m \in Files /\ t[m].used /\ t[m].path = t[i].path
    BY <1>2, <2>2
  <2> QED
    BY <1>1, <1>7, <2>2, <2>3
<1> QED
  BY <1>5, <1>6, <1>7

\* What two tables both show.
LEMMA KeptIs ==
    ASSUME NEW t, NEW u
    PROVE  /\ \A x : x \in Lasting(t, u) <=> \E i \in Files : /\ i \in Visible(t) /\ i \in Visible(u)
                                                          /\ x = Thing(t, i) /\ x = Thing(u, i)
           /\ Lasting(t, u) \subseteq Things(t) /\ Lasting(t, u) \subseteq Things(u)
           /\ Lasting(t, t) = Things(t)
  BY DEF Lasting, Things, Visible

\* What an operation keeps is still in the entry where the disk has it.
LEMMA KeptThrough ==
    ASSUME NEW e, NEW s, NEW v, NEW x, x \in Lasting(e, s), x \in Lasting(e, v)
    PROVE  x \in Lasting(v, s)
<1>1. PICK i \in Files : /\ i \in Visible(e) /\ i \in Visible(s)
                         /\ x = Thing(e, i) /\ x = Thing(s, i)
  BY KeptIs
<1>2. PICK j \in Files : /\ j \in Visible(e) /\ j \in Visible(v)
                         /\ x = Thing(e, j) /\ x = Thing(v, j)
  BY KeptIs
<1>3. e[i].path = x.path /\ e[j].path = x.path
  BY <1>1, <1>2 DEF Thing
<1>4. i = j
  BY <1>1, <1>2, <1>3 DEF Visible
<1> QED
  BY <1>1, <1>2, <1>4, KeptIs

LEMMA SameBytes ==
    ASSUME NEW it, NEW at, it.size = at.size, it.data = at.data
    PROVE  Bytes(it) = Bytes(at)
  BY DEF Bytes

\* The bytes of an entry tell its size.
LEMMA SizeOf ==
    ASSUME NEW it \in Entries, NEW at \in Entries, Bytes(it) = Bytes(at)
    PROVE  it.size = at.size
  BY TextLengths


\* An entry that has the bytes of the table and those on the disk, which are the same, still has
\* them when a part of its data is written.
LEMMA OverBytes ==
    ASSUME NEW it \in Entries, NEW at \in Entries, NEW w \in Entries, Bytes(it) = Bytes(at),
           w.size = it.size, it.size = at.size, w.data \in Over(it.data, at.data)
    PROVE  Bytes(w) = Bytes(it)
<1>1. CASE w.data = it.data
  BY <1>1, SameBytes
<1>2. CASE w.data # it.data
  <2> DEFINE a == it.data
             b == at.data
             x == w.data
             size == it.size
             By(d) == [k \in 1 .. size |-> IF k <= Len(d) THEN d[k] ELSE ""]
  <2>1. PICK n \in WHOLE_DATA .. Len(a) : x = SubSeq(a, 1, n) \o SubSeq(b, n + 1, Len(b))
    BY <1>2 DEF Over
  <2>2. a \in Seq(STRING) /\ b \in Seq(STRING) /\ Len(a) \in Nat /\ Len(b) \in Nat /\ size \in Nat
    BY Indices DEF Entries, Data
  <2>3. n \in Nat /\ n <= Len(a)
    <3>1. WHOLE_DATA \in Nat \ {0}
      BY FsAssumption
    <3> QED
      BY <2>2, <3>1
  <2>4. By(a) = By(b)
    BY DEF Bytes
  <2>5. Bytes(w) = By(x) /\ Bytes(it) = By(a)
    BY DEF Bytes
  <2> HIDE DEF a, b, x, size
  <2>6. /\ Len(x) = n + (IF n < Len(b) THEN Len(b) - n ELSE 0)
        /\ \A k \in 1 .. Len(x) : x[k] = IF k <= n THEN a[k] ELSE b[k]
    <3>1. SubSeq(a, 1, n) \in Seq(STRING) /\ Len(SubSeq(a, 1, n)) = n
          /\ \A k \in 1 .. n : SubSeq(a, 1, n)[k] = a[k]
      BY <2>2, <2>3
    <3> DEFINE c == SubSeq(b, n + 1, Len(b))
               m == IF n < Len(b) THEN Len(b) - n ELSE 0
    <3>2. c \in Seq(STRING) /\ Len(c) = m /\ \A k \in 1 .. m : c[k] = b[k + n]
      BY <2>2, <2>3
    <3> HIDE DEF c, m
    <3>3. m \in Nat
      BY <2>2, <2>3 DEF m
    <3>4. x = SubSeq(a, 1, n) \o c
      BY <2>1 DEF c
    <3>5. Len(x) = n + m
      BY <2>3, <3>1, <3>2, <3>3, <3>4
    <3>6. ASSUME NEW k \in 1 .. n + m PROVE x[k] = IF k <= n THEN a[k] ELSE b[k]
      <4>1. x[k] = IF k <= n THEN SubSeq(a, 1, n)[k] ELSE c[k - n]
        BY <2>3, <3>1, <3>2, <3>3, <3>4
      <4>2. CASE k <= n
        BY <2>3, <3>1, <4>1, <4>2
      <4>3. CASE ~ (k <= n)
        <5>1. k - n \in 1 .. m /\ (k - n) + n = k
          BY <2>3, <3>3, <4>3
        <5> QED
          BY <3>2, <4>1, <4>3, <5>1
      <4> QED
        BY <4>2, <4>3
    <3> QED
      BY <3>5, <3>6 DEF m
  <2>7. ASSUME NEW k \in 1 .. size PROVE By(x)[k] = By(a)[k]
    <3>1. By(a)[k] = By(b)[k]
      BY <2>4
    <3>2. /\ By(x)[k] = IF k <= Len(x) THEN x[k] ELSE ""
          /\ By(a)[k] = IF k <= Len(a) THEN a[k] ELSE ""
          /\ By(b)[k] = IF k <= Len(b) THEN b[k] ELSE ""
      OBVIOUS
    <3> HIDE DEF By
    <3>3. CASE k <= n
      <4>1. k \in 1 .. Len(x) /\ k <= Len(a) /\ k <= Len(x)
        BY <2>2, <2>3, <2>6, <3>3
      <4> QED
        BY <2>6, <3>2, <3>3, <4>1
    <3>4. CASE ~ (k <= n)
      <4>1. k <= Len(x) <=> k <= Len(b)
        BY <2>2, <2>3, <2>6, <3>4
      <4>2. k <= Len(x) => x[k] = b[k]
        <5>1. k <= Len(x) => k \in 1 .. Len(x)
          BY <2>2, <2>3, <2>6
        <5> QED
          BY <2>6, <3>4, <5>1
      <4> QED
        BY <3>1, <3>2, <4>1, <4>2
    <3> QED
      BY <3>3, <3>4
  <2> QED
    BY <2>5, <2>7
<1> QED
  BY <1>1, <1>2

\* What the entry k of the disk can be when sectors have been written.
IsWritten(u, e, s, k) ==
    \E group \in 1 .. 4 : \E w \in Written(e[k], s[k], group) : u = [s EXCEPT ![k] = w]

\* Sectors that are written take from the disk nothing that the table shows there.
LEMMA KeptWritten ==
    ASSUME NEW e \in Tables, NEW s \in Tables, NEW k \in Files, NEW u, IsWritten(u, e, s, k)
    PROVE  /\ u \in Tables
           /\ \A x \in Lasting(e, s) : x \in Lasting(e, u)
<1>1. \A i \in Files : e[i] \in Entries /\ s[i] \in Entries
  BY DEF Tables
<1>2. PICK w : Mixed(w, e[k], s[k]) /\ u = [s EXCEPT ![k] = w]
  BY <1>1, WrittenIs DEF IsWritten
<1>3. w \in Entries
  BY <1>2 DEF Mixed
<1>4. u \in Tables /\ \A i \in Files : u[i] = IF i = k THEN w ELSE s[i]
  BY <1>2, <1>3 DEF Tables
<1>5. ASSUME NEW x \in Lasting(e, s) PROVE x \in Lasting(e, u)
  <2>1. PICK i \in Files : /\ i \in Visible(e) /\ i \in Visible(s)
                           /\ x = Thing(e, i) /\ x = Thing(s, i)
    BY <1>5, KeptIs
  <2>2. /\ e[i].used /\ s[i].used /\ e[i].path = s[i].path /\ e[i].is_dir = s[i].is_dir
        /\ ~ e[i].is_dir => Bytes(e[i]) = Bytes(s[i])
    BY <2>1 DEF Thing, Visible
  <2>3. ~ e[i].is_dir => e[i].size = s[i].size
    BY <1>1, <2>2, SizeOf
  <2>4. /\ u[i].used /\ u[i].path = e[i].path /\ u[i].is_dir = e[i].is_dir
        /\ u[i].size \in {e[i].size, s[i].size}
        /\ u[i].data \in {e[i].data, s[i].data} \cup Over(e[i].data, s[i].data)
    <3>1. CASE i = k
      BY <1>2, <1>4, <2>2, <3>1 DEF Mixed
    <3>2. CASE i # k
      BY <1>4, <2>2, <3>2
    <3> QED
      BY <3>1, <3>2
  <2>5. ASSUME ~ e[i].is_dir PROVE Bytes(u[i]) = Bytes(e[i])
    <3>1. u[i].size = s[i].size /\ u[i].size = e[i].size
      BY <2>3, <2>4, <2>5
    <3>2. CASE u[i].data = e[i].data
      BY <3>1, <3>2, SameBytes
    <3>3. CASE u[i].data = s[i].data
      <4>1. Bytes(u[i]) = Bytes(s[i])
        BY <3>1, <3>3, SameBytes
      <4> QED
        BY <2>2, <2>5, <4>1
    <3>4. CASE u[i].data \in Over(e[i].data, s[i].data)
      <4>1. u[i] \in Entries
        BY <1>4 DEF Tables
      <4> QED
        BY <1>1, <2>2, <2>5, <3>1, <3>4, <4>1, OverBytes
    <3> QED
      BY <2>4, <3>2, <3>3, <3>4
  <2>6. \A j \in Files : j < i => /\ ~ (e[j].used /\ e[j].path = e[i].path)
                                  /\ ~ (s[j].used /\ s[j].path = s[i].path)
    BY <2>1, ShownIs
  <2>7. \A j \in Files : j < i => ~ (u[j].used /\ u[j].path = u[i].path)
    <3>1. w.used = e[k].used /\ w.path = e[k].path
      BY <1>2 DEF Mixed
    <3> QED
      BY <1>4, <2>2, <2>4, <2>6, <3>1
  <2>8. i \in Visible(u)
    <3>1. i \in Visible(u) <=> /\ u[i].used
                             /\ \A j \in Files : j < i => ~ (u[j].used /\ u[j].path = u[i].path)
      BY ShownIs
    <3>2. u[i].used
      BY <2>2, <2>4
    <3> QED
      BY <2>7, <3>1, <3>2
  <2>9. x = Thing(u, i)
    BY <2>1, <2>4, <2>5 DEF Thing
  <2> QED
    BY <2>1, <2>8, <2>9, KeptIs
<1> QED
  BY <1>4, <1>5

\* When no sector differs, the disk is the table.
LEMMA NothingDiffers ==
    ASSUME entries \in Tables, sectors \in Tables, Differing = {}
    PROVE  entries = sectors
<1>1. ASSUME NEW i \in Files, NEW g \in DOMAIN Groups, NEW f \in Groups[g]
      PROVE  entries[i][f] = sectors[i][f]
  <2>1. <<i, g>> \notin Differing /\ <<i, g>> \in Files \X DOMAIN Groups
    BY <1>1
  <2> QED
    BY <1>1, <2>1 DEF Differing
<1>2. ASSUME NEW i \in Files PROVE entries[i] = sectors[i]
  <2>1. /\ entries[i].used = sectors[i].used /\ entries[i].is_dir = sectors[i].is_dir
        /\ entries[i].path = sectors[i].path /\ entries[i].parent = sectors[i].parent
        /\ entries[i].name = sectors[i].name /\ entries[i].size = sectors[i].size
        /\ entries[i].data = sectors[i].data
    BY <1>1, GroupsAre
  <2>2. entries[i] \in Entries /\ sectors[i] \in Entries
    BY DEF Tables
  <2> QED
    BY <2>1, <2>2 DEF Entries
<1> QED
  BY <1>2 DEF Tables

\* Every operation leaves a table, of whatever a torn write has left.
LEMMA EffectTyped ==
    ASSUME NEW t \in Tables, NEW op \in Ops
    PROVE  Effect(t, op).entries \in Tables
<1>1. /\ op.do \in {"mkdir", "create", "write", "append", "remove", "copy", "sync"}
      /\ op.arg \in Data
      /\ op.do # "sync" => op.path \in Named
      /\ op.do = "copy" => op.arg \in Named
  BY DEF Ops
<1>2. CASE op.do = "mkdir" \/ op.do = "create"
  <2>1. Effect(t, op) = alloc(t, op.path, op.do = "mkdir")
    <3>1. CASE op.do = "mkdir"
      <4>1. (op.do = "mkdir") = TRUE
        BY <3>1
      <4>2. Effect(t, op) = alloc(t, op.path, TRUE)
        BY <3>1 DEF Effect
      <4> QED
        BY <4>1, <4>2
    <3>2. CASE op.do = "create"
      <4>1. (op.do = "mkdir") = FALSE
        BY <3>2
      <4>2. Effect(t, op) = alloc(t, op.path, FALSE)
        BY <3>2 DEF Effect
      <4> QED
        BY <4>1, <4>2
    <3> QED
      BY <1>2, <3>1, <3>2
  <2>2. op.path \in Named /\ (op.do = "mkdir") \in BOOLEAN
    BY <1>1, <1>2
  <2> QED
    BY <2>1, <2>2, AllocTyped DEF Outcomes
<1>3. CASE op.do = "write"
  <2>1. Effect(t, op) = write(t, op.path, op.arg)
    BY <1>3 DEF Effect
  <2> QED
    BY <1>1, <1>3, <2>1, TextsWritten DEF Outcomes
<1>4. CASE op.do = "append"
  <2>1. Effect(t, op) = append(t, op.path, op.arg)
    BY <1>4 DEF Effect
  <2> QED
    BY <1>1, <1>4, <2>1, TextsWritten DEF Outcomes
<1>5. CASE op.do = "remove"
  <2> DEFINE gone == Family(t, find_file(t, op.path))
  <2>1. Effect(t, op) = remove(t, op.path)
    BY <1>5 DEF Effect
  <2>2. Effect(t, op).entries \in {t, [i \in Files |-> IF i \in gone THEN Blank ELSE t[i]]}
    BY <2>1 DEF remove, Sync, Fail
  <2> HIDE DEF gone
  <2>3. Blank \in Entries
    BY BlankTree
  <2> QED
    BY <2>2, <2>3 DEF Tables
<1>6. CASE op.do = "copy"
  <2> DEFINE a == [t |-> t, src |-> find_file(t, op.path), dst |-> op.arg]
             C == copy_entry_recursive_idx
  <2>1. Effect(t, op) = copy(t, op.path, op.arg)
    BY <1>6 DEF Effect
  <2>2. CASE ~ (Exists(t, op.path) /\ ~ Exists(t, op.arg))
    BY <2>1, <2>2 DEF copy, Fail
  <2>3. CASE Exists(t, op.path) /\ ~ Exists(t, op.arg)
    <3>1. find_file(t, op.path) \in Files
      BY <2>3, Found
    <3>2. a \in CopyCalls
      BY <1>1, <1>6, <3>1 DEF CopyCalls
    <3>3. Effect(t, op) = C[FS_MAX_FILES][a]
      BY <2>1, <2>3 DEF copy
    <3>4. FS_MAX_FILES \in Nat
      BY Indices
    <3>5. C \in [0 .. FS_MAX_FILES -> [CopyCalls -> Outcomes]]
      BY CopySolved
    <3> HIDE DEF a, C
    <3> QED
      BY <3>2, <3>3, <3>4, <3>5 DEF Outcomes
  <2> QED
    BY <2>2, <2>3
<1>7. CASE op.do = "sync"
  BY <1>7 DEF Effect, Sync
<1> QED
  BY <1>1, <1>2, <1>3, <1>4, <1>5, <1>6, <1>7

\* The sector that is written first is one that differs.
LEMMA FirstIs ==
    ASSUME Differing # {}
    PROVE  /\ FirstOf(Differing)[1] \in Files /\ FirstOf(Differing)[2] \in DOMAIN Groups
           /\ \A d \in Differing :
                 d[1] = FirstOf(Differing)[1] => FirstOf(Differing)[2] <= d[2]
<1>1. Differing \subseteq Files \X (1 .. 4) /\ DOMAIN Groups = 1 .. 4
  BY GroupsAre DEF Differing
<1> DEFINE R == {c[1] : c \in Differing}
<1>2. R \in SUBSET Nat /\ R # {}
  BY <1>1, Indices
<1>3. PICK i \in R : \A j \in R : i <= j
  BY <1>2, LeastExists
<1> DEFINE G == {c[2] : c \in {d \in Differing : d[1] = i}}
<1>4. G \in SUBSET Nat /\ G # {}
  BY <1>1, <1>3
<1>5. PICK g \in G : \A h \in G : g <= h
  BY <1>4, LeastExists
<1>6. PICK c \in Differing : c[1] = i /\ c[2] = g
  BY <1>5
<1>7. ASSUME NEW d \in Differing PROVE c[1] < d[1] \/ (c[1] = d[1] /\ c[2] <= d[2])
  <2>1. d[1] \in R /\ c[1] <= d[1] /\ c[1] \in Nat /\ d[1] \in Nat
    BY <1>2, <1>3, <1>6
  <2>2. d[1] = i => d[2] \in G
    OBVIOUS
  <2> QED
    BY <1>5, <1>6, <2>1, <2>2
<1>8. PICK e \in Differing :
         /\ e = FirstOf(Differing)
         /\ \A d \in Differing : e[1] < d[1] \/ (e[1] = d[1] /\ e[2] <= d[2])
  BY <1>7 DEF FirstOf
<1>9. e[1] \in Files /\ e[2] \in DOMAIN Groups /\ e[1] \in Nat
  BY <1>1, Indices
<1>10. \A d \in Differing : d[1] = e[1] => e[2] <= d[2]
  BY <1>8, <1>9
<1> QED
  BY <1>8, <1>9, <1>10

\* A step of fs_sync writes such an entry.
LEMMA SectorWritten ==
    ASSUME write_sector
    PROVE  \E k \in Files : IsWritten(sectors', entries, sectors, k)
<1>1. FirstOf(Differing)[1] \in Files /\ FirstOf(Differing)[2] \in DOMAIN Groups
  BY FirstIs DEF write_sector
<1>2. PICK group \in FirstOf(Differing)[2] .. Len(Groups) :
         \E w \in Written(entries[FirstOf(Differing)[1]], sectors[FirstOf(Differing)[1]], group) :
            sectors' = [sectors EXCEPT ![FirstOf(Differing)[1]] = w]
  BY DEF write_sector
<1>3. group \in 1 .. 4
  BY <1>1, GroupsAre
<1> QED
  BY <1>1, <1>2, <1>3 DEF IsWritten

\* What has been promised is on the disk, and as long as the power is on it is in the table too,
\* in the same entries: so a sector that is written does not take it away, nor hides it. A disk
\* without a header has nothing to lose.
DurableInv ==
    /\ entries \in Tables /\ sectors \in Tables /\ todo \in Seq(Ops)
    /\ stable \subseteq Things(sectors)
    /\ power # "off" => stable \subseteq Lasting(entries, sectors)
    /\ ~ magic => stable = {}
    /\ power = "off" => todo = <<>> /\ ~ syncing

\* The steps of the calls that are not a fault or a start.
LEMMA DurableWorks ==
    ASSUME DurableInv, Works
    PROVE  DurableInv'
<1>0. power # "off"
  BY DEF DurableInv, Works, operate, write_sector, sync_end
<1>1. /\ entries \in Tables /\ sectors \in Tables /\ todo \in Seq(Ops)
      /\ stable \subseteq Lasting(entries, sectors) /\ (~ magic => stable = {})
  BY <1>0 DEF DurableInv
<1>2. <<>> \in Seq(Ops)
  OBVIOUS
<1>3. CASE operate /\ stable' = stable \cap Lasting(entries, entries')
  <2>1. Head(todo) \in Ops /\ Tail(todo) \in Seq(Ops)
    BY <1>1, <1>3 DEF operate
  <2>2. /\ entries' = Effect(entries, Head(todo)).entries
        /\ sectors' = sectors /\ magic' = magic
        /\ todo' \in {Tail(todo), <<>>}
        /\ power' # "off"
    BY <1>0, <1>3 DEF operate, End
  <2>3. entries' \in Tables /\ todo' \in Seq(Ops)
    BY <1>1, <1>2, <2>1, <2>2, EffectTyped
  <2>4. \A x \in stable' : x \in Lasting(entries', sectors)
    BY <1>1, <1>3, KeptThrough
  <2>5. stable' \subseteq Lasting(entries', sectors')
    BY <2>2, <2>4
  <2>6. Lasting(entries', sectors') \subseteq Things(sectors')
    BY KeptIs
  <2> QED
    BY <1>1, <1>3, <2>2, <2>3, <2>5, <2>6 DEF DurableInv
<1>4. CASE sync_end /\ stable' = Things(entries)
  <2>1. entries' = entries /\ sectors' = sectors /\ magic' = TRUE /\ todo' \in {todo, <<>>}
        /\ power' # "off"
    BY <1>0, <1>4 DEF sync_end, End
  <2>2. entries = sectors
    BY <1>1, <1>4, NothingDiffers DEF sync_end
  <2>3. Lasting(entries', sectors') = Things(sectors') /\ stable' = Things(sectors')
    BY <1>4, <2>1, <2>2, KeptIs
  <2> QED
    BY <1>1, <1>2, <2>1, <2>3 DEF DurableInv
<1>5. CASE write_sector /\ UNCHANGED stable

  <2>1. entries' = entries /\ todo' = todo /\ magic' = TRUE /\ power' = power
    BY <1>1, <1>5 DEF write_sector
  <2>2. PICK k \in Files : IsWritten(sectors', entries, sectors, k)
    BY <1>5, SectorWritten
  <2>3. sectors' \in Tables /\ \A x \in Lasting(entries, sectors) : x \in Lasting(entries, sectors')
    BY <1>1, <2>2, KeptWritten
  <2>4. stable' \subseteq Lasting(entries', sectors')
    BY <1>1, <1>5, <2>1, <2>3
  <2>5. Lasting(entries', sectors') \subseteq Things(sectors')
    BY KeptIs
  <2> QED
    BY <1>0, <1>1, <2>1, <2>3, <2>4, <2>5 DEF DurableInv
<1> QED
  BY <1>3, <1>4, <1>5 DEF Works

\* A fault or a start leaves the disk alone, and a start that finds a header loads the disk.
LEMMA DurableStarts ==
    ASSUME "read_error" \notin Events, DurableInv, Starts \/ Faults \/ Overruns
    PROVE  DurableInv'
<1>1. /\ entries \in Tables /\ sectors \in Tables /\ todo \in Seq(Ops)
      /\ stable \subseteq Things(sectors) /\ (~ magic => stable = {})
      /\ power = "off" => todo = <<>> /\ ~ syncing
  BY DEF DurableInv
<1>2. sectors' = sectors /\ magic' = magic /\ stable' = stable
  BY DEF Starts, Faults, Overruns, overrun, sys_shutdown, power_loss, Off, load, format, sync_fails
<1>3. [i \in Files |-> Blank] \in Tables
  BY BlankTree DEF Trees
<1>4. <<>> \in Seq(Ops)
  OBVIOUS
<1>5. CASE sys_shutdown \/ power_loss \/ overrun
  BY <1>1, <1>2, <1>3, <1>4, <1>5 DEF sys_shutdown, power_loss, overrun, Off, DurableInv
<1>6. CASE load
  <2>1. entries' = sectors /\ todo' = todo /\ power' = "on"
    BY <1>6 DEF load
  <2>2. Lasting(entries', sectors') = Things(sectors)
    BY <1>2, <2>1, KeptIs
  <2> QED
    BY <1>1, <1>2, <2>1, <2>2 DEF DurableInv
<1>7. CASE format
  <2>1. /\ entries' = [i \in Files |-> Blank] /\ todo' = Defaults /\ power' = "boot" /\ ~ magic
    BY <1>7 DEF format
  <2>2. stable' = {}
    BY <1>1, <1>2, <2>1
  <2> QED
    BY <1>1, <1>2, <1>3, <2>1, <2>2, DefaultOps DEF DurableInv
<1>8. CASE sync_fails
  <2>1. /\ entries' = entries /\ todo' \in {todo, <<>>}
        /\ power' # "off" /\ power # "off"
    BY <1>1, <1>8 DEF sync_fails, End
  <2>2. stable \subseteq Lasting(entries, sectors)
    BY <2>1 DEF DurableInv
  <2> QED
    BY <1>1, <1>2, <1>4, <2>1, <2>2 DEF DurableInv
<1> QED
  BY <1>5, <1>6, <1>7, <1>8 DEF Starts, Faults, Overruns

\* A call puts operations on the list.
LEMMA DurableCalls ==
    ASSUME DurableInv, Calls \/ \E src \in UserPaths, dst \in UserPaths : Moves(src, dst)
    PROVE  DurableInv'
<1>1. \A x \in Ops, y \in Ops, z \in Ops : <<x>> \in Seq(Ops) /\ <<x, y, z>> \in Seq(Ops)
  OBVIOUS
<1>2. ASSUME NEW ops \in Seq(Ops), Call(ops), stable' = stable PROVE DurableInv'
  BY <1>2 DEF Call, Idle, DurableInv
<1>3. ASSUME NEW p \in UserPaths, fs_mkdir(p) \/ fs_create(p) \/ fs_remove(p), stable' = stable
      PROVE  DurableInv'
  BY <1>1, <1>2, <1>3, UserOps DEF fs_mkdir, fs_create, fs_remove
<1>4. ASSUME NEW p \in UserPaths, NEW text \in Texts, fs_write(p, text) \/ fs_append(p, text),
             stable' = stable
      PROVE  DurableInv'
  BY <1>1, <1>2, <1>4, UserOps DEF fs_write, fs_append
<1>5. ASSUME NEW src \in UserPaths, NEW dst \in UserPaths, fs_copy(src, dst) \/ fs_move(src, dst),
             stable' = stable
      PROVE  DurableInv'
  BY <1>1, <1>2, <1>5, UserOps, SyncOp DEF fs_copy, fs_move
<1> QED
  BY <1>3, <1>4, <1>5 DEF Calls, Moves

\* The FS persistant of init_fs: what an fs_sync has written stays on the disk, and in memory
\* after the next start, until an operation changes it, however often the power goes or a write
\* fails, for any size of the table, paths and texts, as long as the disk can be read at a start.
THEOREM DurableCorrect ==
    ASSUME "read_error" \notin Events
    PROVE  DSpec => []Durable
<1>1. DInit => DurableInv
  <2>1. <<>> \in Seq(Ops) /\ [i \in Files |-> Blank] \in Tables
    BY BlankTree DEF Trees
  <2> QED
    BY <2>1 DEF DInit, Init, DurableInv
<1>2. DurableInv /\ [DNext]_dvars => DurableInv'
  <2>1. ASSUME DurableInv, UNCHANGED dvars PROVE DurableInv'
    BY <2>1 DEF dvars, vars, DurableInv
  <2>2. ASSUME DurableInv, DNext PROVE DurableInv'
    BY <2>2, DurableCalls, DurableWorks, DurableStarts DEF DNext
  <2> QED
    BY <2>1, <2>2
<1>3. DurableInv => Durable
  <2>1. Lasting(entries, sectors) \subseteq Things(entries)
    BY KeptIs
  <2> QED
    BY <2>1 DEF DurableInv, Durable
<1> QED
  BY <1>1, <1>2, <1>3, PTL DEF DSpec
(***************************************************************************)
(* Paths: which begins with which, and which lies below which.             *)
(***************************************************************************)
LEMMA PathIs ==
    ASSUME NEW p \in Paths
    PROVE  Len(p) \in Nat /\ p \in Seq(Strings) /\ (p # <<>> <=> Len(p) >= 1) /\ (p \in Named <=> p # <<>>)
<1>1. p \in Seq(Strings) /\ Len(p) \in Nat
  BY DEF Paths
<1>2. p # <<>> <=> Len(p) >= 1
  BY <1>1
<1> QED
  BY <1>1, <1>2 DEF Named

LEMMA BeginsIs ==
    ASSUME NEW p \in Paths, NEW q \in Paths
    PROVE  Begins(p, q) <=> Len(q) <= Len(p) /\ \A i \in 1 .. Len(q) : p[i] = q[i]
<1>1. /\ p \in Seq(Strings) /\ Len(p) \in Nat /\ q \in Seq(Strings) /\ Len(q) \in Nat
  BY PathIs
<1>2. ASSUME Len(q) <= Len(p)
      PROVE  SubSeq(p, 1, Len(q)) = q <=> \A i \in 1 .. Len(q) : p[i] = q[i]
  <2> DEFINE s == SubSeq(p, 1, Len(q))
  <2>1. s \in Seq(Strings) /\ Len(s) = Len(q) /\ \A i \in 1 .. Len(q) : s[i] = p[i]
    BY <1>1, <1>2
  <2> HIDE DEF s
  <2>2. (\A i \in 1 .. Len(q) : s[i] = q[i]) => s = q
    BY <1>1, <2>1
  <2> QED
    BY <2>1, <2>2 DEF s
<1> QED
  BY <1>1, <1>2 DEF Begins

\* A component that is not empty.
Solid(x) == x # ""

\* A path is p, or fs_parent_path leads from it to p.
Under(p, q) == p = q \/ IsBelow(p, q)

LEMMA BelowIs ==
    ASSUME NEW p, NEW q
    PROVE  IsBelow(p, q) <=> Len(p) > Len(q) /\ Begins(p, q) /\ Solid(p[Len(q) + 1])
  BY DEF IsBelow, Solid

\* Beginning with is an order; so is lying below.
LEMMA BeginsOrder ==
    ASSUME NEW p \in Paths, NEW q \in Paths, NEW r \in Paths
    PROVE  /\ Begins(p, p)
           /\ Begins(p, q) /\ Begins(q, r) => Begins(p, r)
           /\ Begins(p, q) /\ Begins(p, r) => Begins(q, r) \/ (Begins(r, q) /\ Len(q) < Len(r))
           /\ Begins(p, q) /\ Len(p) = Len(q) => p = q
<1>1. /\ Begins(p, q) <=> Len(q) <= Len(p) /\ \A i \in 1 .. Len(q) : p[i] = q[i]
      /\ Begins(p, p) <=> Len(p) <= Len(p) /\ \A i \in 1 .. Len(p) : p[i] = p[i]
      /\ Begins(q, r) <=> Len(r) <= Len(q) /\ \A i \in 1 .. Len(r) : q[i] = r[i]
      /\ Begins(p, r) <=> Len(r) <= Len(p) /\ \A i \in 1 .. Len(r) : p[i] = r[i]
      /\ Begins(r, q) <=> Len(q) <= Len(r) /\ \A i \in 1 .. Len(q) : r[i] = q[i]
  BY BeginsIs
<1>2. /\ Len(p) \in Nat /\ Len(q) \in Nat /\ Len(r) \in Nat
      /\ p \in Seq(Strings) /\ q \in Seq(Strings)
  BY PathIs
<1>3. Begins(p, q) /\ Begins(q, r) => Begins(p, r)
  <2> SUFFICES ASSUME Begins(p, q), Begins(q, r) PROVE Begins(p, r)
    OBVIOUS
  <2>1. \A i \in 1 .. Len(r) : i \in 1 .. Len(q)
    BY <1>1, <1>2
  <2> QED
    BY <1>1, <1>2, <2>1
<1>4. Begins(p, q) /\ Begins(p, r) => Begins(q, r) \/ (Begins(r, q) /\ Len(q) < Len(r))
  <2> SUFFICES ASSUME Begins(p, q), Begins(p, r)
               PROVE  Begins(q, r) \/ (Begins(r, q) /\ Len(q) < Len(r))
    OBVIOUS
  <2>1. CASE Len(r) <= Len(q)
    <3>1. \A i \in 1 .. Len(r) : i \in 1 .. Len(q)
      BY <1>2, <2>1
    <3> QED
      BY <1>1, <2>1, <3>1
  <2>2. CASE Len(q) < Len(r)
    <3>1. \A i \in 1 .. Len(q) : i \in 1 .. Len(r)
      BY <1>2, <2>2
    <3> QED
      BY <1>1, <1>2, <2>2, <3>1
  <2> QED
    BY <1>2, <2>1, <2>2
<1>5. Begins(p, q) /\ Len(p) = Len(q) => p = q
  BY <1>1, <1>2
<1>6. Begins(p, p)
  BY <1>1, <1>2
<1> QED
  BY <1>3, <1>4, <1>5, <1>6

LEMMA BelowOrder ==
    ASSUME NEW p \in Paths, NEW q \in Paths, NEW r \in Paths
    PROVE  /\ Under(p, q) => Begins(p, q)
           /\ IsBelow(p, q) => Len(p) > Len(q)
           /\ Under(p, q) /\ Under(q, r) => Under(p, r)
           /\ IsBelow(p, q) /\ Under(q, r) => IsBelow(p, r)
           /\ Under(p, q) /\ IsBelow(q, r) => IsBelow(p, r)
           /\ ~ (Under(p, q) /\ IsBelow(q, p))
           /\ Under(p, q) /\ Under(p, r) => Under(q, r) \/ IsBelow(r, q)
<1>1. /\ Len(p) \in Nat /\ Len(q) \in Nat /\ Len(r) \in Nat
  BY PathIs
<1>2. /\ Begins(p, p)
      /\ Begins(p, q) /\ Begins(q, r) => Begins(p, r)
      /\ Begins(p, q) /\ Begins(p, r) => Begins(q, r) \/ (Begins(r, q) /\ Len(q) < Len(r))
      /\ Begins(q, r) /\ Len(q) = Len(r) => q = r
      /\ Begins(p, q) /\ Len(p) = Len(q) => p = q
  BY BeginsOrder
<1>3. Begins(p, q) => Len(q) <= Len(p) /\ \A i \in 1 .. Len(q) : p[i] = q[i]
  BY BeginsIs
<1>4. Begins(p, r) => Len(r) <= Len(p) /\ \A i \in 1 .. Len(r) : p[i] = r[i]
  BY BeginsIs
<1>5. Begins(q, r) => Len(r) <= Len(q)
  BY BeginsIs
<1>6. IsBelow(p, q) <=> Len(p) > Len(q) /\ Begins(p, q) /\ Solid(p[Len(q) + 1])
  BY BelowIs
<1>7. IsBelow(q, r) <=> Len(q) > Len(r) /\ Begins(q, r) /\ Solid(q[Len(r) + 1])
  BY BelowIs
<1>8. IsBelow(p, r) <=> Len(p) > Len(r) /\ Begins(p, r) /\ Solid(p[Len(r) + 1])
  BY BelowIs
<1>9. IsBelow(r, q) <=> Len(r) > Len(q) /\ Begins(r, q) /\ Solid(r[Len(q) + 1])
  BY BelowIs
<1>10. IsBelow(q, p) => Len(q) > Len(p)
  BY BelowIs
<1>11. IsBelow(p, q) /\ IsBelow(q, r) => IsBelow(p, r)
  <2> SUFFICES ASSUME IsBelow(p, q), IsBelow(q, r) PROVE IsBelow(p, r)
    OBVIOUS
  <2>1. Len(r) + 1 \in 1 .. Len(q) /\ Len(p) > Len(r)
    BY <1>1, <1>6, <1>7
  <2>2. p[Len(r) + 1] = q[Len(r) + 1]
    BY <1>3, <1>6, <2>1
  <2> QED
    BY <1>2, <1>6, <1>7, <1>8, <2>1, <2>2
<1>12. IsBelow(p, q) /\ IsBelow(p, r) => Under(q, r) \/ IsBelow(r, q)
  <2> SUFFICES ASSUME IsBelow(p, q), IsBelow(p, r) PROVE Under(q, r) \/ IsBelow(r, q)
    OBVIOUS
  <2>1. CASE Begins(q, r) /\ Len(q) = Len(r)
    BY <1>2, <2>1 DEF Under
  <2>2. CASE Begins(q, r) /\ Len(q) > Len(r)
    <3>1. Len(r) + 1 \in 1 .. Len(q)
      BY <1>1, <2>2
    <3>2. Solid(q[Len(r) + 1])
      BY <1>3, <1>6, <1>8, <3>1
    <3> QED
      BY <1>7, <2>2, <3>2 DEF Under
  <2>3. CASE Begins(r, q) /\ Len(q) < Len(r)
    <3>1. Len(q) + 1 \in 1 .. Len(r)
      BY <1>1, <2>3
    <3>2. Solid(r[Len(q) + 1])
      BY <1>4, <1>6, <1>8, <3>1
    <3> QED
      BY <1>1, <1>9, <2>3, <3>2
  <2> QED
    BY <1>1, <1>2, <1>5, <1>6, <1>8, <2>1, <2>2, <2>3
<1>13. Under(p, q) => Begins(p, q)
  BY <1>2, <1>6 DEF Under
<1>14. Under(p, q) => Len(q) <= Len(p)
  BY <1>3, <1>13
<1> QED
  BY <1>1, <1>6, <1>10, <1>11, <1>12, <1>13, <1>14 DEF Under

(***************************************************************************)
(* Paths whose first component is not empty: what is built from a clean    *)
(* path and any names.                                                     *)
(***************************************************************************)
Headed == {p \in Named : Solid(p[1])}

LEMMA CutIs ==
    ASSUME NEW S, NEW q \in Seq(S), NEW n \in 0 .. Len(q)
    PROVE  /\ SubSeq(q, 1, n) \in Seq(S) /\ Len(SubSeq(q, 1, n)) = n
           /\ \A i \in 1 .. n : SubSeq(q, 1, n)[i] = q[i] /\ q[i] \in S
           /\ n = Len(q) => SubSeq(q, 1, n) = q
  OBVIOUS

LEMMA RootIs ==
    /\ Root \in Headed /\ Root \in Named /\ Root \in Paths /\ Len(Root) = 1
    /\ \A q \in Named : Under(Root, q) => q = Root
<1>1. "/" \in Strings
  BY LiteralAssumption
<1>2. "/" # ""
  OBVIOUS
<1>3. ASSUME NEW S, NEW x \in S
      PROVE  <<x>> \in Seq(S) /\ Len(<<x>>) = 1 /\ <<x>> # <<>> /\ <<x>>[1] = x
  OBVIOUS
<1>4. Root \in Seq(Strings) /\ Len(Root) = 1 /\ Root # <<>> /\ Root[1] = "/"
  BY <1>1, <1>3 DEF Root
<1> HIDE DEF Root
<1>5. Root \in Named /\ Root \in Paths
  BY <1>4 DEF Named, Paths
<1>6. ASSUME NEW q \in Named, Under(Root, q) PROVE q = Root
  <2>1. q \in Paths /\ Len(q) >= 1 /\ Len(q) \in Nat
    BY PathIs DEF Named
  <2>2. IsBelow(Root, q) => Len(Root) > Len(q)
    BY BelowIs
  <2> QED
    BY <1>4, <1>6, <2>1, <2>2 DEF Under
<1> QED
  BY <1>2, <1>4, <1>5, <1>6 DEF Headed, Solid

LEMMA CleanHeaded == ASSUME NEW p \in Clean PROVE p \in Headed
<1>1. p \in Named /\ p \in Seq(Names) /\ Len(p) \in Nat /\ Len(p) >= 1
  BY CleanPaths
<1>2. p[1] \in Names
  BY <1>1
<1> QED
  BY <1>1, <1>2 DEF Headed, Names, Solid

LEMMA HeadedIs ==
    ASSUME NEW p \in Headed
    PROVE  p \in Named /\ p \in Paths /\ Len(p) \in Nat /\ Len(p) >= 1 /\ p \in Seq(Strings) /\ Solid(p[1])
<1>1. p \in Named /\ Solid(p[1]) /\ p \in Paths /\ p # <<>>
  BY DEF Headed, Named
<1> QED
  BY <1>1, PathIs

\* Where fs_parent_path leads.
LEMMA ParentPath ==
    ASSUME NEW p \in Headed
    PROVE  /\ fs_parent_path(p) \in Headed
           /\ fs_parent_path(p) = Root \/ IsBelow(p, fs_parent_path(p))
           /\ \A q \in Named : IsBelow(p, q) => /\ IsBelow(p, fs_parent_path(p))
                                                /\ Under(fs_parent_path(p), q)
<1> DEFINE f == fs_parent_path(p)
<1>1. p \in Named /\ p \in Paths /\ Len(p) \in Nat /\ Len(p) >= 1 /\ p \in Seq(Strings) /\ Solid(p[1])
  BY HeadedIs
<1>2. PICK i \in 1 .. Len(p) : /\ Trim(p) = SubSeq(p, 1, i) /\ Len(Trim(p)) = i
                               /\ i = 1 \/ Solid(p[i])
                               /\ \A j \in i + 1 .. Len(p) : ~ Solid(p[j])
  BY <1>1, TrimIs DEF Solid
<1>3. CASE i = 1
  <2>1. f = Root
    BY <1>2, <1>3 DEF fs_parent_path
  <2>2. ASSUME NEW q \in Named, IsBelow(p, q) PROVE FALSE
    <3>1. Len(q) \in Nat /\ Len(q) >= 1
      BY PathIs DEF Named
    <3>2. Len(p) > Len(q) /\ Solid(p[Len(q) + 1])
      BY <2>2, BelowIs
    <3>3. Len(q) + 1 \in i + 1 .. Len(p)
      BY <1>1, <1>3, <3>1, <3>2
    <3> QED
      BY <1>2, <3>2, <3>3
  <2> QED
    BY <2>1, <2>2, RootIs
<1>4. CASE i # 1
  <2> DEFINE k == i - 1
  <2>1. k \in Nat /\ k >= 1 /\ k \in 0 .. Len(p) /\ i = k + 1 /\ k < Len(p) /\ k \in 0 .. i
    BY <1>1, <1>4
  <2>2. f = SubSeq(Trim(p), 1, k)
    BY <1>2, <1>4 DEF fs_parent_path, Front
  <2> HIDE DEF k
  <2>3. /\ Trim(p) \in Seq(Strings) /\ Len(Trim(p)) = i
        /\ \A j \in 1 .. i : Trim(p)[j] = p[j]
    <3>1. i \in 0 .. Len(p)
      BY <1>1
    <3> QED
      BY <1>1, <1>2, <3>1, CutIs
  <2>4. /\ f \in Seq(Strings) /\ Len(f) = k /\ \A j \in 1 .. k : f[j] = p[j]
    <3>1. k \in 0 .. Len(Trim(p)) /\ \A j \in 1 .. k : j \in 1 .. i
      BY <2>1, <2>3
    <3>2. /\ f \in Seq(Strings) /\ Len(f) = k /\ \A j \in 1 .. k : f[j] = Trim(p)[j]
      BY <2>2, <2>3, <3>1, CutIs
    <3> QED
      BY <2>3, <3>1, <3>2
  <2> HIDE DEF f
  <2>5. f \in Paths /\ f # <<>> /\ Solid(f[1])
    BY <1>1, <2>1, <2>4 DEF Paths
  <2>6. f \in Headed
    BY <2>5 DEF Headed, Named
  <2>7. Begins(p, f)
    BY <1>1, <2>1, <2>4, <2>5, BeginsIs
  <2>8. Solid(p[k + 1])
    BY <1>2, <1>4, <2>1
  <2>9. IsBelow(p, f)
    BY <1>1, <2>1, <2>4, <2>7, <2>8, BelowIs
  <2>10. ASSUME NEW q \in Named, IsBelow(p, q) PROVE Under(f, q)
    <3>1. q \in Paths /\ Len(q) \in Nat /\ Len(q) >= 1
      BY PathIs DEF Named
    <3>2. Len(p) > Len(q) /\ Solid(p[Len(q) + 1]) /\ Begins(p, q)
      BY <2>10, BelowIs
    <3>3. Len(q) <= k
      <4>1. ~ (Len(q) + 1 \in i + 1 .. Len(p))
        BY <1>2, <3>2
      <4> QED
        BY <1>1, <2>1, <3>1, <3>2, <4>1
    <3>4. ~ IsBelow(q, f)
      <4>1. IsBelow(q, f) => Len(q) > Len(f)
        BY BelowIs
      <4> QED
        BY <2>1, <2>4, <3>1, <3>3, <4>1
    <3> QED
      BY <1>1, <2>5, <2>9, <2>10, <3>1, <3>4, BelowOrder DEF Under
  <2> QED
    BY <2>6, <2>9, <2>10 DEF f
<1> QED
  BY <1>3, <1>4

\* A child's path begins with the path it is built from.
LEMMA ChildHeaded ==
    ASSUME NEW p \in Headed, NEW name \in Named
    PROVE  /\ build_child_path(p, name) \in Headed
           /\ Begins(build_child_path(p, name), p)
<1> DEFINE c == build_child_path(p, name)
<1>1. p \in Named /\ p \in Paths /\ Len(p) \in Nat /\ Len(p) >= 1 /\ p \in Seq(Strings) /\ Solid(p[1])
  BY HeadedIs
<1>2. c \in Named
  BY <1>1, ChildNamed
<1>3. CASE c = p
  BY <1>1, <1>3, BeginsOrder
<1>4. CASE c # p
  <2> DEFINE n == Clipped(name, RoomBehind(p))
  <2>1. RoomBehind(p) \in Nat /\ c = p \o n
    <3>1. RoomBehind(p) \in Int
      <4>1. Width(p, Len(p)) \in Nat
        BY <1>1, Widths
      <4> QED
        BY <4>1, PathNamesAssumption DEF RoomBehind
    <3>2. ~ (RoomBehind(p) < 0)
      BY <1>4 DEF build_child_path
    <3> QED
      BY <3>1, <3>2 DEF build_child_path
  <2>2. n \in Seq(Strings)
    BY <2>1, ClippedNamed DEF Named, Paths
  <2> HIDE DEF c, n
  <2>3. Len(c) >= Len(p) /\ \A i \in 1 .. Len(p) : c[i] = p[i]
    BY <1>1, <2>1, <2>2
  <2>4. c \in Paths
    BY <1>2 DEF Named
  <2>5. Begins(c, p) /\ Solid(c[1])
    BY <1>1, <2>3, <2>4, BeginsIs
  <2> QED
    BY <1>2, <2>5 DEF c, Headed
<1> QED
  BY <1>3, <1>4

(***************************************************************************)
(* Tables whose paths are headed.                                          *)
(***************************************************************************)
\* An entry as alloc makes it.
Proper(it) == /\ it.path \in Headed /\ it.path # Root
              /\ it.parent = fs_parent_path(it.path) /\ it.name = fs_path_name(it.path)

Sound == {t \in Trees : \A i \in Files : t[i].used => t[i].path \in Headed /\ t[i].path # Root}

LEMMA EntryIs ==
    ASSUME NEW t \in Sound, NEW i \in Files, t[i].used
    PROVE  /\ t[i] \in Entries /\ Proper(t[i])
           /\ t[i].path \in Headed /\ t[i].path # Root
           /\ t[i].path \in Named /\ t[i].path \in Paths /\ t[i].name \in Named
           /\ t[i].parent \in Headed /\ t[i].parent \in Paths
           /\ t[i].parent = Root \/ Exists(t, t[i].parent)
           /\ Exists(t, t[i].path) /\ find_file(t, t[i].path) = i
<1>1. t \in Tables /\ Tree(t) /\ t[i].path \in Headed /\ t[i].path # Root
  BY DEF Sound, Trees
<1>2. t[i] \in Entries
  BY <1>1 DEF Tables
<1>3. /\ find_file(t, t[i].path) = i
      /\ t[i].parent = fs_parent_path(t[i].path)
      /\ t[i].name = fs_path_name(t[i].path)
      /\ t[i].parent = Root \/ Exists(t, t[i].parent)
  BY <1>1 DEF Tree
<1>4. Exists(t, t[i].path)
  BY Found
<1>5. t[i].path \in Named /\ t[i].path \in Paths
  BY <1>1, HeadedIs
<1>6. t[i].parent \in Headed /\ t[i].parent \in Paths
  BY <1>1, <1>3, ParentPath, HeadedIs
<1>7. t[i].name \in Named
  BY <1>2 DEF Entries
<1> QED
  BY <1>1, <1>2, <1>3, <1>4, <1>5, <1>6, <1>7 DEF Proper

\* A child is below its parent, and the parent of what is below q is under q, and there.
LEMMA ParentIs ==
    ASSUME NEW t \in Sound, NEW i \in Files, t[i].used, NEW q \in Named, q # Root
    PROVE  /\ t[i].parent = q => IsBelow(t[i].path, q)
           /\ IsBelow(t[i].path, q) =>
                 \E k \in Files : /\ t[k].used /\ t[k].path = t[i].parent
                                  /\ Under(t[k].path, q) /\ IsBelow(t[i].path, t[k].path)
                                  /\ Len(t[k].path) < Len(t[i].path)
<1>1. /\ t[i].path \in Headed /\ t[i].parent = fs_parent_path(t[i].path)
      /\ t[i].parent = Root \/ Exists(t, t[i].parent)
      /\ t[i].path \in Paths
  BY EntryIs DEF Proper
<1>2. /\ fs_parent_path(t[i].path) = Root \/ IsBelow(t[i].path, fs_parent_path(t[i].path))
      /\ IsBelow(t[i].path, q) => /\ IsBelow(t[i].path, fs_parent_path(t[i].path))
                                  /\ Under(fs_parent_path(t[i].path), q)
  BY <1>1, ParentPath
<1>3. ASSUME IsBelow(t[i].path, q)
      PROVE  \E k \in Files : /\ t[k].used /\ t[k].path = t[i].parent
                              /\ Under(t[k].path, q) /\ IsBelow(t[i].path, t[k].path)
                              /\ Len(t[k].path) < Len(t[i].path)
  <2>1. t[i].parent # Root
    BY <1>1, <1>2, <1>3, RootIs
  <2>2. PICK k \in Files : t[k].used /\ t[k].path = t[i].parent
    BY <1>1, <2>1, Found
  <2>3. Under(t[k].path, q) /\ IsBelow(t[i].path, t[k].path)
    BY <1>1, <1>2, <1>3, <2>2
  <2>4. t[k].path \in Paths
    BY <2>2, EntryIs
  <2>5. Len(t[k].path) < Len(t[i].path)
    <3>1. Len(t[i].path) > Len(t[k].path)
      BY <1>1, <2>3, <2>4, BelowOrder
    <3>2. Len(t[k].path) \in Nat /\ Len(t[i].path) \in Nat
      BY <1>1, <2>4, PathIs
    <3> QED
      BY <3>1, <3>2
  <2> QED
    BY <2>2, <2>3, <2>5
<1> QED
  BY <1>1, <1>2, <1>3

\* What holds of the entry of q, and of the children of those that it holds of, holds of all
\* that is under q.
LEMMA Upward ==
    ASSUME NEW t \in Sound, NEW q \in Named, q # Root, NEW S,
           \A j \in Files : t[j].used /\ t[j].path = q => j \in S,
           \A j \in Files, k \in Files :
              /\ t[j].used /\ t[k].used /\ t[j].parent = t[k].path /\ k \in S
              /\ Under(t[k].path, q) /\ IsBelow(t[j].path, q)
              => j \in S
    PROVE  \A j \in Files : t[j].used /\ Under(t[j].path, q) => j \in S
<1> SUFFICES ASSUME NEW i \in Files, t[i].used, Under(t[i].path, q) PROVE i \in S
  OBVIOUS
<1> DEFINE N == Len(t[i].path)
           Kept == {n \in 0 .. N : \A j \in Files :
                       t[j].used /\ Len(t[j].path) <= n /\ Under(t[j].path, q) => j \in S}
<1>1. \A j \in Files : t[j].used => Len(t[j].path) \in Nat /\ Len(t[j].path) >= 1
  BY EntryIs, HeadedIs
<1>2. N \in Nat
  BY <1>1
<1>3. 0 \in Kept
  BY <1>1, <1>2
<1>4. ASSUME NEW n \in 1 .. N, n - 1 \in Kept PROVE n \in Kept
  <2>1. ASSUME NEW j \in Files, t[j].used, Len(t[j].path) <= n, Under(t[j].path, q)
        PROVE  j \in S
    <3>1. CASE t[j].path = q
      BY <2>1, <3>1
    <3>2. CASE IsBelow(t[j].path, q)
      <4>1. PICK k \in Files : /\ t[k].used /\ t[k].path = t[j].parent
                               /\ Under(t[k].path, q)
                               /\ Len(t[k].path) < Len(t[j].path)
        BY <2>1, <3>2, ParentIs
      <4>2. Len(t[k].path) <= n - 1
        BY <1>1, <2>1, <4>1
      <4>3. k \in S
        BY <1>4, <4>1, <4>2
      <4> QED
        BY <2>1, <3>2, <4>1, <4>3
    <3> QED
      BY <2>1, <3>1, <3>2 DEF Under
  <2> QED
    BY <1>2, <2>1
<1> HIDE DEF Kept
<1>5. 0 .. N \subseteq Kept
  BY <1>2, <1>3, <1>4, UpTo
<1>6. N \in 0 .. N /\ Len(t[i].path) <= N
  BY <1>2
<1>7. N \in Kept
  BY <1>5, <1>6
<1> HIDE DEF N
<1> QED
  BY <1>6, <1>7 DEF Kept

\* What an entry lies below is there.
LEMMA Ancestors ==
    ASSUME NEW t \in Sound, NEW p, Exists(t, p), NEW q \in Named, q # Root, Under(p, q)
    PROVE  Exists(t, q)
<1> DEFINE S == {j \in Files : Exists(t, q)}
<1>1. PICK i \in Files : t[i].used /\ t[i].path = p
  BY Found
<1>2. \A j \in Files : t[j].used /\ t[j].path = q => j \in S
  BY EntryIs
<1>3. \A k \in S : \A j \in Files : j \in S
  OBVIOUS
<1> HIDE DEF S
<1>4. i \in S
  BY <1>1, <1>2, <1>3, Upward
<1> QED
  BY <1>4 DEF S

\* What lies below an entry is under one of its children.
LEMMA ChildToward ==
    ASSUME NEW t \in Sound, NEW p, Exists(t, p), NEW q \in Named, q # Root, IsBelow(p, q)
    PROVE  \E k \in Files : t[k].used /\ t[k].parent = q /\ Under(p, t[k].path)
<1> DEFINE Led(x) == \E k \in Files : t[k].used /\ t[k].parent = q /\ Under(x, t[k].path)
           S == {j \in Files : t[j].path = q \/ Led(t[j].path)}
<1>1. PICK i \in Files : t[i].used /\ t[i].path = p
  BY Found
<1>2. \A j \in Files : t[j].used /\ t[j].path = q => j \in S
  OBVIOUS
<1>3. ASSUME NEW j \in Files, NEW k \in Files,
             t[j].used, t[k].used, t[j].parent = t[k].path, k \in S
      PROVE  j \in S
  <2>1. CASE t[k].path = q
    BY <1>3, <2>1 DEF Under
  <2>2. ASSUME NEW c \in Files, t[c].used, t[c].parent = q, Under(t[k].path, t[c].path)
        PROVE  j \in S
    <3>1. /\ t[j].path \in Paths /\ t[k].path \in Paths /\ t[c].path \in Paths
          /\ t[k].path \in Named /\ t[k].path # Root
      BY <1>3, <2>2, EntryIs
    <3>2. IsBelow(t[j].path, t[k].path)
      BY <1>3, <3>1, ParentIs
    <3>3. Under(t[j].path, t[c].path)
      BY <2>2, <3>1, <3>2, BelowOrder DEF Under
    <3> QED
      BY <2>2, <3>3
  <2> QED
    BY <1>3, <2>1, <2>2
<1> HIDE DEF S
<1>4. i \in S
  BY <1>1, <1>2, <1>3, Upward DEF Under
<1>5. p # q
  <2>1. p \in Paths /\ q \in Paths
    BY <1>1, EntryIs DEF Named
  <2> QED
    BY <2>1, BelowOrder DEF Under
<1> QED
  BY <1>1, <1>4, <1>5 DEF S

\* A family is what is under its first entry.
LEMMA FamilyIs ==
    ASSUME NEW t \in Sound, NEW i \in Files, t[i].used
    PROVE  \A j \in Files : j \in Family(t, i) <=> t[j].used /\ Under(t[j].path, t[i].path)
<1> DEFINE N == FS_MAX_FILES
           K == Kin(t, i)
           p == t[i].path
           Kept == {n \in 0 .. N : \A j \in K[n] : j \in Files /\ t[j].used /\ Under(t[j].path, p)}
<1>1. t \in Trees /\ N \in Nat /\ N \in 0 .. N
  BY Indices DEF Sound
<1>2. K[0] = {i} /\ \A n \in 1 .. N : K[n] = Children(t, i, K[n - 1])
  BY <1>1, KinSolved
<1> HIDE DEF N, K
<1>3. p \in Named /\ p \in Paths /\ p # Root
  BY EntryIs
<1>4. 0 \in Kept
  BY <1>1, <1>2 DEF Under
<1>5. ASSUME NEW n \in 1 .. N, n - 1 \in Kept PROVE n \in Kept
  <2>1. ASSUME NEW j \in K[n] PROVE j \in Files /\ t[j].used /\ Under(t[j].path, p)
    <3>1. j = i \/ (j \in Files /\ t[j].used /\ \E k \in K[n - 1] : t[j].parent = t[k].path)
      BY <1>2 DEF Children
    <3>2. CASE j = i
      BY <3>2 DEF Under
    <3>3. ASSUME j \in Files, t[j].used, NEW k \in K[n - 1], t[j].parent = t[k].path
          PROVE  Under(t[j].path, p)
      <4>1. k \in Files /\ t[k].used /\ Under(t[k].path, p)
        BY <1>5
      <4>2. t[k].path \in Named /\ t[k].path # Root /\ t[k].path \in Paths
        BY <4>1, EntryIs
      <4>3. IsBelow(t[j].path, t[k].path) /\ t[j].path \in Paths
        BY <3>3, <4>2, ParentIs, EntryIs
      <4> QED
        BY <1>3, <4>1, <4>2, <4>3, BelowOrder DEF Under
    <3> QED
      BY <3>1, <3>2, <3>3
  <2> HIDE DEF p
  <2> QED
    BY <1>1, <2>1
<1> HIDE DEF Kept
<1>6. 0 .. N \subseteq Kept
  BY <1>1, <1>4, <1>5, UpTo
<1>7. Family(t, i) = K[N]
  BY DEF Family, K, N
<1>8. ASSUME NEW j \in Family(t, i) PROVE t[j].used /\ Under(t[j].path, p)
  BY <1>1, <1>6, <1>7 DEF Kept
<1>9. /\ i \in Family(t, i)
      /\ \A j \in Files, k \in Family(t, i) :
            t[j].used /\ t[j].parent = t[k].path => j \in Family(t, i)
  BY <1>1, FamilyClosed
<1>10. ASSUME NEW j \in Files, t[j].used, Under(t[j].path, p) PROVE j \in Family(t, i)
  <2>1. \A k \in Files : t[k].used /\ t[k].path = p => k \in Family(t, i)
    BY <1>1, <1>9, Alone
  <2> HIDE DEF p
  <2> QED
    BY <1>3, <1>9, <1>10, <2>1, Upward
<1> QED
  BY <1>8, <1>10

(***************************************************************************)
(* What a copy adds to a table, whether it is a tree or not.               *)
(***************************************************************************)
Fresh(t, u) == {x \in Files : u[x].used /\ ~ t[x].used}

\* Entry f of u is new, and empty.
Adds(t, u, f, p, dir) ==
    /\ ~ t[f].used /\ u[f].used /\ u[f].path = p /\ u[f].is_dir = dir
    /\ Bytes(u[f]) = <<>>
    /\ \A i \in Files \ {f} : u[i] = t[i]

\* u has all that t has, and what is new has a path of its own.
Widens(t, u) ==
    /\ \A i \in Files : t[i].used => u[i] = t[i]
    /\ \A i \in Fresh(t, u) : /\ Proper(u[i])
                              /\ \A j \in Files : u[j].used /\ u[j].path = u[i].path => j = i

LEMMA WidensSelf == ASSUME NEW t PROVE Widens(t, t) /\ Fresh(t, t) = {}
  BY DEF Widens, Fresh

LEMMA WidensTwice ==
    ASSUME NEW t, NEW u, NEW v, Widens(t, u), Widens(u, v)
    PROVE  Widens(t, v) /\ Fresh(t, u) \subseteq Fresh(t, v)
<1>1. \A i \in Files : (t[i].used => u[i] = t[i]) /\ (u[i].used => v[i] = u[i])
  BY DEF Widens
<1>2. ASSUME NEW i \in Fresh(t, v)
      PROVE  Proper(v[i]) /\ \A j \in Files : v[j].used /\ v[j].path = v[i].path => j = i
  <2>1. i \in Files /\ v[i].used /\ ~ t[i].used
    BY <1>2 DEF Fresh
  <2>2. CASE u[i].used
    <3>1. v[i] = u[i] /\ i \in Fresh(t, u)
      BY <1>1, <2>1, <2>2 DEF Fresh
    <3>2. Proper(u[i]) /\ \A j \in Files : u[j].used /\ u[j].path = u[i].path => j = i
      BY <3>1 DEF Widens
    <3>3. ASSUME NEW j \in Files, v[j].used, v[j].path = v[i].path PROVE j = i
      <4>1. CASE u[j].used
        BY <1>1, <3>1, <3>2, <3>3, <4>1
      <4>2. CASE ~ u[j].used
        <5>1. j \in Fresh(u, v)
          BY <3>3, <4>2 DEF Fresh
        <5> QED
          BY <2>1, <3>3, <5>1 DEF Widens
      <4> QED
        BY <4>1, <4>2
    <3> QED
      BY <3>1, <3>2, <3>3
  <2>3. CASE ~ u[i].used
    <3>1. i \in Fresh(u, v)
      BY <2>1, <2>3 DEF Fresh
    <3> QED
      BY <3>1 DEF Widens
  <2> QED
    BY <2>2, <2>3
<1>3. Fresh(t, u) \subseteq Fresh(t, v)
  BY <1>1 DEF Fresh
<1> QED
  BY <1>1, <1>2, <1>3 DEF Widens

\* What was found by a path is found there still.
LEMMA WidensFinds ==
    ASSUME NEW t, NEW u, Widens(t, u), NEW p, Exists(t, p)
    PROVE  find_file(u, p) = find_file(t, p) /\ Exists(u, p)
<1>1. PICK i \in Files : t[i].used /\ t[i].path = p
  BY Found
<1>2. u[i].used /\ u[i].path = p
  BY <1>1 DEF Widens
<1>3. ASSUME NEW j \in Files PROVE u[j].used /\ u[j].path = p <=> t[j].used /\ t[j].path = p
  <2>1. CASE t[j].used
    BY <2>1 DEF Widens
  <2>2. CASE ~ t[j].used /\ u[j].used /\ u[j].path = p
    <3>1. j \in Fresh(t, u)
      BY <2>2 DEF Fresh
    <3>2. i = j
      BY <1>2, <2>2, <3>1 DEF Widens
    <3> QED
      BY <1>1, <2>2, <3>2
  <2> QED
    BY <2>1, <2>2
<1>4. Having(u, p) = Having(t, p)
  BY <1>3 DEF Having
<1> QED
  BY <1>4 DEF find_file, Exists

(***************************************************************************)
(* What alloc makes, and induction over a copy.                            *)
(***************************************************************************)
LEMMA BytesFit ==
    ASSUME NEW t \in Tables, NEW i \in Files
    PROVE  Bytes(t[i]) \in Data /\ Len(Bytes(t[i])) < FS_MAX_DATA
<1>1. t[i] \in Entries
  BY DEF Tables
<1>2. t[i].size \in 0 .. FS_MAX_DATA - 1
  BY <1>1 DEF Entries
<1>3. Bytes(t[i]) \in Data /\ Len(Bytes(t[i])) = t[i].size
  BY <1>1, TextLengths
<1>4. Len(Bytes(t[i])) < FS_MAX_DATA
  BY <1>2, <1>3, Indices
<1> QED
  BY <1>3, <1>4

\* alloc in any table: the entry that it makes.
LEMMA AllocAdds ==
    ASSUME NEW t \in Tables, NEW p \in Named, NEW dir \in BOOLEAN
    PROVE  \/ alloc(t, p, dir) = [entries |-> t, then |-> "fail"]
           \/ /\ alloc(t, p, dir) = [entries |-> New(t, p, dir), then |-> "sync"]
              /\ New(t, p, dir) \in Tables
              /\ CanAlloc(t, p)
              /\ \E f \in Files : /\ Adds(t, New(t, p, dir), f, p, dir)
                                  /\ New(t, p, dir)[f].parent = fs_parent_path(p)
                                  /\ New(t, p, dir)[f].name = fs_path_name(p)
<1>1. CASE ~ CanAlloc(t, p)
  BY <1>1 DEF alloc, Fail
<1>2. CASE CanAlloc(t, p)
  <2> DEFINE f == Least(Free(t))
             it == [used |-> TRUE, is_dir |-> dir, path |-> p, parent |-> fs_parent_path(p),
                    name |-> fs_path_name(p), size |-> 0, data |-> <<>>]
             u == New(t, p, dir)
  <2>1. f \in Files /\ ~ t[f].used
    <3>1. Free(t) # {} /\ Free(t) \in SUBSET Nat
      BY <1>2, Indices DEF CanAlloc, Free
    <3>2. f \in Free(t)
      BY <3>1, LeastProperty
    <3> QED
      BY <3>2 DEF Free
  <2>2. u = [t EXCEPT ![f] = it]
    BY DEF New
  <2>3. t \in [Files -> Entries]
    BY DEF Tables
  <2>4. Bytes(it) = <<>>
    <3>1. 1 .. 0 = {}
      OBVIOUS
    <3>2. \A b : b = [k \in 1 .. 0 |-> IF k <= Len(it.data) THEN it.data[k] ELSE ""] => b = <<>>
      <4>1. ASSUME NEW b, b = [k \in 1 .. 0 |-> IF k <= Len(it.data) THEN it.data[k] ELSE ""]
            PROVE  b = <<>>
        <5>1. b \in [{} -> STRING] /\ DOMAIN b = {}
          BY <3>1, <4>1
        <5>2. b \in Seq(STRING) /\ Len(b) = 0
          BY <3>1, <5>1
        <5> QED
          BY <5>2
      <4> QED
        BY <4>1
    <3> QED
      BY <3>2 DEF Bytes
  <2>5. /\ it.used = TRUE /\ it.path = p /\ it.is_dir = dir
        /\ it.parent = fs_parent_path(p) /\ it.name = fs_path_name(p)
    OBVIOUS
  <2> HIDE DEF f, u, it
  <2>6. u[f] = it /\ \A i \in Files \ {f} : u[i] = t[i]
    BY <2>1, <2>2, <2>3
  <2>7. Adds(t, u, f, p, dir)
    BY <2>1, <2>4, <2>5, <2>6 DEF Adds
  <2>8. alloc(t, p, dir) = [entries |-> u, then |-> "sync"]
    BY <1>2 DEF alloc, Sync, u
  <2>9. u \in Tables
    BY <2>8, NewEntry DEF u
  <2> QED
    BY <1>2, <2>1, <2>5, <2>6, <2>7, <2>8, <2>9 DEF u
<1> QED
  BY <1>1, <1>2

\* The text of an entry, changed, in any table.
LEMMA FillKeeps ==
    ASSUME NEW t \in Tables, NEW i \in Files, NEW text \in Data, Len(text) < FS_MAX_DATA
    PROVE  /\ Fill(t, i, text) \in Tables
           /\ \A x \in Files \ {i} : Fill(t, i, text)[x] = t[x]
           /\ \A x \in Files : /\ Fill(t, i, text)[x].used = t[x].used
                               /\ Fill(t, i, text)[x].path = t[x].path
                               /\ Fill(t, i, text)[x].parent = t[x].parent
                               /\ Fill(t, i, text)[x].name = t[x].name
                               /\ Fill(t, i, text)[x].is_dir = t[x].is_dir
           /\ Bytes(Fill(t, i, text)[i]) = text
<1> DEFINE u == Fill(t, i, text)
<1>1. t \in [Files -> Entries] /\ t[i] \in Entries
  BY DEF Tables
<1>2. u \in Tables
  BY Filled
<1>3. u = [t EXCEPT ![i] = [[@ EXCEPT !.data = text] EXCEPT !.size = Len(text)]]
  BY <1>1 DEF Fill
<1> DEFINE it == [[t[i] EXCEPT !.data = text] EXCEPT !.size = Len(text)]
<1>4. /\ it.used = t[i].used /\ it.path = t[i].path /\ it.is_dir = t[i].is_dir
      /\ it.parent = t[i].parent /\ it.name = t[i].name
      /\ it.data = text /\ it.size = Len(text)
  BY <1>1 DEF Entries
<1>5. u[i] = it /\ \A x \in Files \ {i} : u[x] = t[x]
  BY <1>1, <1>3
<1> HIDE DEF it, u
<1>6. Bytes(u[i]) = text
  <2>1. Bytes(u[i]) = [k \in 1 .. Len(text) |-> IF k <= Len(text) THEN text[k] ELSE ""]
    BY <1>4, <1>5 DEF Bytes
  <2>2. text \in Seq(STRING)
    BY DEF Data
  <2>3. ASSUME NEW b, b = [k \in 1 .. Len(text) |-> IF k <= Len(text) THEN text[k] ELSE ""]
        PROVE  b = text
    <3>1. text = [k \in 1 .. Len(text) |-> text[k]]
      BY <2>2
    <3>2. \A k \in 1 .. Len(text) : k <= Len(text)
      BY <2>2
    <3> QED
      BY <2>3, <3>1, <3>2
  <2> QED
    BY <2>1, <2>3
<1>7. \A x \in Files : /\ u[x].used = t[x].used /\ u[x].path = t[x].path
                       /\ u[x].parent = t[x].parent /\ u[x].name = t[x].name
                       /\ u[x].is_dir = t[x].is_dir
  BY <1>4, <1>5
<1> QED
  BY <1>2, <1>5, <1>6, <1>7 DEF u

\* Entry f is new in m, at the path p that nothing had.
Made(t, m, f, p, dir) ==
    /\ Adds(t, m, f, p, dir)
    /\ Widens(t, m) /\ Fresh(t, m) = {f} /\ Proper(m[f])

LEMMA AddsWidens ==
    ASSUME NEW t \in Tables, NEW m \in Tables, NEW f \in Files, NEW p \in Headed, NEW dir,
           CanAlloc(t, p), Adds(t, m, f, p, dir),
           m[f].parent = fs_parent_path(p), m[f].name = fs_path_name(p)
    PROVE  Made(t, m, f, p, dir)
<1>1. p # Root /\ ~ Exists(t, p)
  BY DEF CanAlloc
<1>2. /\ ~ t[f].used /\ m[f].used /\ m[f].path = p
      /\ \A i \in Files \ {f} : m[i] = t[i]
  BY DEF Adds
<1>3. Fresh(t, m) = {f}
  BY <1>2 DEF Fresh
<1>4. Proper(m[f])
  BY <1>1, <1>2 DEF Proper
<1>5. ASSUME NEW j \in Files, m[j].used, m[j].path = p PROVE j = f
  BY <1>1, <1>2, <1>5, Found
<1>6. \A i \in Files : t[i].used => m[i] = t[i]
  BY <1>2
<1>7. Widens(t, m)
  BY <1>2, <1>3, <1>4, <1>5, <1>6 DEF Widens
<1> QED
  BY <1>3, <1>4, <1>7 DEF Made

LEMMA MadeFills ==
    ASSUME NEW t \in Tables, NEW m \in Tables, NEW f \in Files, NEW p \in Headed, NEW dir,
           Made(t, m, f, p, dir), NEW text \in Data, Len(text) < FS_MAX_DATA
    PROVE  /\ Widens(t, Fill(m, f, text)) /\ Fresh(t, Fill(m, f, text)) = {f}
           /\ Bytes(Fill(m, f, text)[f]) = text
           /\ Fill(m, f, text)[f].path = p /\ Fill(m, f, text)[f].is_dir = dir
<1> DEFINE u == Fill(m, f, text)
<1>1. /\ \A x \in Files \ {f} : u[x] = m[x]
      /\ \A x \in Files : /\ u[x].used = m[x].used /\ u[x].path = m[x].path
                          /\ u[x].parent = m[x].parent /\ u[x].name = m[x].name
                          /\ u[x].is_dir = m[x].is_dir
      /\ Bytes(u[f]) = text
  BY FillKeeps
<1> HIDE DEF u
<1>2. /\ Fresh(t, m) = {f} /\ Widens(t, m) /\ Proper(m[f]) /\ ~ t[f].used
      /\ m[f].path = p /\ m[f].is_dir = dir
  BY DEF Made, Adds
<1>3. Fresh(t, u) = {f}
  BY <1>1, <1>2 DEF Fresh
<1>4. Proper(u[f])
  BY <1>1, <1>2 DEF Proper
<1>5. \A j \in Files : u[j].used /\ u[j].path = u[f].path => j = f
  BY <1>1, <1>2 DEF Widens
<1>6. \A i \in Files : t[i].used => u[i] = t[i]
  BY <1>1, <1>2 DEF Widens
<1>7. Widens(t, u)
  BY <1>3, <1>4, <1>5, <1>6 DEF Widens
<1> QED
  BY <1>1, <1>2, <1>3, <1>7 DEF u

-----------------------------------------------------------------------------
\* What a call of copy_entry_recursive_idx does first, and then.
Looping(below, a, r, m) ==
    \E L \in [0 .. FS_MAX_FILES -> Outcomes] :
       /\ L[0] = [entries |-> m, then |-> "sync"]
       /\ \A i \in 1 .. FS_MAX_FILES : L[i] = CopyStep(below, a, L[i - 1], i)
       /\ r = L[FS_MAX_FILES]

Entered(below, a, r, m, f) ==
    /\ Made(a.t, m, f, a.dst, a.t[a.src].is_dir)
    /\ ~ a.t[a.src].is_dir => r = [entries |-> Fill(m, f, Bytes(a.t[a.src])), then |-> "sync"]
    /\ a.t[a.src].is_dir => Looping(below, a, r, m)

LEMMA EntryCases ==
    ASSUME NEW below \in [CopyCalls -> Outcomes], NEW a \in CopyCalls, a.dst \in Headed,
           NEW r, r = CopyEntry(below, a)
    PROVE  \/ r = [entries |-> a.t, then |-> "fail"]
           \/ /\ ~ Exists(a.t, a.dst)
              /\ \E m \in Tables, f \in Files : Entered(below, a, r, m, f)
<1> DEFINE from == a.t[a.src]
           made == alloc(a.t, a.dst, from.is_dir)
           m == New(a.t, a.dst, from.is_dir)
           at == find_file(made.entries, a.dst)
           L == CopyLoop(below, a, made)
<1>1. a.t \in Tables /\ a.src \in Files /\ a.dst \in Named
  BY DEF CopyCalls
<1>2. from.is_dir \in BOOLEAN
  BY <1>1 DEF Tables, Entries
<1>3. r = IF made.then = "fail" THEN made
          ELSE IF from.is_dir THEN L[FS_MAX_FILES]
          ELSE [entries |-> Fill(made.entries, at, Bytes(from)), then |-> "sync"]
  BY DEF CopyEntry, Sync
<1>4. \/ made = [entries |-> a.t, then |-> "fail"]
      \/ /\ made = [entries |-> m, then |-> "sync"]
         /\ m \in Tables /\ CanAlloc(a.t, a.dst)
         /\ \E f \in Files : /\ Adds(a.t, m, f, a.dst, from.is_dir)
                             /\ m[f].parent = fs_parent_path(a.dst)
                             /\ m[f].name = fs_path_name(a.dst)
  BY <1>1, <1>2, AllocAdds
<1>5. made \in Outcomes
  BY <1>1, <1>2, AllocTyped
<1>6. L \in [0 .. FS_MAX_FILES -> Outcomes] /\ L[0] = made
      /\ \A i \in 1 .. FS_MAX_FILES : L[i] = CopyStep(below, a, L[i - 1], i)
  BY <1>5, LoopSolved
<1> HIDE DEF L, made, m
<1>7. CASE made = [entries |-> a.t, then |-> "fail"]
  BY <1>3, <1>7
<1>8. CASE made # [entries |-> a.t, then |-> "fail"]
  <2>1. made = [entries |-> m, then |-> "sync"] /\ m \in Tables /\ CanAlloc(a.t, a.dst)
    BY <1>4, <1>8
  <2>2. PICK f \in Files : /\ Adds(a.t, m, f, a.dst, from.is_dir)
                           /\ m[f].parent = fs_parent_path(a.dst)
                           /\ m[f].name = fs_path_name(a.dst)
    BY <1>4, <1>8
  <2>3. Made(a.t, m, f, a.dst, from.is_dir)
    BY <1>1, <2>1, <2>2, AddsWidens
  <2>4. at = f
    <3>1. m[f].used /\ m[f].path = a.dst
      BY <2>2 DEF Adds
    <3>2. \A j \in Files : m[j].used /\ m[j].path = a.dst => j = f
      BY <2>3, <3>1 DEF Made, Widens
    <3>3. find_file(m, m[f].path) = f
      BY <3>1, <3>2, FoundAlone
    <3> QED
      BY <2>1, <3>1, <3>3
  <2>5. ~ Exists(a.t, a.dst)
    BY <2>1 DEF CanAlloc
  <2>6. ~ from.is_dir => r = [entries |-> Fill(m, f, Bytes(from)), then |-> "sync"]
    BY <1>3, <2>1, <2>4
  <2>7. from.is_dir => r = L[FS_MAX_FILES]
    BY <1>3, <2>1
  <2>8. from.is_dir => Looping(below, a, r, m)
    BY <1>6, <2>1, <2>7 DEF Looping
  <2>9. Entered(below, a, r, m, f)
    BY <2>3, <2>6, <2>8 DEF Entered
  <2> QED
    BY <2>1, <2>5, <2>9
<1> QED
  BY <1>7, <1>8

\* The child that an iteration copies, and the call that it makes.
Child(a, out, i) == /\ out.then # "fail" /\ out.entries[i].used
                    /\ out.entries[i].parent = a.t[a.src].path
Nested(a, out, i) == [t |-> out.entries, src |-> i,
                      dst |-> build_child_path(a.dst, out.entries[i].name)]

LEMMA StepIs ==
    ASSUME NEW below \in [CopyCalls -> Outcomes], NEW a \in CopyCalls, a.dst \in Headed,
           NEW out \in Outcomes, NEW i \in Files
    PROVE  /\ ~ Child(a, out, i) => CopyStep(below, a, out, i) = out
           /\ Child(a, out, i) => CopyStep(below, a, out, i) = below[Nested(a, out, i)]
           /\ Nested(a, out, i) \in CopyCalls /\ Nested(a, out, i).dst \in Headed
           /\ Nested(a, out, i).t = out.entries /\ Nested(a, out, i).src = i
           /\ Nested(a, out, i).dst = build_child_path(a.dst, out.entries[i].name)
           /\ out.entries[i].name \in Named
<1>1. out.entries \in Tables /\ out.entries[i].name \in Named
  BY DEF Outcomes, Tables, Entries
<1>2. build_child_path(a.dst, out.entries[i].name) \in Headed
  BY <1>1, ChildHeaded
<1>3. Nested(a, out, i) \in CopyCalls
  BY <1>1, <1>2 DEF Nested, CopyCalls, Headed
<1> QED
  BY <1>1, <1>2, <1>3 DEF Nested, Child, CopyStep

\* What holds of a call that cannot go deeper, and of one if it holds of those that it makes,
\* holds of the copy.
LEMMA CopyInduction ==
    ASSUME NEW Q,
           \A a \in CopyCalls : <<a, Fail(a.t)>> \in Q,
           \A below \in [CopyCalls -> Outcomes] :
              (\A b \in CopyCalls : <<b, below[b]>> \in Q)
                 => \A a \in CopyCalls : <<a, CopyEntry(below, a)>> \in Q
    PROVE  \A a \in CopyCalls : /\ copy_entry_recursive_idx[FS_MAX_FILES][a] \in Outcomes
                                /\ <<a, copy_entry_recursive_idx[FS_MAX_FILES][a]>> \in Q
<1> DEFINE N == FS_MAX_FILES
           C == copy_entry_recursive_idx
           Kept == {n \in 0 .. N : \A a \in CopyCalls : <<a, C[n][a]>> \in Q}
<1>1. N \in Nat /\ 0 \in 0 .. N /\ N \in 0 .. N
      /\ \A n \in 1 .. N : n \in 0 .. N /\ n - 1 \in 0 .. N
  BY Indices
<1>2. /\ C \in [0 .. N -> [CopyCalls -> Outcomes]]
      /\ C[0] = [a \in CopyCalls |-> Fail(a.t)]
      /\ \A n \in 1 .. N : C[n] = [a \in CopyCalls |-> CopyEntry(C[n - 1], a)]
  BY CopySolved
<1> HIDE DEF N, C
<1>3. 0 \in Kept
  BY <1>1, <1>2
<1>4. ASSUME NEW n \in 1 .. N, n - 1 \in Kept PROVE n \in Kept
  <2>1. C[n - 1] \in [CopyCalls -> Outcomes] /\ \A b \in CopyCalls : <<b, C[n - 1][b]>> \in Q
    BY <1>1, <1>2, <1>4
  <2>2. \A a \in CopyCalls : <<a, CopyEntry(C[n - 1], a)>> \in Q
    BY <2>1
  <2>3. \A a \in CopyCalls : C[n][a] = CopyEntry(C[n - 1], a)
    BY <1>2
  <2> QED
    BY <1>1, <2>2, <2>3
<1> HIDE DEF Kept
<1>5. 0 .. N \subseteq Kept
  BY <1>1, <1>3, <1>4, UpTo
<1>6. \A a \in CopyCalls : <<a, C[N][a]>> \in Q
  BY <1>1, <1>5 DEF Kept
<1>7. \A a \in CopyCalls : C[N][a] \in Outcomes
  BY <1>1, <1>2
<1> QED
  BY <1>6, <1>7 DEF N, C

(***************************************************************************)
(* A copy only adds, and one into itself fails.                            *)
(***************************************************************************)
\* A copy only adds, and does not write over what is there.
Calm(a, r) == a.dst \in Headed =>
    /\ Widens(a.t, r.entries)
    /\ r.then \in {"sync", "fail"}
    /\ Exists(a.t, a.dst) => r.then = "fail"
    /\ r.then = "sync" => Exists(r.entries, a.dst)

LEMMA EntryCalm ==
    ASSUME NEW below \in [CopyCalls -> Outcomes], \A b \in CopyCalls : Calm(b, below[b]),
           NEW a \in CopyCalls
    PROVE  Calm(a, CopyEntry(below, a))
<1> DEFINE r == CopyEntry(below, a)
           N == FS_MAX_FILES
<1>1. r = CopyEntry(below, a)
  OBVIOUS
<1>2. a.t \in Tables /\ a.src \in Files
  BY DEF CopyCalls
<1>3. N \in Nat /\ Files = 1 .. N /\ N \in 0 .. N /\ 0 \in 0 .. N
  BY Indices
<1> HIDE DEF r, N
<1> SUFFICES ASSUME a.dst \in Headed
             PROVE  /\ Widens(a.t, r.entries)
                    /\ r.then \in {"sync", "fail"}
                    /\ Exists(a.t, a.dst) => r.then = "fail"
                    /\ r.then = "sync" => Exists(r.entries, a.dst)
  BY <1>1 DEF Calm
<1>4. CASE r = [entries |-> a.t, then |-> "fail"]
  BY <1>4, WidensSelf
<1>5. CASE r # [entries |-> a.t, then |-> "fail"]
  <2>1. ~ Exists(a.t, a.dst)
    BY <1>1, <1>5, EntryCases
  <2>2. PICK m \in Tables, f \in Files : Entered(below, a, r, m, f)
    BY <1>1, <1>5, EntryCases
  <2>3. CASE ~ a.t[a.src].is_dir
    <3>1. Bytes(a.t[a.src]) \in Data /\ Len(Bytes(a.t[a.src])) < FS_MAX_DATA
      BY <1>2, BytesFit
    <3>2. /\ Made(a.t, m, f, a.dst, a.t[a.src].is_dir)
          /\ r = [entries |-> Fill(m, f, Bytes(a.t[a.src])), then |-> "sync"]
      BY <2>2, <2>3 DEF Entered
    <3> DEFINE u == Fill(m, f, Bytes(a.t[a.src]))
    <3>3. Widens(a.t, u) /\ Fresh(a.t, u) = {f} /\ u[f].path = a.dst
      BY <1>2, <3>1, <3>2, MadeFills
    <3> HIDE DEF u
    <3>4. Exists(u, a.dst)
      BY <3>3, Found DEF Fresh
    <3> QED
      BY <2>1, <3>2, <3>3, <3>4 DEF u
  <2>4. CASE a.t[a.src].is_dir
    <3>1. PICK L \in [0 .. N -> Outcomes] :
             /\ L[0] = [entries |-> m, then |-> "sync"]
             /\ \A i \in 1 .. N : L[i] = CopyStep(below, a, L[i - 1], i)
             /\ r = L[N]
      BY <2>2, <2>4 DEF Entered, Looping, N
    <3> DEFINE Kept == {i \in 0 .. N : Widens(m, L[i].entries) /\ L[i].then \in {"sync", "fail"}}
    <3>2. 0 \in Kept
      BY <1>3, <3>1, WidensSelf
    <3>3. ASSUME NEW i \in 1 .. N, i - 1 \in Kept PROVE i \in Kept
      <4>1. i \in Files /\ i \in 0 .. N /\ i - 1 \in 0 .. N
        BY <1>3
      <4> DEFINE out == L[i - 1]
                 b == Nested(a, out, i)
      <4>2. out \in Outcomes /\ Widens(m, out.entries) /\ out.then \in {"sync", "fail"}
        BY <3>3, <4>1
      <4>3. L[i] = CopyStep(below, a, out, i)
        BY <3>1
      <4>10. b = Nested(a, out, i)
        OBVIOUS
      <4> HIDE DEF out, b, Kept
      <4>11. out \in Outcomes /\ i \in Files
        BY <4>1, <4>2
      <4>4. /\ ~ Child(a, out, i) => L[i] = out
            /\ Child(a, out, i) => L[i] = below[b]
            /\ b \in CopyCalls /\ b.dst \in Headed /\ b.t = out.entries
        <5>1. /\ ~ Child(a, out, i) => CopyStep(below, a, out, i) = out
              /\ Child(a, out, i) => CopyStep(below, a, out, i) = below[Nested(a, out, i)]
              /\ Nested(a, out, i) \in CopyCalls /\ Nested(a, out, i).dst \in Headed
              /\ Nested(a, out, i).t = out.entries /\ Nested(a, out, i).src = i
              /\ Nested(a, out, i).dst = build_child_path(a.dst, out.entries[i].name)
              /\ out.entries[i].name \in Named
          BY <4>11, StepIs
        <5> QED
          BY <4>3, <4>10, <5>1
      <4>5. Widens(out.entries, below[b].entries) /\ below[b].then \in {"sync", "fail"}
        BY <4>4 DEF Calm
      <4>6. Widens(m, below[b].entries)
        BY <4>2, <4>5, WidensTwice
      <4>7. Widens(m, L[i].entries) /\ L[i].then \in {"sync", "fail"}
        BY <4>2, <4>4, <4>5, <4>6
      <4> QED
        BY <4>1, <4>7 DEF Kept
    <3> HIDE DEF Kept
    <3>4. 0 .. N \subseteq Kept
      BY <1>3, <3>2, <3>3, UpTo
    <3>5. Widens(m, r.entries) /\ r.then \in {"sync", "fail"}
      BY <1>3, <3>1, <3>4 DEF Kept
    <3>6. Widens(a.t, m) /\ m[f].used /\ m[f].path = a.dst
      BY <2>2 DEF Entered, Made, Adds
    <3>7. Exists(r.entries, a.dst)
      BY <3>5, <3>6, Found DEF Widens
    <3> QED
      BY <2>1, <3>5, <3>6, <3>7, WidensTwice
  <2> QED
    BY <2>3, <2>4
<1> QED
  BY <1>4, <1>5

LEMMA FailCalm == ASSUME NEW a PROVE Calm(a, Fail(a.t))
  BY WidensSelf DEF Calm, Fail

-----------------------------------------------------------------------------

\* A copy of what is there to where nothing is.
LEMMA CopyCalm ==
    ASSUME NEW t \in Tables, NEW src \in Named, NEW dst \in Headed, NEW r, r = copy(t, src, dst)
    PROVE  /\ r.entries \in Tables /\ Widens(t, r.entries) /\ r.then \in {"sync", "fail"}
           /\ r.then = "sync" => Exists(t, src) /\ ~ Exists(t, dst) /\ Exists(r.entries, dst)
           /\ r # Fail(t) => Exists(t, src) /\ ~ Exists(t, dst)
<1> DEFINE N == FS_MAX_FILES
           a == [t |-> t, src |-> find_file(t, src), dst |-> dst]
           c == copy_entry_recursive_idx[N][a]
           Q == {x \in CopyCalls \X Outcomes : Calm(x[1], x[2])}
<1>1. CASE ~ (Exists(t, src) /\ ~ Exists(t, dst))
  <2>1. r = Fail(t)
    BY <1>1 DEF copy
  <2> QED
    BY <2>1, WidensSelf DEF Fail
<1>2. CASE Exists(t, src) /\ ~ Exists(t, dst)
  <2>1. a \in CopyCalls /\ dst \in Named
    BY <1>2, Found DEF CopyCalls, Headed
  <2>2. \A b \in CopyCalls : <<b, Fail(b.t)>> \in Q
    <3>1. ASSUME NEW b \in CopyCalls PROVE <<b, Fail(b.t)>> \in Q
      <4>1. Fail(b.t) \in Outcomes
        BY DEF Fail, Outcomes, Ends, CopyCalls
      <4>2. Calm(b, Fail(b.t))
        BY FailCalm
      <4> QED
        BY <4>1, <4>2
    <3> QED
      BY <3>1
  <2>3. ASSUME NEW below \in [CopyCalls -> Outcomes], \A b \in CopyCalls : <<b, below[b]>> \in Q
        PROVE  \A b \in CopyCalls : <<b, CopyEntry(below, b)>> \in Q
    <3>1. \A b \in CopyCalls : Calm(b, below[b])
      BY <2>3
    <3>2. ASSUME NEW b \in CopyCalls PROVE <<b, CopyEntry(below, b)>> \in Q
      <4>1. CopyEntry(below, b) \in Outcomes
        BY EntryCopied
      <4>2. Calm(b, CopyEntry(below, b))
        BY <3>1, EntryCalm
      <4> QED
        BY <4>1, <4>2
    <3> QED
      BY <3>2
  <2> HIDE DEF Q
  <2>4. c \in Outcomes /\ <<a, c>> \in Q
    BY <2>1, <2>2, <2>3, CopyInduction
  <2>5. Calm(a, c)
    BY <2>4 DEF Q
  <2>6. r = c
    BY <1>2 DEF copy
  <2> QED
    BY <1>2, <2>4, <2>5, <2>6 DEF Calm, Outcomes
<1> QED
  BY <1>1, <1>2

(***************************************************************************)
(* Operations, and tables that may not be trees.                           *)
(***************************************************************************)
\* The tables in which every entry has a path that operations make; a parent or a name may be
\* what a torn write has left.
Rooted == {t \in Tables : \A i \in Files : t[i].used => t[i].path \in Headed /\ t[i].path # Root}

LEMMA SoundRooted == ASSUME NEW t PROVE t \in Sound <=> t \in Rooted /\ t \in Trees
  BY DEF Sound, Rooted, Trees

LEMMA WidensRooted ==
    ASSUME NEW t \in Rooted, NEW u \in Tables, Widens(t, u)
    PROVE  u \in Rooted
<1>1. ASSUME NEW i \in Files, u[i].used
      PROVE  u[i].path \in Headed /\ u[i].path # Root
  <2>1. CASE t[i].used
    BY <2>1 DEF Widens, Rooted
  <2>2. CASE ~ t[i].used
    <3>1. i \in Fresh(t, u)
      BY <1>1, <2>2 DEF Fresh
    <3> QED
      BY <3>1 DEF Widens, Proper
  <2> QED
    BY <2>1, <2>2
<1> QED
  BY <1>1 DEF Rooted

\* What tells where the entries are in the tree.
SameLinks(t, u) == \A i \in Files :
    u[i].used = t[i].used /\ u[i].path = t[i].path /\ u[i].parent = t[i].parent

LEMMA LinksRooted == ASSUME NEW t \in Rooted, NEW u \in Tables, SameLinks(t, u) PROVE u \in Rooted
  BY DEF SameLinks, Rooted

LEMMA FillLinks ==
    ASSUME NEW t \in Tables, NEW i \in Files, NEW text
    PROVE  SameLinks(t, Fill(t, i, text))
<1>1. t \in [Files -> Entries] /\ t[i] \in Entries
  BY DEF Tables
<1> DEFINE it == [[t[i] EXCEPT !.data = text] EXCEPT !.size = Len(text)]
<1>2. it.used = t[i].used /\ it.path = t[i].path /\ it.parent = t[i].parent
  BY <1>1 DEF Entries
<1>3. Fill(t, i, text) = [t EXCEPT ![i] = it]
  BY <1>1 DEF Fill
<1> HIDE DEF it
<1>4. Fill(t, i, text)[i] = it /\ \A x \in Files \ {i} : Fill(t, i, text)[x] = t[x]
  BY <1>1, <1>3
<1> QED
  BY <1>2, <1>4 DEF SameLinks

\* What the operations on one entry leave of such a table.
LEMMA AllocRooted ==
    ASSUME NEW t \in Rooted, NEW p \in Headed, NEW dir \in BOOLEAN
    PROVE  alloc(t, p, dir).entries \in Rooted
<1>1. t \in Tables /\ p \in Named
  BY DEF Rooted, Headed
<1> DEFINE u == New(t, p, dir)
<1>2. CASE alloc(t, p, dir) = [entries |-> t, then |-> "fail"]
  BY <1>2
<1>3. CASE alloc(t, p, dir) # [entries |-> t, then |-> "fail"]
  <2>1. alloc(t, p, dir) = [entries |-> u, then |-> "sync"] /\ u \in Tables /\ CanAlloc(t, p)
    BY <1>1, <1>3, AllocAdds
  <2>2. PICK f \in Files : /\ Adds(t, u, f, p, dir)
                           /\ u[f].parent = fs_parent_path(p) /\ u[f].name = fs_path_name(p)
    BY <1>1, <1>3, AllocAdds
  <2> HIDE DEF u
  <2>3. Made(t, u, f, p, dir)
    BY <1>1, <2>1, <2>2, AddsWidens
  <2>4. u \in Rooted
    BY <2>1, <2>3, WidensRooted DEF Made
  <2> QED
    BY <2>1, <2>4
<1> QED
  BY <1>2, <1>3

LEMMA TextRooted ==
    ASSUME NEW t \in Rooted, NEW p \in Headed, NEW text \in Data
    PROVE  write(t, p, text).entries \in Rooted /\ append(t, p, text).entries \in Rooted
<1> DEFINE open == Opened(t, p)
           i == find_file(open.entries, p)
<1>1. t \in Tables /\ p \in Named
  BY DEF Rooted, Headed
<1>2. open.then \in {"sync", "fail"} /\ (open.then = "sync" => i \in Files)
  BY <1>1, OpenedTree
<1>3. open.entries \in Rooted
  <2>1. CASE Exists(t, p) /\ ~ t[find_file(t, p)].is_dir
    BY <2>1 DEF Opened, Sync
  <2>2. CASE ~ (Exists(t, p) /\ ~ t[find_file(t, p)].is_dir)
    BY <2>2, AllocRooted DEF Opened
  <2> QED
    BY <2>1, <2>2
<1>4. write(t, p, text).entries \in Tables /\ append(t, p, text).entries \in Tables
  BY <1>1, TextsWritten DEF Outcomes
<1>5. CASE open.then = "fail"
  BY <1>3, <1>5 DEF write, append
<1>6. CASE open.then = "sync"
  <2> DEFINE u == open.entries
             file == u[i]
             room == FS_MAX_DATA - 1 - file.size
             cut == Cut(text, FS_MAX_DATA - 1)
             all == Bytes(file) \o Cut(text, room)
  <2>1. write(t, p, text).entries = Fill(u, i, cut)
    BY <1>6 DEF write, Sync
  <2>2. append(t, p, text).entries \in {u, Fill(u, i, all)}
    BY <1>6 DEF append, Sync, Done
  <2>3. u \in Tables /\ u \in Rooted /\ i \in Files
    BY <1>2, <1>3, <1>6 DEF Rooted
  <2> HIDE DEF u, i, cut, all
  <2>4. SameLinks(u, Fill(u, i, cut)) /\ SameLinks(u, Fill(u, i, all)) /\ SameLinks(u, u)
    BY <2>3, FillLinks DEF SameLinks
  <2>5. SameLinks(u, write(t, p, text).entries) /\ SameLinks(u, append(t, p, text).entries)
    BY <2>1, <2>2, <2>4
  <2> QED
    BY <1>4, <2>3, <2>5, LinksRooted
<1> QED
  BY <1>2, <1>5, <1>6

\* An operation tears no entry from its path, nor from its parent.
\* The operations that the terminal and init_fs ask for.
CleanOps == {op \in Ops : /\ op.do # "sync" => op.path \in Clean
                          /\ op.do = "copy" => op.arg \in Clean}

\* An operation leaves such a table.
LEMMA EffectRooted ==
    ASSUME NEW t \in Rooted, NEW op \in CleanOps
    PROVE  Effect(t, op).entries \in Rooted
<1>0. t \in Tables
  BY DEF Rooted
<1>1. /\ op.do \in {"mkdir", "create", "write", "append", "remove", "copy", "sync"}
      /\ op.arg \in Data
      /\ op.do # "sync" => op.path \in Clean
      /\ op.do = "copy" => op.arg \in Clean
  BY DEF CleanOps, Ops
<1>9. op.do # "sync" => op.path \in Headed
  BY <1>1, CleanHeaded
<1>2. CASE op.do = "mkdir"
  BY <1>2, <1>9, AllocRooted DEF Effect
<1>3. CASE op.do = "create"
  BY <1>3, <1>9, AllocRooted DEF Effect
<1>4. CASE op.do = "write"
  BY <1>1, <1>4, <1>9, TextRooted DEF Effect
<1>5. CASE op.do = "append"
  BY <1>1, <1>5, <1>9, TextRooted DEF Effect
<1>6. CASE op.do = "remove"
  <2> DEFINE gone == Family(t, find_file(t, op.path))
             u == [i \in Files |-> IF i \in gone THEN Blank ELSE t[i]]
  <2>1. Effect(t, op) = remove(t, op.path)
    BY <1>6 DEF Effect
  <2>2. Effect(t, op).entries \in {t, u}
    BY <2>1 DEF remove, Sync, Fail
  <2> HIDE DEF gone
  <2>3. Blank \in Entries /\ Blank.used = FALSE
    BY BlankTree
  <2>4. u \in Tables /\ \A i \in Files : u[i].used => u[i] = t[i]
    BY <1>0, <2>3 DEF Tables
  <2> HIDE DEF u
  <2>5. u \in Rooted
    BY <2>4 DEF Rooted
  <2> QED
    BY <2>2, <2>5
<1>7. CASE op.do = "copy"
  <2>1. Effect(t, op) = copy(t, op.path, op.arg)
    BY <1>7 DEF Effect
  <2>2. /\ copy(t, op.path, op.arg).entries \in Tables
        /\ Widens(t, copy(t, op.path, op.arg).entries)
    <3>1. op.path \in Named /\ op.arg \in Headed
      BY <1>1, <1>7, CleanPaths, CleanHeaded
    <3> QED
      BY <1>0, <3>1, CopyCalm
  <2> QED
    BY <2>1, <2>2, WidensRooted
<1>8. CASE op.do = "sync"
  BY <1>8 DEF Effect, Sync
<1> QED
  BY <1>1, <1>2, <1>3, <1>4, <1>5, <1>6, <1>7, <1>8


LEMMA EffectSound ==
    ASSUME NEW t \in Sound, NEW op \in CleanOps
    PROVE  /\ Effect(t, op).entries \in Sound
           /\ Effect(t, op).then \in Ends
<1>1. t \in Rooted /\ t \in Trees /\ op \in Ops
  BY SoundRooted DEF CleanOps
<1>2. Effect(t, op).entries \in Trees /\ Effect(t, op).then \in Ends
  BY <1>1, EffectTree DEF Results
<1>3. Effect(t, op).entries \in Rooted
  BY <1>1, EffectRooted
<1> QED
  BY <1>2, <1>3, SoundRooted

-----------------------------------------------------------------------------
BootOps == {op \in CleanOps : op.do # "append" /\ op.do # "copy"}

BlankTable == [i \in Files |-> Blank]

FileTreeInv ==
    /\ entries \in Sound /\ todo \in Seq(CleanOps) /\ result \in {0, -1}
    /\ power = "off" => entries = BlankTable /\ todo = <<>> /\ ~ syncing
    /\ power = "boot" => todo \in Seq(BootOps)
    /\ power # "boot" /\ todo # <<>> => result = 0


LEMMA UserOpsClean ==
    /\ \A p \in UserPaths : /\ Op("mkdir", p, <<>>) \in CleanOps
                             /\ Op("create", p, <<>>) \in CleanOps
                             /\ Op("remove", p, <<>>) \in CleanOps
    /\ \A p \in UserPaths, text \in Texts :
          Op("write", p, text) \in CleanOps /\ Op("append", p, text) \in CleanOps
    /\ \A p \in UserPaths, q \in UserPaths : Op("copy", p, q) \in CleanOps
    /\ Op("sync", <<>>, <<>>) \in CleanOps
<1>1. \A p \in UserPaths : p \in Clean
  BY FsAssumption
<1>2. ASSUME NEW do, NEW p, NEW arg, Op(do, p, arg) \in Ops,
             do # "sync" => p \in Clean, do = "copy" => arg \in Clean
      PROVE  Op(do, p, arg) \in CleanOps
  BY <1>2 DEF Op, CleanOps
<1> QED
  BY <1>1, <1>2, UserOps, SyncOp

LEMMA DefaultOpsClean == Defaults \in Seq(BootOps) /\ BootOps \subseteq CleanOps
<1>1. ASSUME NEW a \in Names, NEW b \in Names PROVE <<a>> \in Clean /\ <<a, b>> \in Clean
  <2>1. /\ <<a>> \in Seq(Names) /\ Len(<<a>>) = 1
        /\ <<a, b>> \in Seq(Names) /\ Len(<<a, b>>) = 2
        /\ Len(<<>>) = 0
    OBVIOUS
  <2> QED
    BY <2>1 DEF Clean
<1>2. /\ "home" \in Names /\ "user" \in Names /\ "readme.txt" \in Names /\ "hello.txt" \in Names
      /\ "Bienvenue" \in STRING /\ "Hello" \in STRING
  <2>1. "home" # "" /\ "user" # "" /\ "readme.txt" # "" /\ "hello.txt" # ""
    OBVIOUS
  <2>2. /\ "home" \in Strings /\ "user" \in Strings /\ "readme.txt" \in Strings
        /\ "hello.txt" \in Strings /\ "Bienvenue" \in STRING /\ "Hello" \in STRING
    BY LiteralAssumption
  <2> QED
    BY <2>1, <2>2 DEF Names
<1>3. /\ <<"home">> \in Clean /\ <<"readme.txt">> \in Clean /\ <<"hello.txt">> \in Clean
      /\ <<"home", "user">> \in Clean
      /\ <<"Bienvenue">> \in Data /\ <<"Hello">> \in Data /\ <<>> \in Data
  <2>1. ASSUME NEW S, NEW a \in S PROVE <<a>> \in Seq(S) /\ <<>> \in Seq(S)
    OBVIOUS
  <2>2. ASSUME NEW a \in STRING PROVE <<a>> \in Data /\ <<>> \in Data
    BY <2>1 DEF Data
  <2> QED
    BY <1>1, <1>2, <2>2
<1>4. ASSUME NEW p \in Clean, NEW text \in Data
      PROVE  /\ Op("mkdir", p, text) \in BootOps /\ Op("create", p, text) \in BootOps
             /\ Op("write", p, text) \in BootOps
  <2>1. p \in Named /\ p \in Paths
    BY CleanPaths
  <2> QED
    BY <2>1 DEF Op, Ops, CleanOps, BootOps
<1>5. Op("sync", <<>>, <<>>) \in BootOps
  BY SyncOp DEF Op, CleanOps, BootOps
<1>6. ASSUME NEW a \in BootOps, NEW b \in BootOps, NEW c \in BootOps, NEW d \in BootOps,
             NEW e \in BootOps, NEW f \in BootOps, NEW g \in BootOps
      PROVE  <<a, b, c, d, e, f, g>> \in Seq(BootOps)
  OBVIOUS
<1>7. /\ Op("mkdir",  <<"home">>, <<>>) \in BootOps
      /\ Op("mkdir",  <<"home", "user">>, <<>>) \in BootOps
      /\ Op("create", <<"readme.txt">>, <<>>) \in BootOps
      /\ Op("write",  <<"readme.txt">>, <<"Bienvenue">>) \in BootOps
      /\ Op("create", <<"hello.txt">>, <<>>) \in BootOps
      /\ Op("write",  <<"hello.txt">>, <<"Hello">>) \in BootOps
  BY <1>3, <1>4
<1>8. BootOps \subseteq CleanOps
  BY DEF BootOps
<1> QED
  BY <1>5, <1>6, <1>7, <1>8 DEF Defaults

LEMMA BlankSound == BlankTable \in Sound
<1>1. BlankTable \in Trees /\ \A i \in Files : ~ BlankTable[i].used
  BY BlankTree DEF BlankTable
<1> QED
  BY <1>1 DEF Sound

LEMMA FileTreeInvHolds ==
    ASSUME FileTreeInv, [Steady]_vars
    PROVE  FileTreeInv'
<1>1. /\ entries \in Sound /\ todo \in Seq(CleanOps) /\ result \in {0, -1}
      /\ power = "off" => entries = BlankTable /\ todo = <<>> /\ ~ syncing
      /\ power = "boot" => todo \in Seq(BootOps)
      /\ power # "boot" /\ todo # <<>> => result = 0
  BY DEF FileTreeInv
<1>2. ASSUME NEW ops \in Seq(CleanOps), Call(ops) PROVE FileTreeInv'
  BY <1>1, <1>2 DEF Call, Idle, FileTreeInv
<1>3. \A x \in CleanOps, y \in CleanOps, z \in CleanOps :
         <<x>> \in Seq(CleanOps) /\ <<x, y, z>> \in Seq(CleanOps)
  OBVIOUS
<1>4. ASSUME NEW p \in UserPaths, fs_mkdir(p) \/ fs_create(p) \/ fs_remove(p) PROVE FileTreeInv'
  BY <1>2, <1>3, <1>4, UserOpsClean DEF fs_mkdir, fs_create, fs_remove
<1>5. ASSUME NEW p \in UserPaths, NEW text \in Texts, fs_write(p, text) \/ fs_append(p, text)
      PROVE  FileTreeInv'
  BY <1>2, <1>3, <1>5, UserOpsClean DEF fs_write, fs_append
<1>6. ASSUME NEW src \in UserPaths, NEW dst \in UserPaths, fs_copy(src, dst) \/ fs_move(src, dst)
      PROVE  FileTreeInv'
  BY <1>2, <1>3, <1>6, UserOpsClean DEF fs_copy, fs_move
<1>7. <<>> \in Seq(CleanOps) /\ <<>> \in Seq(BootOps)
  OBVIOUS
<1>8. CASE operate
  <2> DEFINE r == Effect(entries, Head(todo))
  <2>1. /\ todo # <<>> /\ power # "off"
        /\ Head(todo) \in CleanOps /\ Tail(todo) \in Seq(CleanOps)
        /\ power = "boot" => Tail(todo) \in Seq(BootOps)
    BY <1>1, <1>8 DEF operate
  <2>2. r.entries \in Sound
    <3>1. \A op \in CleanOps : Effect(entries, op).entries \in Sound
      BY <1>1, EffectSound
    <3> QED
      BY <2>1, <3>1
  <2>3. /\ entries' = r.entries
        /\ \/ todo' = Tail(todo) /\ power' = power /\ result' = result
           \/ End(r.then = "done", Tail(todo))
    BY <1>8 DEF operate
  <2> HIDE DEF r
  <2>4. CASE todo' = Tail(todo) /\ power' = power /\ result' = result
    BY <1>1, <2>1, <2>2, <2>3, <2>4 DEF FileTreeInv
  <2>5. CASE End(r.then = "done", Tail(todo))
    BY <1>1, <1>7, <2>1, <2>2, <2>3, <2>5 DEF FileTreeInv, End
  <2> QED
    BY <2>3, <2>4, <2>5
<1>9. CASE write_sector
  BY <1>1, <1>9 DEF write_sector, FileTreeInv
<1>10. CASE sync_end
  BY <1>1, <1>10 DEF sync_end, End, FileTreeInv
<1>11. CASE format
  BY <1>1, <1>11, BlankSound, DefaultOpsClean, DefaultOps DEF format, FileTreeInv, BlankTable
<1>12. CASE UNCHANGED vars
  BY <1>1, <1>12 DEF vars, FileTreeInv
<1> QED
  BY <1>4, <1>5, <1>6, <1>8, <1>9, <1>10, <1>11, <1>12 DEF Steady
(***************************************************************************)
(* The commands of the terminal: Shell.                                    *)
(***************************************************************************)
\* What a command asks for has been done: OkIsDone of any command and any table.
Achieved(c, t) ==
    CASE c.do = "mkdir"  -> fs_is_dir(t, c.path)
      [] c.do = "create" -> Exists(t, c.path) /\ ~ fs_is_dir(t, c.path)
      [] c.do = "remove" -> ~ Exists(t, c.path)
      [] c.do = "copy"   -> Exists(t, c.path) /\ Exists(t, c.arg)
      [] c.do = "move"   -> IsBelow(c.arg, c.path) \/ (~ Exists(t, c.path) /\ Exists(t, c.arg))

\* The commands whose OK is worth something.
Honest(c) == c.do \notin {"write", "append"}

LEMMA CleanOp ==
    ASSUME NEW p \in Clean
    PROVE  /\ Op("mkdir", p, <<>>) \in CleanOps /\ Op("create", p, <<>>) \in CleanOps
           /\ Op("remove", p, <<>>) \in CleanOps /\ Op("sync", <<>>, <<>>) \in CleanOps
           /\ \A text \in Texts : Op("write", p, text) \in CleanOps /\ Op("append", p, text) \in CleanOps
           /\ \A q \in Clean : Op("copy", p, q) \in CleanOps
<1>1. /\ \A q \in Clean : q \in Paths /\ q \in Named
      /\ \A text \in Texts : text \in Data
      /\ <<>> \in Paths /\ <<>> \in Data /\ Paths \subseteq Data
  BY FsAssumption, CleanPaths, PathsData DEF Paths, Data
<1>2. ASSUME NEW do \in {"mkdir", "create", "write", "append", "remove", "copy", "sync"},
             NEW q, NEW arg \in Data, do # "sync" => q \in Clean, q \in Paths,
             do = "copy" => arg \in Clean
      PROVE  Op(do, q, arg) \in CleanOps
  <2>1. Op(do, q, arg) \in Ops
    BY <1>1, <1>2 DEF Op, Ops
  <2> QED
    BY <1>2, <2>1 DEF Op, CleanOps
<1>3. Op("mkdir", p, <<>>) \in CleanOps /\ Op("create", p, <<>>) \in CleanOps
  BY <1>1, <1>2
<1>4. Op("remove", p, <<>>) \in CleanOps /\ Op("sync", <<>>, <<>>) \in CleanOps
  BY <1>1, <1>2
<1>5. ASSUME NEW text \in Texts
      PROVE  Op("write", p, text) \in CleanOps /\ Op("append", p, text) \in CleanOps
  BY <1>1, <1>2
<1>6. ASSUME NEW q \in Clean PROVE Op("copy", p, q) \in CleanOps
  <2>1. q \in Data
    BY <1>1
  <2> QED
    BY <1>1, <1>2, <2>1
<1> QED
  BY <1>3, <1>4, <1>5, <1>6

\* What alloc makes is found.
LEMMA AllocDone ==
    ASSUME NEW t \in Sound, NEW p \in Headed, NEW dir \in BOOLEAN,
           NEW r, r = alloc(t, p, dir), r.then # "fail"
    PROVE  /\ r.then = "sync" /\ Exists(r.entries, p)
           /\ dir => fs_is_dir(r.entries, p)
           /\ ~ dir => ~ fs_is_dir(r.entries, p)
<1>1. t \in Tables /\ t \in Trees /\ p \in Named
  BY DEF Sound, Trees, Headed
<1>2. /\ r = [entries |-> New(t, p, dir), then |-> "sync"] /\ CanAlloc(t, p)
      /\ \E f \in Files : Adds(t, New(t, p, dir), f, p, dir)
  BY <1>1, AllocAdds
<1>3. PICK f \in Files : Adds(t, r.entries, f, p, dir)
  BY <1>2
<1>4. r.entries \in Trees
  BY <1>1, Allocated DEF Results
<1>5. /\ r.entries[f].used /\ r.entries[f].path = p /\ r.entries[f].is_dir = dir
  BY <1>3 DEF Adds
<1>6. find_file(r.entries, p) = f
  BY <1>4, <1>5 DEF Trees, Tree
<1> QED
  <2>1. p # Root /\ Exists(r.entries, p) /\ r.then = "sync"
    BY <1>2, <1>5, <1>6, Found DEF CanAlloc
  <2>2. dir => fs_is_dir(r.entries, p)
    BY <1>5, <1>6, <2>1 DEF fs_is_dir
  <2>3. ~ dir => ~ fs_is_dir(r.entries, p)
    BY <1>5, <1>6, <2>1 DEF fs_is_dir
  <2> QED
    BY <2>1, <2>2, <2>3

\* What is removed is gone, and nothing else is.
LEMMA RemoveDone ==
    ASSUME NEW t \in Sound, NEW p \in Named, NEW r, r = remove(t, p), r.then # "fail"
    PROVE  /\ r.then = "sync" /\ ~ Exists(r.entries, p)
           /\ \A q : Exists(t, q) /\ ~ Under(q, p) => Exists(r.entries, q)
<1> DEFINE i == find_file(t, p)
           u == [x \in Files |-> IF x \in Family(t, i) THEN Blank ELSE t[x]]
<1>1. Exists(t, p) /\ r = [entries |-> u, then |-> "sync"]
  BY DEF remove, Sync, Fail
<1>2. i \in Files /\ t[i].used /\ t[i].path = p
  BY <1>1, Found
<1>3. \A j \in Files : j \in Family(t, i) <=> t[j].used /\ Under(t[j].path, p)
  BY <1>2, FamilyIs
<1>4. \A x \in Files : u[x] = IF x \in Family(t, i) THEN Blank ELSE t[x]
  OBVIOUS
<1> HIDE DEF i, u
<1>5. ~ Exists(u, p)
  <2>1. ASSUME NEW x \in Files, u[x].used, u[x].path = p PROVE FALSE
    <3>1. x \notin Family(t, i) /\ u[x] = t[x]
      BY <1>4, <2>1, BlankTree
    <3> QED
      BY <1>3, <2>1, <3>1 DEF Under
  <2> QED
    BY <2>1, Found
<1>6. ASSUME NEW q, Exists(t, q), ~ Under(q, p) PROVE Exists(u, q)
  <2>1. PICK x \in Files : t[x].used /\ t[x].path = q
    BY <1>6, Found
  <2>2. u[x] = t[x]
    BY <1>3, <1>4, <1>6, <2>1
  <2> QED
    BY <2>1, <2>2, Found
<1> QED
  BY <1>1, <1>5, <1>6

\* An operation that succeeds has done what it is for.
LEMMA OperationDone ==
    ASSUME NEW t \in Sound, NEW op \in CleanOps, NEW r, r = Effect(t, op), r.then # "fail"
    PROVE  /\ op.do = "mkdir"  => fs_is_dir(r.entries, op.path)
           /\ op.do = "create" => Exists(r.entries, op.path) /\ ~ fs_is_dir(r.entries, op.path)
           /\ op.do = "remove" => /\ ~ Exists(r.entries, op.path)
                                  /\ \A q \in Clean : Exists(t, q) /\ q # op.path /\ ~ IsBelow(q, op.path)
                                         => Exists(r.entries, q)
           /\ op.do = "copy"   => /\ Exists(r.entries, op.path) /\ Exists(r.entries, op.arg)
                                  /\ op.arg # op.path
           /\ op.do \notin {"write", "append"} => r.then = "sync"
<1>1. /\ op.do \in {"mkdir", "create", "write", "append", "remove", "copy", "sync"}
      /\ op.do # "sync" => op.path \in Clean
      /\ op.do = "copy" => op.arg \in Clean
  BY DEF CleanOps, Ops
<1>2. /\ op.do # "sync" => op.path \in Headed /\ op.path \in Named
      /\ op.do = "copy" => op.arg \in Headed
  BY <1>1, CleanHeaded, HeadedIs
<1>3. CASE op.do = "mkdir"
  <2>1. r = alloc(t, op.path, TRUE)
    BY <1>3 DEF Effect
  <2>2. PICK dir \in BOOLEAN : dir /\ r = alloc(t, op.path, dir)
    BY <2>1, Zenon
  <2>3. op.path \in Headed
    BY <1>2, <1>3
  <2>4. r.then = "sync" /\ fs_is_dir(r.entries, op.path)
    BY <2>2, <2>3, AllocDone
  <2> QED
    BY <1>3, <2>4
<1>4. CASE op.do = "create"
  <2>1. r = alloc(t, op.path, FALSE)
    BY <1>4 DEF Effect
  <2>2. PICK dir \in BOOLEAN : ~ dir /\ r = alloc(t, op.path, dir)
    BY <2>1, Zenon
  <2>3. op.path \in Headed
    BY <1>2, <1>4
  <2>4. r.then = "sync" /\ Exists(r.entries, op.path) /\ ~ fs_is_dir(r.entries, op.path)
    BY <2>2, <2>3, AllocDone
  <2> QED
    BY <1>4, <2>4
<1>5. CASE op.do = "remove"
  <2>1. r = remove(t, op.path)
    BY <1>5 DEF Effect
  <2>2. /\ r.then = "sync" /\ ~ Exists(r.entries, op.path)
        /\ \A q : Exists(t, q) /\ ~ Under(q, op.path) => Exists(r.entries, q)
    BY <1>2, <1>5, <2>1, RemoveDone
  <2> QED
    BY <1>5, <2>2 DEF Under
<1>6. CASE op.do = "copy"
  <2>1. r = copy(t, op.path, op.arg)
    BY <1>6 DEF Effect
  <2>2. t \in Tables
    BY DEF Sound, Trees
  <2>3. /\ Widens(t, r.entries) /\ r.then = "sync"
        /\ Exists(t, op.path) /\ ~ Exists(t, op.arg) /\ Exists(r.entries, op.arg)
    BY <1>2, <1>6, <2>1, <2>2, CopyCalm
  <2>4. Exists(r.entries, op.path)
    BY <2>3, WidensFinds
  <2> QED
    BY <1>6, <2>3, <2>4
<1>7. CASE op.do = "sync"
  BY <1>7 DEF Effect, Sync
<1>8. CASE op.do \in {"write", "append"}
  BY <1>8
<1> QED
  BY <1>1, <1>3, <1>4, <1>5, <1>6, <1>7, <1>8

-----------------------------------------------------------------------------
Working == {"mkdir", "create", "write", "append", "remove", "copy", "move"}

Writing     == Op("sync", <<>>, <<>>)
Removing(c) == Op("remove", c.path, <<>>)

\* The call of the command has not begun.
Waiting(c, td) ==
    \/ c.do = "move" /\ td = <<Op("copy", c.path, c.arg), Removing(c), Writing>>
    \/ /\ c.do # "move" /\ td # <<>> /\ Tail(td) = <<>>
       /\ Head(td).do = c.do /\ Head(td).path = c.path
       /\ c.do = "copy" => Head(td).arg = c.arg

\* A move is between its operations.
Halfway(c, td, t) ==
    /\ c.do = "move"
    /\ \/ td = <<Removing(c), Writing>> /\ Exists(t, c.arg) /\ c.arg # c.path
       \/ td = <<Writing>> /\ Achieved(c, t)

\* Its last operation is in the table, and on the disk when fs_sync has ended.
Ended(c, td, sy, res, t, disk) ==
    /\ td = <<>>
    /\ sy /\ Honest(c) => Achieved(c, t)
    /\ ~ sy /\ Honest(c) /\ res = 0 => Achieved(c, t) /\ disk = t

Serving(c, td, sy, res, t, disk) ==
    /\ c.do \in Working /\ c.path \in Clean /\ (c.do = "copy" \/ c.do = "move" => c.arg \in Clean)
    /\ \/ Waiting(c, td) /\ ~ sy
       \/ Halfway(c, td, t)
       \/ Ended(c, td, sy, res, t, disk)

ExitCommand == [None EXCEPT !.do = "exit"]

ShellInv ==
    /\ FileTreeInv /\ sectors \in Tables
    /\ \/ command \in {None, ExitCommand}
       \/ power = "on" /\ Serving(command, todo, syncing, result, entries, sectors)

\* A call begins with operations on clean paths.
LEMMA CallKeeps ==
    ASSUME FileTreeInv, NEW ops \in Seq(CleanOps), Call(ops)
    PROVE  FileTreeInv'
  BY DEF Call, Idle, FileTreeInv

LEMMA Lists ==
    ASSUME NEW a, NEW b, NEW c
    PROVE  /\ Head(<<a>>) = a /\ Tail(<<a>>) = <<>> /\ <<a>> # <<>>
           /\ Head(<<a, b>>) = a /\ Tail(<<a, b>>) = <<b>> /\ <<a, b>> # <<>>
           /\ Head(<<a, b, c>>) = a /\ Tail(<<a, b, c>>) = <<b, c>> /\ <<a, b, c>> # <<>>
<1>1. Len(<<a>>) = 1 /\ Len(<<a, b>>) = 2 /\ Len(<<a, b, c>>) = 3 /\ Len(<<>>) = 0
  OBVIOUS
<1>2. <<a>> # <<>> /\ <<a, b>> # <<>> /\ <<a, b, c>> # <<>>
  BY <1>1
<1> QED
  BY <1>2

\* A command of one operation begins.
LEMMA CommandBegins ==
    ASSUME ShellInv, NEW do \in Working \ {"move"}, NEW p \in Clean, NEW a, do = "copy" => a \in Clean,
           NEW arg, Op(do, p, arg) \in CleanOps, do = "copy" => arg = a,
           Begin(do, p, a), Call(<<Op(do, p, arg)>>)
    PROVE  ShellInv'
<1> DEFINE op == Op(do, p, arg)
<1>1. op.do = do /\ op.path = p /\ op.arg = arg
  BY DEF Op
<1> HIDE DEF op
<1>2. command'.do = do /\ command'.path = p /\ command'.arg = a
  BY DEF Begin
<1>3. /\ todo' = <<op>> /\ ~ syncing' /\ power' = "on" /\ sectors' = sectors
  BY DEF Call, Idle, op
<1>4. <<op>> \in Seq(CleanOps)
  BY DEF op
<1>5. FileTreeInv'
  BY <1>4, CallKeeps DEF ShellInv, op
<1>6. Waiting(command', todo')
  BY <1>1, <1>2, <1>3, Lists DEF Waiting
<1>7. Serving(command', todo', syncing', result', entries', sectors')
  BY <1>2, <1>3, <1>6 DEF Serving
<1> QED
  BY <1>3, <1>5, <1>7 DEF ShellInv

\* A move begins.
LEMMA MoveCommandBegins ==
    ASSUME ShellInv, NEW p \in Clean, NEW a \in Clean, Begin("move", p, a), fs_move(p, a)
    PROVE  ShellInv'
<1> DEFINE ops == <<Op("copy", p, a), Op("remove", p, <<>>), Op("sync", <<>>, <<>>)>>
<1>1. command'.do = "move" /\ command'.path = p /\ command'.arg = a
  BY DEF Begin
<1>2. /\ todo' = ops /\ ~ syncing' /\ power' = "on" /\ sectors' = sectors /\ Call(ops)
  BY DEF fs_move, Call, Idle
<1>3. ops \in Seq(CleanOps)
  <2>1. \A x \in CleanOps, y \in CleanOps, z \in CleanOps : <<x, y, z>> \in Seq(CleanOps)
    OBVIOUS
  <2> QED
    BY <2>1, CleanOp
<1>4. FileTreeInv'
  BY <1>2, <1>3, CallKeeps DEF ShellInv
<1>5. Waiting(command', todo')
  BY <1>1, <1>2 DEF Waiting, Removing, Writing
<1>6. Serving(command', todo', syncing', result', entries', sectors')
  BY <1>1, <1>2, <1>5 DEF Serving, Working
<1> QED
  BY <1>2, <1>4, <1>6 DEF ShellInv

\* The next operation of a command's call.
LEMMA CommandOperates ==
    ASSUME ShellInv, operate, command' = command, command \notin {None, ExitCommand}
    PROVE  power' = "on" /\ Serving(command', todo', syncing', result', entries', sectors')
<1> DEFINE c == command
           op == Head(todo)
           r == Effect(entries, op)
           Left == Serving(c, todo', syncing', result', entries', sectors')
<1>1. /\ power = "on" /\ Serving(c, todo, syncing, result, entries, sectors)
      /\ entries \in Sound /\ todo \in Seq(CleanOps) /\ result \in {0, -1}
  BY DEF ShellInv, FileTreeInv
<1>2. /\ todo # <<>> /\ ~ syncing /\ sectors' = sectors
      /\ entries' = r.entries
      /\ \/ r.then = "sync" /\ syncing' = TRUE /\ todo' = Tail(todo) /\ power' = "on" /\ result' = result
         \/ r.then # "sync" /\ End(r.then = "done", Tail(todo))
  BY <1>1 DEF operate
<1>3. op \in CleanOps
  BY <1>1, <1>2
<1>4. r = Effect(entries, op)
  OBVIOUS
<1>5. /\ c.do \in Working /\ c.path \in Clean /\ (c.do = "copy" \/ c.do = "move" => c.arg \in Clean)
      /\ Waiting(c, todo) \/ Halfway(c, todo, entries)
  BY <1>1, <1>2 DEF Serving, Ended
<1> HIDE DEF op, r
<1>6. power' = "on"
  BY <1>1, <1>2 DEF End
<1>7. ASSUME r.then = "fail" PROVE Left
  <2>1. todo' = <<>> /\ ~ syncing' /\ result' = -1
    BY <1>1, <1>2, <1>7 DEF End
  <2> QED
    BY <1>5, <2>1 DEF Serving, Ended
<1>8. ASSUME r.then # "fail", Waiting(c, todo), c.do # "move" PROVE Left
  <2>1. /\ Tail(todo) = <<>> /\ op.do = c.do /\ op.path = c.path /\ (c.do = "copy" => op.arg = c.arg)
    BY <1>8 DEF Waiting, op
  <2>2. todo' = <<>>
    BY <1>2, <2>1 DEF End
  <2>3. CASE ~ Honest(c)
    BY <1>5, <2>2, <2>3 DEF Serving, Ended
  <2>4. CASE Honest(c)
    <3>1. r.then = "sync"
      BY <1>1, <1>3, <1>4, <1>8, <2>1, <2>4, OperationDone DEF Honest
    <3>2. Achieved(c, r.entries)
      <4>1. c.do \in {"mkdir", "create", "remove", "copy"}
        BY <1>5, <1>8, <2>4 DEF Working, Honest
      <4>2. /\ c.do = "mkdir"  => fs_is_dir(r.entries, c.path)
            /\ c.do = "create" => Exists(r.entries, c.path) /\ ~ fs_is_dir(r.entries, c.path)
            /\ c.do = "remove" => ~ Exists(r.entries, c.path)
            /\ c.do = "copy"   => Exists(r.entries, c.path) /\ Exists(r.entries, c.arg)
        BY <1>1, <1>3, <1>4, <1>8, <2>1, OperationDone
      <4> QED
        BY <4>1, <4>2 DEF Achieved
    <3> QED
      BY <1>2, <1>5, <2>2, <3>1, <3>2 DEF Serving, Ended
  <2> QED
    BY <2>3, <2>4
<1>9. ASSUME r.then # "fail", Waiting(c, todo), c.do = "move" PROVE Left
  <2>1. op = Op("copy", c.path, c.arg) /\ Tail(todo) = <<Removing(c), Writing>>
    <3>1. PICK x, y, z : x = Op("copy", c.path, c.arg) /\ y = Removing(c) /\ z = Writing
      OBVIOUS
    <3>2. todo = <<x, y, z>>
      BY <1>9, <3>1 DEF Waiting
    <3>3. Head(<<x, y, z>>) = x /\ Tail(<<x, y, z>>) = <<y, z>>
      BY Lists
    <3>4. op = x /\ Tail(todo) = <<y, z>>
      BY <3>2, <3>3 DEF op
    <3> QED
      BY <3>1, <3>4
  <2>2. op.do = "copy" /\ op.path = c.path /\ op.arg = c.arg
    BY <2>1 DEF Op
  <2>3. r.then = "sync" /\ Exists(r.entries, c.arg) /\ c.arg # c.path
    BY <1>1, <1>3, <1>4, <1>9, <2>2, OperationDone
  <2>4. Halfway(c, todo', entries')
    BY <1>2, <1>9, <2>1, <2>3 DEF Halfway
  <2> QED
    BY <1>5, <2>4 DEF Serving
<1>10. ASSUME r.then # "fail", Halfway(c, todo, entries), todo = <<Removing(c), Writing>> PROVE Left
  <2>1. /\ op = Removing(c) /\ Tail(todo) = <<Writing>> /\ c.do = "move"
        /\ Exists(entries, c.arg) /\ c.arg # c.path
    <3>1. Len(<<Removing(c), Writing>>) = 2 /\ Len(<<Writing>>) = 1
      OBVIOUS
    <3>2. <<Removing(c), Writing>> # <<Writing>>
      BY <3>1
    <3> QED
      BY <1>10, <3>2, Lists DEF Halfway, op
  <2>2. op.do = "remove" /\ op.path = c.path
    BY <2>1 DEF Op, Removing
  <2>3. r.then = "sync" /\ ~ Exists(r.entries, c.path)
        /\ (IsBelow(c.arg, c.path) \/ Exists(r.entries, c.arg))
    BY <1>1, <1>3, <1>4, <1>5, <1>10, <2>1, <2>2, OperationDone
  <2>4. Achieved(c, r.entries)
    BY <2>1, <2>3 DEF Achieved
  <2>5. Halfway(c, todo', entries')
    BY <1>2, <2>1, <2>3, <2>4 DEF Halfway
  <2> QED
    BY <1>5, <2>5 DEF Serving
<1>11. ASSUME r.then # "fail", Halfway(c, todo, entries), todo = <<Writing>>, Achieved(c, entries)
       PROVE  Left
  <2>1. op.do = "sync" /\ Tail(todo) = <<>> /\ c.do = "move"
    BY <1>11, Lists DEF Halfway, op, Writing, Op
  <2>2. r.then = "sync" /\ r.entries = entries
    BY <1>4, <2>1 DEF Effect, Sync
  <2> QED
    BY <1>2, <1>5, <1>11, <2>1, <2>2 DEF Serving, Ended
<1>12. Halfway(c, todo, entries) =>
          todo = <<Removing(c), Writing>> \/ (todo = <<Writing>> /\ Achieved(c, entries))
  BY DEF Halfway
<1>13. Left
  BY <1>5, <1>7, <1>8, <1>9, <1>10, <1>11, <1>12
<1> QED
  BY <1>6, <1>13

\* What the file system does for a command, and what fails.
LEMMA CommandContinues ==
    ASSUME ShellInv, Continues \/ Fails
    PROVE  ShellInv'
<1>1. command' = command
  BY DEF Continues, Fails, svars
<1>2. FileTreeInv'
  <2>1. CASE Continues
    BY <2>1, FileTreeInvHolds DEF Continues, Steady, ShellInv
  <2>2. CASE sync_fails
    <3>1. <<>> \in Seq(CleanOps) /\ <<>> \in Seq(BootOps)
      OBVIOUS
    <3> QED
      BY <2>2, <3>1 DEF sync_fails, End, ShellInv, FileTreeInv
  <2> QED
    BY <2>1, <2>2 DEF Fails
<1>3. entries \in Tables /\ sectors \in Tables
  BY DEF ShellInv, FileTreeInv, Sound, Trees
<1>4. sectors' \in Tables
  <2>1. CASE write_sector
    <3>1. PICK k \in Files : IsWritten(sectors', entries, sectors, k)
      BY <2>1, SectorWritten
    <3> QED
      BY <1>3, <3>1, KeptWritten
  <2>2. CASE ~ write_sector
    BY <1>3, <2>2 DEF Continues, Fails, operate, sync_end, format, sync_fails
  <2> QED
    BY <2>1, <2>2
<1>5. CASE command \in {None, ExitCommand}
  BY <1>1, <1>2, <1>4, <1>5 DEF ShellInv
<1>6. CASE command \notin {None, ExitCommand}
  <2> DEFINE c == command
  <2>1. power = "on" /\ Serving(c, todo, syncing, result, entries, sectors)
    BY <1>6 DEF ShellInv
  <2>2. power' = "on" /\ Serving(c', todo', syncing', result', entries', sectors')
    <3>1. CASE operate
      BY <1>1, <1>6, <3>1, CommandOperates
    <3>2. CASE write_sector
      <4>1. /\ syncing /\ syncing' = syncing /\ entries' = entries /\ todo' = todo
            /\ power' = power /\ result' = result
        BY <3>2 DEF write_sector
      <4> QED
        BY <1>1, <2>1, <4>1 DEF Serving, Ended
    <3>3. CASE sync_end
      <4>1. /\ syncing /\ syncing' = FALSE /\ entries' = entries /\ todo' = todo
            /\ power' = "on" /\ sectors' = sectors
        BY <2>1, <3>3 DEF sync_end, End
      <4>2. sectors = entries
        BY <1>3, <3>3, NothingDiffers DEF sync_end
      <4> QED
        BY <1>1, <2>1, <4>1, <4>2 DEF Serving, Ended
    <3>4. CASE sync_fails
      <4>1. syncing' = FALSE /\ todo' = <<>> /\ power' = "on" /\ result' = -1
        BY <2>1, <3>4 DEF sync_fails, End
      <4> QED
        BY <1>1, <2>1, <4>1 DEF Serving, Ended
    <3> QED
      BY <2>1, <3>1, <3>2, <3>3, <3>4 DEF Continues, Fails, format
  <2> QED
    BY <1>2, <1>4, <2>2 DEF ShellInv
<1> QED
  BY <1>5, <1>6

\* What the user types.
LEMMA CommandTyped ==
    ASSUME ShellInv, PathsClean,
           \/ \E arg \in Args : mkdir(arg) \/ touch(arg) \/ rm(arg) \/ cd(arg)
           \/ \E arg \in Args, text \in Texts : write_file(arg, text) \/ append_file(arg, text)
           \/ \E pair \in Pairs : cp(pair[1], pair[2]) \/ mv(pair[1], pair[2])
           \/ exit \/ reply
    PROVE  ShellInv'
<1>1. ASSUME NEW arg \in Args, AtPrompt
      PROVE  /\ Resolved(arg) = Bad \/ Resolved(arg) \in Clean
             /\ Resolved(First(arg)) = Bad \/ Resolved(First(arg)) \in Clean
  BY <1>1 DEF PathsClean
<1>2. ASSUME NEW arg \in Args, mkdir(arg) \/ touch(arg) \/ rm(arg) PROVE ShellInv'
  <2> DEFINE p == Resolved(arg)
  <2>1. p # Bad /\ AtPrompt
    BY <1>2 DEF mkdir, touch, rm, Begin, fs_mkdir, fs_create, fs_remove, Call, AtPrompt
  <2>2. p \in Clean
    BY <1>1, <2>1
  <2>3. \/ Begin("mkdir", p, <<>>) /\ Call(<<Op("mkdir", p, <<>>)>>)
        \/ Begin("create", p, <<>>) /\ Call(<<Op("create", p, <<>>)>>)
        \/ Begin("remove", p, <<>>) /\ Call(<<Op("remove", p, <<>>)>>)
    BY <1>2 DEF mkdir, touch, rm, fs_mkdir, fs_create, fs_remove
  <2> HIDE DEF p
  <2> QED
    BY <2>2, <2>3, CommandBegins, CleanOp DEF Working
<1>3. ASSUME NEW arg \in Args, NEW text \in Texts, write_file(arg, text) \/ append_file(arg, text)
      PROVE  ShellInv'
  <2> DEFINE p == Resolved(First(arg))
  <2>1. p # Bad /\ AtPrompt
    BY <1>3 DEF write_file, append_file, Begin, fs_write, fs_append, Call, AtPrompt
  <2>2. p \in Clean
    BY <1>1, <2>1
  <2>3. \/ Begin("write", p, <<>>) /\ Call(<<Op("write", p, text)>>)
        \/ Begin("append", p, <<>>) /\ Call(<<Op("append", p, text)>>)
    BY <1>3 DEF write_file, append_file, fs_write, fs_append
  <2> HIDE DEF p
  <2> QED
    BY <2>2, <2>3, CommandBegins, CleanOp DEF Working
<1>4. ASSUME NEW pair \in Pairs, cp(pair[1], pair[2]) \/ mv(pair[1], pair[2]) PROVE ShellInv'
  <2> DEFINE p == Resolved(First(pair[1]))
             q == Resolved(pair[2])
  <2>1. pair[1] \in Args /\ pair[2] \in Args
    BY ShellAssumption
  <2>2. p # Bad /\ q # Bad /\ AtPrompt
    BY <1>4 DEF cp, mv, Begin, fs_copy, fs_move, Call, AtPrompt
  <2>3. p \in Clean /\ q \in Clean
    BY <1>1, <2>1, <2>2
  <2>4. \/ Begin("copy", p, q) /\ Call(<<Op("copy", p, q)>>)
        \/ Begin("move", p, q) /\ fs_move(p, q)
    BY <1>4 DEF cp, mv, fs_copy
  <2> HIDE DEF p, q
  <2> QED
    BY <2>3, <2>4, CommandBegins, MoveCommandBegins, CleanOp DEF Working
<1>5. ASSUME exit \/ reply \/ \E arg \in Args : cd(arg) PROVE ShellInv'
  <2>1. UNCHANGED vars /\ command' \in {None, ExitCommand}
    BY <1>5 DEF exit, reply, cd, AtPrompt, ExitCommand
  <2>2. FileTreeInv'
    BY <2>1, FileTreeInvHolds DEF ShellInv
  <2> QED
    BY <2>1, <2>2 DEF ShellInv, vars
<1> QED
  BY <1>2, <1>3, <1>4, <1>5

\* When a command says OK it is done, and on the disk, whatever writes of sectors have failed before:
\* for any table, names, texts and number of failures, as long as the paths that are typed
\* resolve to clean ones.
THEOREM OkCorrect == SSpec /\ []PathsClean => []OkIsDone
<1>1. SInit => ShellInv
  <2>1. <<>> \in Seq(CleanOps) /\ [i \in Files |-> Blank] \in Tables
    BY BlankTree DEF Trees
  <2> QED
    BY <2>1, BlankSound DEF SInit, Init, ShellInv, FileTreeInv, BlankTable
<1>2. ShellInv /\ PathsClean /\ [SNext]_<<vars, svars>> => ShellInv'
  <2>1. ASSUME ShellInv, PathsClean, SNext PROVE ShellInv'
    BY <2>1, CommandTyped, CommandContinues DEF SNext
  <2>2. ASSUME ShellInv, UNCHANGED <<vars, svars>> PROVE ShellInv'
    <3>1. FileTreeInv'
      BY <2>2, FileTreeInvHolds DEF ShellInv
    <3>2. /\ entries' = entries /\ sectors' = sectors /\ todo' = todo /\ syncing' = syncing
          /\ power' = power /\ result' = result /\ command' = command
      BY <2>2 DEF vars, svars
    <3> QED
      BY <2>2, <3>1, <3>2 DEF ShellInv
  <2> QED
    BY <2>1, <2>2
<1>3. ShellInv => OkIsDone
  <2> SUFFICES ASSUME ShellInv, Executed, Says = "OK", Honest(command)
               PROVE  sectors = entries /\ Achieved(command, entries)
    BY DEF OkIsDone, Honest, Achieved
  <2>1. result = 0
    BY DEF Says, Honest
  <2>2. todo = <<>> /\ ~ syncing /\ command \notin {None, ExitCommand}
    BY DEF Executed, Idle, ExitCommand
  <2>3. ~ Waiting(command, todo) /\ ~ Halfway(command, todo, entries)
    BY <2>2, Lists DEF Waiting, Halfway
  <2> QED
    BY <2>1, <2>2, <2>3 DEF ShellInv, Serving, Ended
<1> QED
  BY <1>1, <1>2, <1>3, PTL DEF SSpec
=============================================================================
