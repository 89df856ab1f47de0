------------------------------ MODULE FileSystem ------------------------------
(***************************************************************************)
(* The file system of n7OS: kernel/fs.c, a table of entries in memory that *)
(* every operation writes through, whole, to the disk; and the sectors of  *)
(* kernel/ata.c it is written to.                                          *)
(*                                                                         *)
(* One process uses it, the terminal, and nothing else reads the sectors:  *)
(* what an operation does in memory is one step, and each write of sectors *)
(* that changes the disk is a step of its own, before which a write may    *)
(* fail or the power go.                                                   *)
(*                                                                         *)
(* Paths and their names are those of PathNames, with their lengths.       *)
(***************************************************************************)
EXTENDS PathNames

CONSTANTS
    FS_MAX_FILES,   \* entries of the table (64 in the code)
    FS_MAX_DATA,    \* bytes of an entry's data, the final NUL included (4096)
    WHOLE_DATA,     \* bytes of it that are always in the sector of its size (80)
    UserPaths,      \* the paths that users name, as fs_resolve_path returns them
    Scraps,         \* what a write that was torn can have left in a parent or in a name
    Texts,          \* the texts that they write
    Events          \* what may befall the machine, among AllEvents

AllEvents == {"shutdown", "power_loss", "write_error", "read_error"}

Files == 1 .. FS_MAX_FILES
Data  == Seq(STRING)

ASSUME FsAssumption ==
    /\ FS_MAX_FILES \in Nat \ {0}
    /\ {FS_MAX_DATA, WHOLE_DATA} \subseteq Nat \ {0}
    /\ UserPaths \subseteq Clean
    /\ Scraps \subseteq Named
    /\ Texts \subseteq Data
    /\ Events \subseteq AllEvents

\* The literals below are strings: no backend of the prover takes it for granted.
ASSUME LiteralAssumption ==
    /\ {"", "/", "home", "user", "readme.txt", "hello.txt"} \subseteq Strings
    /\ {"Bienvenue", "Hello"} \subseteq STRING

Entries == [used : BOOLEAN, is_dir : BOOLEAN, path : Paths, parent : Paths,
            name : Named, size : 0 .. FS_MAX_DATA - 1, data : Data]
Tables  == [Files -> Entries]
Blank   == [used |-> FALSE, is_dir |-> FALSE, path |-> <<>>, parent |-> <<>>,
            name |-> <<"">>, size |-> 0, data |-> <<>>]

\* The fields in the order of their bytes, in the groups that a sector boundary can
\* separate.  An entry has 4268 bytes, so it may also fall inside a parent, a name or the data:
\* behind its first 8, 4 or WHOLE_DATA bytes.
Groups == <<{"used", "is_dir", "path"}, {"parent"}, {"name", "size"}, {"data"}>>

VARIABLES
    entries,    \* fs_disk.entries, in memory
    sectors,    \* the same on the disk
    magic,      \* the first sector holds FS_MAGIC and FS_VERSION
    todo,       \* the operations of the call in progress that have not begun
    syncing,    \* fs_sync is writing, for the operation that has
    power,      \* "off", "boot" (the defaults of init_fs are being created) or "on"
    result      \* of the call so far: 0 or -1

vars == <<entries, sectors, magic, todo, syncing, power, result>>

-----------------------------------------------------------------------------
(* The table.                                                              *)

Least(S) == CHOOSE i \in S : \A j \in S : i <= j

Having(t, p) == {i \in Files : t[i].used /\ t[i].path = p}

\* find_file, with 0 for not found.
find_file(t, p) == IF Having(t, p) = {} THEN 0 ELSE Least(Having(t, p))

Exists(t, p) == find_file(t, p) # 0

Free(t) == {i \in Files : ~ t[i].used}

\* The table after an operation, and how it goes on.
Sync(t) == [entries |-> t, then |-> "sync"]
Fail(t) == [entries |-> t, then |-> "fail"]
Done(t) == [entries |-> t, then |-> "done"]

CanAlloc(t, p) ==
    /\ p # Root
    /\ ~ Exists(t, p)
    /\ fs_parent_path(p) = Root \/ Exists(t, fs_parent_path(p))
    /\ Free(t) # {}

\* The table with a new entry; alloc_file and alloc_dir where CanAlloc holds.
New(t, p, dir) ==
    [t EXCEPT ![Least(Free(t))] =
        [used |-> TRUE, is_dir |-> dir, path |-> p, parent |-> fs_parent_path(p),
         name |-> fs_path_name(p), size |-> 0, data |-> <<>>]]

alloc(t, p, dir) == IF CanAlloc(t, p) THEN Sync(New(t, p, dir)) ELSE Fail(t)

Fill(t, i, text) == [t EXCEPT ![i].data = text, ![i].size = Len(text)]

\* The bytes of a file, "" being one that no write has set.
Bytes(file) == [k \in 1 .. file.size |-> IF k <= Len(file.data) THEN file.data[k] ELSE ""]

\* The part of text that fits in so many bytes.
Cut(text, room) == SubSeq(text, 1, IF Len(text) < room THEN Len(text) ELSE room)

\* The table in which write and append find their file: that of p, or a new one.
Opened(t, p) ==
    IF Exists(t, p) /\ ~ t[find_file(t, p)].is_dir THEN Sync(t) ELSE alloc(t, p, FALSE)

write(t, p, text) ==
    LET open == Opened(t, p)
        i    == find_file(open.entries, p)
    IN  IF open.then = "fail" THEN open
        ELSE Sync(Fill(open.entries, i, Cut(text, FS_MAX_DATA - 1)))

append(t, p, text) ==
    LET open == Opened(t, p)
        i    == find_file(open.entries, p)
        file == open.entries[i]
        room == FS_MAX_DATA - 1 - file.size
    IN  IF open.then = "fail" THEN open
        ELSE IF room <= 0 THEN Done(open.entries)
        ELSE Sync(Fill(open.entries, i, Bytes(file) \o Cut(text, room)))

\* The entry of index i, those whose parent is one of them, and so on to a depth.
Kin(t, i) ==
    LET kin[depth \in 0 .. FS_MAX_FILES] ==
            IF depth = 0 THEN {i}
            ELSE LET paths == {t[k].path : k \in kin[depth - 1]}
                 IN  {j \in Files : j = i \/ (t[j].used /\ t[j].parent \in paths)}
    IN  kin

Family(t, i) == Kin(t, i)[FS_MAX_FILES]

\* An entry of the family is below itself, by a parent that a torn write has left:
\* remove_entry_recursive_idx calls itself until its stack has run over.
Endless(t, i) ==
    \E j \in Family(t, i) : t[j].used /\ \E k \in Family(t, j) : t[j].parent = t[k].path

\* Mutant: the entries below a directory are left.
remove_Alone(t, p) ==
    IF Exists(t, p) THEN Sync([t EXCEPT ![find_file(t, p)] = Blank]) ELSE Fail(t)

remove(t, p) ==
    IF Exists(t, p)
    THEN Sync([i \in Files |-> IF i \in Family(t, find_file(t, p)) THEN Blank ELSE t[i]])
    ELSE Fail(t)

\* copy_entry_recursive_idx(src, dst) on the table t, the calls that it makes being below.
CopyCalls == [t : Tables, src : Files, dst : Named]

\* After so many iterations of the loop over the children of the directory src.
CopyLoop(below, a, made) ==
    LET loop[i \in 0 .. FS_MAX_FILES] ==
            IF i = 0 THEN made
            ELSE LET out == loop[i - 1]
                     kid == out.entries[i]
                 IN  IF out.then = "fail" \/ ~ (kid.used /\ kid.parent = a.t[a.src].path) THEN out
                     ELSE below[[t |-> out.entries, src |-> i,
                                 dst |-> build_child_path(a.dst, kid.name)]]
    IN  loop

CopyEntry(below, a) ==
    LET from == a.t[a.src]
        made == alloc(a.t, a.dst, from.is_dir)
        copy == find_file(made.entries, a.dst)
    IN  IF made.then = "fail" THEN made
        ELSE IF from.is_dir THEN CopyLoop(below, a, made)[FS_MAX_FILES]
        ELSE Sync(Fill(made.entries, copy, Bytes(from)))

\* Calls never nest deeper than the table is long: each but the innermost has taken a free
\* entry, and src is one that is not free.
copy_entry_recursive_idx[depth \in 0 .. FS_MAX_FILES] ==
    [a \in CopyCalls |-> IF depth = 0 THEN Fail(a.t)
                         ELSE CopyEntry(copy_entry_recursive_idx[depth - 1], a)]

\* Mutant: what is below a directory is not copied.
copy_Shallow(t, src, dst) ==
    IF Exists(t, src) THEN alloc(t, dst, t[find_file(t, src)].is_dir) ELSE Fail(t)

copy(t, src, dst) ==
    IF Exists(t, src) /\ ~ Exists(t, dst)
    THEN copy_entry_recursive_idx[FS_MAX_FILES][[t |-> t, src |-> find_file(t, src), dst |-> dst]]
    ELSE Fail(t)

\* What one operation does in memory.
Effect(t, op) ==
    CASE op.do = "mkdir"  -> alloc(t, op.path, TRUE)
      [] op.do = "create" -> alloc(t, op.path, FALSE)
      [] op.do = "write"  -> write(t, op.path, op.arg)
      [] op.do = "append" -> append(t, op.path, op.arg)
      [] op.do = "remove" -> remove(t, op.path)
      [] op.do = "copy"   -> copy(t, op.path, op.arg)
      [] op.do = "sync"   -> Sync(t)

Op(do, p, arg) == [do |-> do, path |-> p, arg |-> arg]

\* What init_fs creates on a disk it cannot load.
Defaults == <<Op("mkdir",  <<"home">>, <<>>),
              Op("mkdir",  <<"home", "user">>, <<>>),
              Op("create", <<"readme.txt">>, <<>>),
              Op("write",  <<"readme.txt">>, <<"Bienvenue">>),
              Op("create", <<"hello.txt">>, <<>>),
              Op("write",  <<"hello.txt">>, <<"Hello">>),
              Op("sync",   <<>>, <<>>)>>

-----------------------------------------------------------------------------

Init ==
    /\ entries = [i \in Files |-> Blank]
    /\ sectors = [i \in Files |-> Blank]
    /\ magic = FALSE
    /\ todo = <<>>
    /\ syncing = FALSE
    /\ power = "off"
    /\ result = 0

\* The calls of the terminal.
Idle == power = "on" /\ todo = <<>> /\ ~ syncing

Call(ops) ==
    /\ Idle
    /\ todo' = ops
    /\ result' = 0
    /\ UNCHANGED <<entries, sectors, magic, syncing, power>>

fs_mkdir(p)        == Call(<<Op("mkdir", p, <<>>)>>)
fs_create(p)       == Call(<<Op("create", p, <<>>)>>)
fs_write(p, text)  == Call(<<Op("write", p, text)>>)
fs_append(p, text) == Call(<<Op("append", p, text)>>)
fs_remove(p)       == Call(<<Op("remove", p, <<>>)>>)
fs_copy(src, dst)  == Call(<<Op("copy", src, dst)>>)

\* Mutant: the original is removed before it is copied.
fs_move_RemoveFirst(src, dst) ==
    Call(<<Op("remove", src, <<>>), Op("copy", src, dst), Op("sync", <<>>, <<>>)>>)

fs_move(src, dst) ==
    Call(<<Op("copy", src, dst), Op("remove", src, <<>>), Op("sync", <<>>, <<>>)>>)

\* An operation ends: its call goes on if it succeeded, init_fs in any case.
End(ok, rest) ==
    /\ syncing' = FALSE
    /\ todo' = IF ok \/ power = "boot" THEN rest ELSE <<>>
    /\ power' = IF power = "boot" /\ rest = <<>> THEN "on" ELSE power
    /\ result' = IF ok THEN 0 ELSE -1

\* The next operation is a removal that never returns.
IsEndless ==
    /\ todo # <<>> /\ ~ syncing
    /\ Head(todo).do = "remove" /\ Exists(entries, Head(todo).path)
    /\ Endless(entries, find_file(entries, Head(todo).path))

\* The next operation of the call changes the table, and begins fs_sync unless it
\* fails or has nothing to write.
operate ==
    /\ todo # <<>> /\ ~ syncing /\ ~ IsEndless
    /\ LET out == Effect(entries, Head(todo))
       IN  /\ entries' = out.entries
           /\ \/ /\ out.then = "sync"
                 /\ syncing' = TRUE
                 /\ todo' = Tail(todo)
                 /\ UNCHANGED <<power, result>>
              \/ /\ out.then # "sync"
                 /\ End(out.then = "done", Tail(todo))
    /\ UNCHANGED <<sectors, magic>>

\* Mutant: the last sector, which the table fills in part, is not counted.
Differing_RoundedDown == {c \in Files \X DOMAIN Groups :
                 /\ c # <<FS_MAX_FILES, Len(Groups)>>
                 /\ \E f \in Groups[c[2]] : entries[c[1]][f] # sectors[c[1]][f]}

\* Where the disk differs from the table; writing the other sectors changes nothing.
Differing == {c \in Files \X DOMAIN Groups :
                 \E f \in Groups[c[2]] : entries[c[1]][f] # sectors[c[1]][f]}

\* The texts that begin with the same n bytes as p: what p becomes when no more of it than
\* that is certain to be written, over bytes that anything may have left.
Torn(p, n) == {q \in Scraps \cup {p} : q = p \/ (p # <<>> /\ Clipped(q, n) = Clipped(p, n))}

\* The first bytes of a text over an older one, WHOLE_DATA of them at least.
Over(new, old) ==
    {new} \cup {SubSeq(new, 1, n) \o SubSeq(old, n + 1, Len(old)) : n \in WHOLE_DATA .. Len(new)}

\* What a field can hold when sectors have been written up to a place inside of it.
Partly(new, old, f) ==
    CASE new[f] = old[f] -> {new[f]}
      [] f = "parent"    -> Torn(new.parent, 8)
      [] f = "name"      -> {old.name} \cup Torn(new.name, 4)
      [] f = "size"      -> {old.size}
      [] f = "data"      -> Over(new.data, old.data)

\* What the sectors up to the end of a group, and perhaps a part of the next one, make of old.
Written(new, old, group) ==
    LET next   == Groups[IF group = Len(Groups) THEN group ELSE group + 1]
        Can(f) == CASE f \in next                             -> Partly(new, old, f)
                    [] \E g \in 1 .. group : f \in Groups[g] -> {new[f]}
                    [] OTHER                                 -> {old[f]}
    IN  [used : Can("used"), is_dir : Can("is_dir"), path : Can("path"), parent : Can("parent"),
         name : Can("name"), size : Can("size"), data : Can("data")]

FirstOf(S) == CHOOSE c \in S : \A d \in S : c[1] < d[1] \/ (c[1] = d[1] /\ c[2] <= d[2])

write_sector ==
    /\ syncing
    /\ Differing # {}
    /\ LET i == FirstOf(Differing)[1]
       IN  \E group \in FirstOf(Differing)[2] .. Len(Groups) :
              \E entry \in Written(entries[i], sectors[i], group) :
                  sectors' = [sectors EXCEPT ![i] = entry]
    /\ magic' = TRUE
    /\ UNCHANGED <<entries, todo, syncing, power, result>>

sync_end ==
    /\ syncing
    /\ Differing = {}
    /\ magic' = TRUE
    /\ End(TRUE, todo)
    /\ UNCHANGED <<entries, sectors>>

\* ata_write_sector gives up.
sync_fails ==
    /\ "write_error" \in Events
    /\ syncing
    /\ End(FALSE, todo)
    /\ UNCHANGED <<entries, sectors, magic>>

Off == power' = "off" /\ entries' = [i \in Files |-> Blank]
                      /\ todo' = <<>> /\ syncing' = FALSE /\ result' = 0
                      /\ UNCHANGED <<sectors, magic>>

sys_shutdown == "shutdown" \in Events /\ Idle /\ Off

power_loss == "power_loss" \in Events /\ power # "off" /\ Off

\* Nothing returns from the removal: the machine has to be started again.
overrun == IsEndless /\ Off

\* init_fs finds a table on the disk.
load ==
    /\ power = "off" /\ magic
    /\ entries' = sectors
    /\ power' = "on"
    /\ UNCHANGED <<sectors, magic, todo, syncing, result>>

\* init_fs finds none, or cannot read a sector.
format ==
    /\ power = "off" /\ (magic => "read_error" \in Events)
    /\ entries' = [i \in Files |-> Blank]
    /\ todo' = Defaults
    /\ power' = "boot"
    /\ UNCHANGED <<sectors, magic, syncing, result>>

\* From the first start on, as long as the power stays on and no write fails.
Steady ==
    \/ \E p \in UserPaths : fs_mkdir(p) \/ fs_create(p) \/ fs_remove(p)
    \/ \E p \in UserPaths, text \in Texts : fs_write(p, text) \/ fs_append(p, text)
    \/ \E src, dst \in UserPaths : fs_copy(src, dst) \/ fs_move(src, dst)
    \/ operate
    \/ write_sector
    \/ sync_end
    \/ format

SteadySpec == Init /\ [][Steady]_vars

Next == Steady \/ load \/ sys_shutdown \/ power_loss \/ overrun \/ sync_fails

Spec == Init /\ [][Next]_vars

-----------------------------------------------------------------------------
(* Properties.                                                             *)

\* The table is a tree: no two entries have the same path, so that what find_file finds is the
\* file, and the parent of an entry is the root or an entry.  It holds in memory, where a remove
\* takes the whole family in one step, and between two starts.
TableIsTree ==
    \A i \in Files : entries[i].used
        => /\ find_file(entries, entries[i].path) = i
           /\ entries[i].parent = fs_parent_path(entries[i].path)
           /\ entries[i].name = fs_path_name(entries[i].path)
           /\ entries[i].parent = Root \/ Exists(entries, entries[i].parent)

\* What the table shows of an entry, and of all of them.  No text is as long as Directory.
Directory == [k \in 1 .. FS_MAX_DATA |-> ""]
Shape(it) == IF it.is_dir THEN Directory ELSE Bytes(it)
Seen(t)   == [p \in {t[i].path : i \in Files \ Free(t)} |-> Shape(t[find_file(t, p)])]

\* The operation that comes next, unless the one before it is being written.
Request == IF syncing \/ todo = <<>> THEN <<>> ELSE Head(todo)

\* fs.c implements the abstract tree between two starts (SteadySpec): the table is read as a
\* function from the paths of its entries, and a step that takes an operation of a call
\* has the whole effect of that operation, or fails and has none.
T == INSTANCE FileTree WITH
         Dir     <- Directory,
         Room    <- FS_MAX_DATA - 1,
         request <- Request,
         tree    <- Seen(entries),
         status  <- result

ImplementsFileTree == T!TSpec
=============================================================================
