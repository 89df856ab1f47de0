------------------------------ MODULE FsDurable ------------------------------
(***************************************************************************)
(* What the file system of n7OS promises across power losses and failed    *)
(* writes: FileSystem with history variables that no action of it reads.   *)
(***************************************************************************)
EXTENDS FileSystem

CONSTANT MaxFaults      \* bound: power losses and failed writes

ASSUME MaxFaultsAssumption == MaxFaults \in Nat

VARIABLES
    faults,     \* the number of them so far
    stable,     \* what the last fs_sync that ended wrote and nothing changed since
    moving      \* what fs_move is moving, each thing at its old and at its new path

dvars == <<vars, faults, stable, moving>>

\* What an entry is for its users: nothing shows the bytes of a directory, where a torn write
\* can have left those of the file that was there.
Thing(t, i) == [path |-> t[i].path, is_dir |-> t[i].is_dir,
                text |-> IF t[i].is_dir THEN <<>> ELSE Bytes(t[i])]

\* The entries that are found by their paths: not those that another one hides.
Visible(t) == {i \in Files : t[i].used /\ find_file(t, t[i].path) = i}

\* What the users of a table find in it, and what they find in one and, in the same entry, in
\* another.
Things(t)  == {Thing(t, i) : i \in Visible(t)}
Lasting(t, u) == {Thing(t, i) : i \in {j \in Visible(t) \cap Visible(u) : Thing(t, j) = Thing(u, j)}}

NotMoving == [from |-> {}, src |-> <<>>, dst |-> <<>>, regular |-> TRUE]

\* Where a copy from src to dst puts what is at p, a name at a time: the code cuts each path
\* that would be too long.
Place(src, dst, p) ==
    LET place[k \in Len(src) .. Len(p)] ==
            IF k = Len(src) THEN dst
            ELSE build_child_path(place[k - 1], fs_path_name(SubSeq(p, 1, k)))
    IN  place[Len(p)]

Moved(thing) == [thing EXCEPT !.path = Place(moving.src, moving.dst, @)]

\* The entries that a call of fs_move takes.
Carried(src) ==
    IF Exists(entries, src) THEN Family(entries, find_file(entries, src)) ELSE {}

\* No file is a parent among them, or becomes one; no torn write has left an entry with
\* another parent or name than its path has; and no path ends in a slash.
IsRegular(src, dst) ==
    \A i \in Carried(src) :
        /\ entries[i].path = Trim(entries[i].path)
        /\ entries[i].parent = fs_parent_path(entries[i].path)
        /\ entries[i].name = fs_path_name(entries[i].path)
        /\ ~ entries[i].is_dir =>
              /\ \A j \in Carried(src) : entries[j].parent # entries[i].path
              /\ ~ IsBelow(dst, entries[i].path)

Moves(src, dst) ==
    /\ fs_move(src, dst)
    /\ moving' = [from |-> {Thing(entries, i) : i \in Carried(src)} \cap stable,
                  src |-> src, dst |-> dst, regular |-> IsRegular(src, dst)]
    /\ UNCHANGED <<faults, stable>>

Calls ==
    /\ \/ \E p \in UserPaths : fs_mkdir(p) \/ fs_create(p) \/ fs_remove(p)
       \/ \E p \in UserPaths, text \in Texts : fs_write(p, text) \/ fs_append(p, text)
       \/ \E src, dst \in UserPaths : fs_copy(src, dst)
    /\ UNCHANGED <<faults, stable, moving>>

\* An operation gives up the promise of what it takes out of the table, even if an entry that
\* it hid shows the same afterwards, and fs_sync makes it of all that is there.
Works ==
    /\ \/ operate /\ stable' = stable \cap Lasting(entries, entries')
       \/ sync_end /\ stable' = Things(entries)
       \/ write_sector /\ UNCHANGED stable
    /\ moving' = IF todo' = <<>> /\ ~ syncing' THEN NotMoving ELSE moving
    /\ UNCHANGED faults

\* Nothing that happens to the machine takes a promise back.
Starts ==
    /\ sys_shutdown \/ load \/ format
    /\ UNCHANGED <<faults, stable, moving>>

\* A removal that a torn write has made endless.
Overruns ==
    /\ overrun
    /\ moving' = NotMoving
    /\ UNCHANGED <<faults, stable>>

Faults ==
    /\ faults < MaxFaults
    /\ power_loss \/ sync_fails
    /\ faults' = faults + 1
    /\ moving' = NotMoving
    /\ UNCHANGED stable

DInit == Init /\ faults = 0 /\ stable = {} /\ moving = NotMoving

DNext ==
    \/ Calls
    \/ \E src, dst \in UserPaths : Moves(src, dst)
    \/ Works
    \/ Starts
    \/ Overruns
    \/ Faults

DSpec == DInit /\ [][DNext]_dvars

-----------------------------------------------------------------------------

\* The "FS persistant" of init_fs: what an fs_sync has written stays on the disk,
\* and in memory after the next start, until an operation changes it: neither a power loss
\* in the middle of another fs_sync, nor one that fails, nor the operation after it loses
\* it.
Durable ==
    /\ stable \subseteq Things(sectors)
    /\ power = "on" => stable \subseteq Things(entries)

Safe(things) == \A x \in things : {x, Moved(x)} \cap Things(sectors) # {}

\* Whenever the power goes or a write fails, all that a move takes is on the disk, at its
\* old path or at its new one, which is cut where it would be too long; unless a file is a
\* parent, a torn write has changed a parent or a name, or a path ends in a slash.
MoveKeeps == moving.regular => Safe(moving.from)
==============================================================================
