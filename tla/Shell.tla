------------------------------- MODULE Shell --------------------------------
(***************************************************************************)
(* The commands on files of the terminal, find_cmd of bin/terminal.c, with *)
(* the file system of kernel/fs.c below them, between two starts: the      *)
(* current directory, the paths that commands make of what is typed, and   *)
(* what is answered when the call of the file system has returned.         *)
(*                                                                         *)
(* A command whose path is bad prints so and changes nothing: it is no     *)
(* step.  Neither are ls, tree, cat and the completion of a name, which    *)
(* only show the table: they are operators.                                *)
(***************************************************************************)
EXTENDS FileSystem, Paths, FiniteSets

CONSTANTS
    Args,           \* the texts that users type where a command takes a path
    Pairs,          \* and those that cp and mv are given
    Typed,          \* the texts that they complete
    MaxFailures     \* bound: writes of sectors that fail

ASSUME ShellAssumption ==
    /\ Args \cup Typed \subseteq STRING /\ Pairs \subseteq Args \X Args
    /\ MaxFailures \in Nat

VARIABLES
    current_dir,    \* as the prompt shows it
    command,        \* the one that is being executed, or None
    failures        \* so far

svars == <<current_dir, command, failures>>

None == [do |-> "none", path |-> <<>>, arg |-> <<>>]

Resolved(arg) == fs_resolve_path(current_dir, arg)

\* What split_first_two_args leaves of the first of two arguments.
First(arg) == Clip(arg, FS_MAX_PATH - 1)

fs_is_dir(t, p) == p = Root \/ (Exists(t, p) /\ t[find_file(t, p)].is_dir)

-----------------------------------------------------------------------------
(* What the commands show.                                                 *)

\* The entries that ls prints, in its order.
list_dir(t, dir) ==
    SelectSeq([i \in Files |-> i], LAMBDA i : t[i].used /\ t[i].parent = dir)

\* Mutant: only the directory's own children are shown.
tree_dir_Flat(t, dir) == list_dir(t, dir)

\* The entries that tree prints.
tree_dir(t, dir) ==
    LET shown[d \in {dir} \cup {t[i].path : i \in Files}] ==
            Seqs!FlattenSeq([k \in DOMAIN list_dir(t, d) |->
                LET i == list_dir(t, d)[k]
                IN  <<i>> \o IF t[i].is_dir THEN shown[t[i].path] ELSE <<>>])
    IN  shown[dir]

\* Mutant: every command prints OK, as write and append do.
Says_Always == "OK"

\* What the command that has been executed prints.
Says == IF result = 0 \/ command.do \in {"write", "append"} THEN "OK" ELSE "Failed"

-----------------------------------------------------------------------------
AtPrompt == Idle /\ command = None

SInit == Init /\ current_dir = Root /\ command = None /\ failures = 0

Begin(do, p, arg) ==
    /\ command = None
    /\ p # Bad
    /\ command' = [do |-> do, path |-> p, arg |-> arg]
    /\ UNCHANGED <<current_dir, failures>>

mkdir(arg) == LET p == Resolved(arg) IN Begin("mkdir", p, <<>>) /\ fs_mkdir(p)
touch(arg) == LET p == Resolved(arg) IN Begin("create", p, <<>>) /\ fs_create(p)
rm(arg)    == LET p == Resolved(arg) IN Begin("remove", p, <<>>) /\ fs_remove(p)

write_file(arg, text) ==
    LET p == Resolved(First(arg)) IN Begin("write", p, <<>>) /\ fs_write(p, text)

append_file(arg, text) ==
    LET p == Resolved(First(arg)) IN Begin("append", p, <<>>) /\ fs_append(p, text)

cp(arg1, arg2) ==
    LET src == Resolved(First(arg1))
        dst == Resolved(arg2)
    IN  dst # Bad /\ Begin("copy", src, dst) /\ fs_copy(src, dst)

mv(arg1, arg2) ==
    LET src == Resolved(First(arg1))
        dst == Resolved(arg2)
    IN  dst # Bad /\ Begin("move", src, dst) /\ fs_move(src, dst)

cd(arg) ==
    /\ AtPrompt
    /\ LET p == Resolved(arg)
       IN  p # Bad /\ fs_is_dir(entries, p) /\ current_dir' = p
    /\ UNCHANGED <<vars, command, failures>>

\* The terminal's process ends; nothing starts another.
exit ==
    /\ AtPrompt
    /\ command' = [None EXCEPT !.do = "exit"]
    /\ UNCHANGED <<vars, current_dir, failures>>

Executed == Idle /\ command \notin {None, [None EXCEPT !.do = "exit"]}

\* The call has returned: the command prints what it says, and the prompt comes again.
reply ==
    /\ Executed
    /\ command' = None
    /\ UNCHANGED <<vars, current_dir, failures>>

Continues ==
    /\ operate \/ write_sector \/ sync_end \/ format
    /\ UNCHANGED svars

Fails ==
    /\ failures < MaxFailures
    /\ sync_fails
    /\ failures' = failures + 1
    /\ UNCHANGED <<current_dir, command>>

SNext ==
    \/ \E arg \in Args : mkdir(arg) \/ touch(arg) \/ rm(arg) \/ cd(arg)
    \/ \E arg \in Args, text \in Texts : write_file(arg, text) \/ append_file(arg, text)
    \/ \E pair \in Pairs : cp(pair[1], pair[2]) \/ mv(pair[1], pair[2])
    \/ exit
    \/ reply
    \/ Continues
    \/ Fails

SSpec == SInit /\ [][SNext]_<<vars, svars>>

-----------------------------------------------------------------------------
(* Properties.                                                             *)

\* What a command makes of an argument is a path for fs.c: it begins at the root, has no empty
\* component, no "." and no "..", and room for them all, wherever a cd has led.
PathsClean ==
    AtPrompt => \A arg \in Args : \A p \in {Resolved(arg), Resolved(First(arg))} \ {Bad} :
        /\ p \in Clean
        /\ Head(p) = "/" /\ Len(p) <= MAX_PARTS + 1
        /\ Seqs!ToSet(Tail(p)) \cap {"/", ".", ".."} = {}

Composes(dir) ==
    /\ fs_resolve_path(dir, Text(dir)) = dir
    /\ \A a \in Args, b \in {arg \in Args : Char(arg, 1) \notin {"/", " "}} :
          LET half  == fs_resolve_path(dir, a)
              whole == fs_resolve_path(dir, a \o "/" \o b)
          IN  half # Bad /\ whole # Bad => whole = fs_resolve_path(half, b)

\* Wherever a cd has led, paths are clean, cd to what pwd prints goes nowhere, and a path of two
\* parts leads where its parts lead one after the other: through "..", doubled slashes and names
\* that are split because they are too long.
PathsCompose ==
    /\ []PathsClean
    /\ [][current_dir' # current_dir => Composes(current_dir')]_svars

\* A name that is completed leads to the entry that it was completed from.  Excepted are the
\* paths that no command can name: those of the defaults of init_fs, and those that the copy of
\* a directory has cut, which are too long for fs_resolve_path or end in a slash.
CompletionLeads ==
    AtPrompt => \A text \in Typed : \A i \in Candidates(entries, current_dir, text) :
        /\ Candidates(entries, current_dir, text) = {i}
        /\ entries[i].path[1] = "/" /\ entries[i].path = Trim(entries[i].path)
        /\ Len(Text(entries[i].path)) + 1 < FS_MAX_PATH
        /\ Len(text) + FS_MAX_NAME < FS_MAX_PATH
        => Resolved(fs_complete(entries, current_dir, text)) = entries[i].path

\* fs_create does not ask that a parent be a directory, and tree_dir does not look below a file.
BelowFile(i) ==
    \E j \in Files : entries[j].used /\ ~ entries[j].is_dir
                                     /\ IsBelow(entries[i].path, entries[j].path)

\* tree from the root shows every entry once, and what is removed or moved away no more;
\* what stands below a file excepted.
TreeShowsAll ==
    AtPrompt =>
        LET shown == tree_dir(entries, Root)
        IN  \A i \in Files : Cardinality({k \in DOMAIN shown : shown[k] = i})
                                = IF entries[i].used /\ ~ BelowFile(i) THEN 1 ELSE 0

\* When a command says OK it is done, and on the disk; after failed writes too.  write and
\* append say it always; what is moved below itself, below a file, is lost.
OkIsDone ==
    LET p == command.path
    IN  Executed /\ Says = "OK" /\ command.do \notin {"write", "append"} =>
            /\ sectors = entries
            /\ CASE command.do = "mkdir"  -> fs_is_dir(entries, p)
                 [] command.do = "create" -> Exists(entries, p) /\ ~ fs_is_dir(entries, p)
                 [] command.do = "remove" -> ~ Exists(entries, p)
                 [] command.do = "copy"   -> Exists(entries, p) /\ Exists(entries, command.arg)
                 [] command.do = "move"   ->
                      IsBelow(command.arg, p)
                        \/ (~ Exists(entries, p) /\ Exists(entries, command.arg))
=============================================================================
