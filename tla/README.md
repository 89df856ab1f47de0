# n7OS in TLA+

n7OS is a small 32-bit x86 kernel: a boot thread sets up the console, paging,
interrupts, the process table, a disk and a RAM file system written through to it,
then starts a first process; a round-robin scheduler driven by the timer interrupt
runs processes, which use ten system calls, read the keyboard through a ring buffer,
and offer a terminal and a game. This directory holds TLA+ models translated from its
C and assembly sources, TLC runs that check them on small instances, and proofs
checked by TLAPS that hold for instances of every size.

## 1. Inventory

| Component | Source | State | Operations |
|---|---|---|---|
| Process table, scheduler | `kernel/proc.c`, `ctx_sw.S`, `idle.c` | `procs_table[255]`: state, stack, wake-up time, five saved registers | `spawn_proc`, `terminate_proc`, `sleep_proc`, `stop_proc`, `scheduler`, `ctx_sw` |
| Timer | `kernel/timer.c` | `timer_ticks`, 32 bits unsigned, 1000 per second | `timer_handler` (every 100th tick preempts), `get_ticks`, `get_time` |
| System calls | `kernel/sys.c`, `handler_syscall.S`, `lib/*.c` wrappers | the table of handlers | write, sleep, getpid, exit, read, fork, kill, time, shutdown, example |
| Boot thread | `kernel/start.c`, `boot/crt0.S` | where it is | initialisations in a fixed order, one `spawn_proc`, then an endless jump |
| Keyboard | `kernel/keyboard.c`, `lib/scanf.c` | `buffer[256]`, two indices, shift and E0 flags, the interrupt mask | `keyboard_handler`, `kgetch`, `getchar`, `sys_read`, `init_keyboard`, `mask_keyboard` |
| File system | `kernel/fs.c` | `fs_disk`: 64 entries (path, parent, name, data) and its image on disk | create, mkdir, write, append, read, remove, copy, move, resolve, complete, sync, load |
| Disk | `kernel/ata.c` | the sectors | read and write a sector, with bounded waits |
| Console, banner | `kernel/console.c`, `banner.c` | screen cells, `cursor_pos` | putchar, cursor moves, scrolling; the banner drawn by the timer interrupt |
| Memory | `kernel/mem.c`, `paging.c`, `kheap.c`, `sbrk.c` | page bitmap, page directory and tables, two bump pointers | `setPage`, `clearPage`, `findfreePage`, `initialise_paging`, `kmalloc*`, `sbrk` |
| Terminal | `bin/terminal.c`, `processus1.c` | line, cursor, history, draft, current directory | line editing, completion, commands |
| Snake | `bin/snake.c` | snake, food, direction, score | input, move, eat, collide |
| C library | `lib/` | the rest of `strtok`, the buffer of a `printf` | strings, conversions of numbers, formatted output |
| Heap | `lib/malloc.c`, `sbrk.c` | bins, fastbins, top and the words of each chunk | `malloc`, `free`, `realloc`, `calloc`, `memalign`, `independent_*`, `mallopt`, trimming |
| Interrupt tables, diagnostics | `irq.c`, `it_handler.c`, `handlers.S`, `processor_structs.c`, `panic.c`, `debugger.c` | the gates, the controller's masks | filled once at boot; the keyboard's mask changes |

How they interact. The boot thread sets up the memory, the gates and the
process table before it lets interrupts come. The timer interrupt draws the banner
(console) and every 100th time calls the scheduler; system calls call the process table,
the console and the keyboard; `malloc` takes the stacks of `spawn_proc` from `sbrk`; what
processes print goes through `printf`'s buffer and a system call; the terminal makes paths
of what is typed, calls the file system and reads the keyboard buffer directly; the file
system calls the disk.
There is one processor. Interrupt and system-call gates are interrupt gates
(`TYPE_INT32_GATE`, `include/n7OS/irq.h`): a handler runs with interrupts disabled
unless it executes `sti`, which only `scheduler` (before `ctx_sw`) and `sys_read` do.
Code that calls kernel functions directly (the boot thread, `kgetch` in the terminal
and in snake, the file system) runs with interrupts enabled.

What is hard: the interleaving of interrupts with code that runs with interrupts
enabled; the window between `sti` and `ctx_sw`; bookkeeping that must survive any
sequence of forks, exits, kills and sleeps; tick arithmetic; a ring buffer shared
without a lock; a power loss between two sector writes; errors half way through
copies and moves. `PROJECT.json` lists every hazard at its line.

What makes each component correct: the table agrees with the processor, saved contexts belong to
their processes, no process starves or is passed twice, sleeps have their length (process table,
timer); the buffer is a queue and masking leaves nothing behind (keyboard); the entries form a
tree, and what has been written to the disk stays there until it is changed (file system); what
a process prints does not depend on the banner (console); an interrupt that can come finds what
its handler uses (boot); no page is mapped twice, or where something else is (memory) and no
byte handed out twice (heap); the line displayed is the line kept, a path leads where its parts
lead, and OK means done (terminal); the snake is a path on the board (snake); a number that is
printed is read as the same number, and a search finds the first place (library).

## 2. Modules

| Module | Models |
|---|---|
| `Proc` | `proc.c`, `ctx_sw.S`, `timer.c`, the process calls of `sys.c`, the boot thread |
| `Multitask` | what the process manager promises, without table, registers or interrupts |
| `ProcSleep` | `Proc` with an independent clock of what each sleep still owes |
| `ProcTurns` | `Proc` with the slots elected while a process waits |
| `Proc_proofs` | theorems about these four |
| `Keyboard` | `keyboard.c`, `getchar`, `sys_read`, the keyboard controller (external) |
| `Fifo` | what the keyboard buffer promises: a bounded queue that can be cleared |
| `Keyboard_proofs` | theorems about `Keyboard` with `Fifo` |
| `PathNames` | paths, their names and parents, and what `build_child_path` cuts of one that is too long |
| `FileSystem` | `fs.c` and the sectors of `ata.c` |
| `FileTree` | what the file system promises between two starts: a tree of names |
| `FsDurable` | `FileSystem` with what has been promised to be on the disk, across power losses |
| `FileSystem_proofs` | theorems about `FileSystem`, about `FsDurable`, and about `Shell` |
| `Screen` | the text screen of `console.c` as operators on cells and cursor |
| `Console` | `console.c` under the timer interrupt that runs `banner.c`, `sys_write` |
| `Display` | what the console promises to the process that prints: calls that happen at once, no banner |
| `Screen_proofs` | lemmas about `Screen` that the next theorems share |
| `Console_proofs` | theorems about `Console` with `Display` |
| `LineEditor` | `read_line` of `terminal.c` with its history and completion, and the loop of `terminal()` |
| `Paths` | `fs_resolve_path` and `fs_complete` as operators on texts |
| `Shell` | the commands on files of `find_cmd`, on top of `FileSystem` and `Paths` |
| `Snake` | `snake.c` |
| `Terminal_proofs` | theorems about `LineEditor`, and about `Snake` |
| `Malloc` | `malloc.c`: boundary tags, lists, `free`, `malloc`, consolidation and trimming as operators on a heap; `sbrk.c` |
| `Heap` | the other calls of `malloc.c`, and a program that makes any of them |
| `Blocks` | what an allocator promises: disjoint aligned blocks that keep what is in them |
| `Strings` | `string.c` as operators on a memory |
| `Numbers` | the conversions of `doprnt.c`, `strtol.c`, `strtoul.c`, `atoi.c`, `div64.c`, the end of `sprintf.c` |
| `Library` | a program's calls of these functions, and what they should return |
| `Memory` | `kheap.c`, `mem.c`, `paging.c` |
| `Start` | `kernel_start` with `irq.c` and `it_handler.c`, from `crt0.S` to the first processes, and what all of them print with `printf.c` and `puts`; composes `Memory` and `Library` |
| `Start_proofs` | theorems about `Memory` and `Start` |
| `Recursion_proofs` | lemmas that these proofs share: least elements, recursion over 0 .. N, folds |
| `MC*` | values of the constants, and the restrictions, of the runs |

A definition whose name ends in `_Something` and whose comment says *Mutant* is a
plausible bug of the definition of the same name; every property of a passing run is
shown to fail when its mutant replaces it. A mutant is not used by any specification.

### Proc

*Processes.* A process is the number of its slot, which is its PID. `state`,
`sleeping_end_time`, `stack` and `regs` are the fields of the table. `pid` and `name`
are left out: the first is the slot's number from its first use on, the second is only
printed.

*Slot 0.* After an exit no slot is RUNNING, `get_current_pid` returns 0, and
`scheduler(0)` reads and writes `procs_table[-1]`, memory that belongs to something
else. The model keeps that entry: its state field has one of two values, the one
`stop_proc` reacts to and one it does not; a dead process's registers are saved there.

*Contexts.* The five registers `ctx_sw` saves are abstracted to what they reach: a
thread, and the `ctx_sw` calls still pending on its stack. When a context has been
resumed the registers stay in the table, but the frame they point to is being reused:
they are `Stale`, a context nobody is suspended in. `cpu` is the thread that executes
and `pending` the switches announced and not done on its stack. Threads are the
processes, the boot thread, and `idle()`; the last two share the idle slot.

*Atomicity.* A system call or a tick is one step from its gate to the `sti` of
`scheduler`; the step adds a switch to `pending`. `ctx_sw` is a step of its own, and a
tick may come before it: a plain one always, one that preempts if `"ctx_sw"` is in
`OpenWindows`. `kernel_start` calls `spawn_proc` with interrupts enabled: claiming the
slot and furnishing it are two steps, between which a preempting tick comes if
`"boot_spawn"` is in `OpenWindows`. The windows are a constant because both are defects:
the run with a window open exhibits one, the others and the proofs show what holds when
no preemption hits one. On the machine nothing closes them; they are a few
instructions long and a preemption comes ten times a second.

*Heap.* `malloc` is used only to hand out stacks here: a block, or NULL where
`MallocFails` lets it. Behaviours go on after a NULL, as the code does: line 86 of `proc.c`
writes below address 0x4000, and all processes without a block use that memory, so that
furnishing or resuming one leaves nothing of what the others had saved there (`Trampled`).
What else lies in that memory is not modelled. That a block is nobody else's is the business
of `Heap`. `MallocFails` is a constant because it is a defect, and false in the runs: with it
`ContextsOwned` fails in `proc_window`'s configuration without any window open.

*Left out*: the return values of calls, `ps` and `get_ready_count` (they read only),
`kill` of a number that is no slot (it indexes the table unchecked).

### Multitask

`owner`, `ready`, `asleep` and five operations. `Proc` refines it with
`owner <- Owner`: the slot the processor belongs to once pending switches are done,
computed from `cpu` and `pending` and not from the RUNNING entry. So the refinement
says that what the table announces is what the processor does.

### Keyboard

The handler is one step per byte (interrupts disabled). The reader is one process at a
time, with a step for each access to shared variables: `clear_buffer`'s two
assignments, masking, unmasking, `kgetch`'s read of a cell and its move of the head.
`enter` lets the process call any function at any time, which includes the way snake
and the terminal call `init_keyboard`, `kgetch` and `mask_keyboard`. The array is
modelled with the memory behind it that the handler's wrong modulus can index. Bytes
wait in the controller while the interrupt is masked; it takes a stroke whole or not at
all. Characters are keys with or without shift and `ARROW`.

### FileSystem

*Table and disk.* `entries` is `fs_disk.entries`, `sectors` the same on the disk and `magic` its
header. What a call does in memory is one step per operation (`operate`): a move is three
operations, a copy, a removal and a sync, as in `fs_move`. `fs_sync` then writes the whole
table; only the sectors in which the disk differs matter, so `write_sector` writes the first
difference, in the order of the bytes, and `sync_end` finds none left. Before each of these
steps a write may fail (`sync_fails`) or the power go (`power_loss`). `Steady` is all of this
without faults and shutdowns; `FsDurable` takes the actions of the full `Next` apart to add to
its history variables. There `stable` is what has been promised: all that a table shows
(`Things`) when an `fs_sync` ends, as long as operations leave it in its entry (`Lasting`).
After a power loss a path may be there twice, and the entry that `find_file` finds hides the
other; when a removal brings the hidden one to light, it is not the one that was promised.
`init_fs` is `load`, or `format` and its seven calls.

*One client.* The terminal is the only program that calls the file system, and no
interrupt handler does; so calls do not overlap, and no other process sees the table
between two steps. `Idle` is the terminal between two commands.

*Torn entries.* An entry has 4268 bytes and the first starts at byte 8, so entry *i*
starts at byte (8 + 172 *i*) mod 512 of a sector. For the 64 entries this is at most 432: a
boundary never falls inside `used`, `is_dir` or `path` or before the ninth byte of
`parent`. It may fall inside or between `parent`, `name`, `size` and `data`; these are the
`Groups` that a power loss can separate. The model separates them for every entry, the code
for those whose place has the boundary there; and it lets a write end inside the next field
(`Partly`): at least 8 bytes of a new parent, 4 of a new name and 80 of new data are then there
(`WHOLE_DATA`), and behind them are bytes of the old one. Those make of a parent or a name any
text that begins in the same way (`Torn`), among the texts of the constant `Scraps`: another entry's
path, or the entry's own, included. Of data they make the first bytes of the new one followed by
the old ones (`Over`).

*Paths* (module `PathNames`) are sequences of components, the first of which is `"/"` in an
absolute path; in this form `fs_parent_path` drops the last component and `build_child_path`
adds one. Components are strings, with their lengths. A child's path that would have
`FS_MAX_PATH` bytes or more is cut (`Clipped`) as `strncat` cuts it: in its name; behind the
slash, so that an empty component is the last; or before the slash, so that it is its parent's
path. In all three the copy goes on. `Trim` treats an empty component as the code treats a slash
at the end. `UserPaths` are results of `fs_resolve_path`: absolute and without empty components.
The defaults of `init_fs` are relative and stay in the table, where no command reaches them;
they take 4 of the entries in every run, unless the power goes during the first start.

*Recursion.* `remove` clears the entry and those below it, which is what
`remove_entry_recursive_idx` does as long as the entries it visits are those there were
(it clears children before their parent). A torn write may have left an entry whose parent is
its own path or one below it; then the removal calls itself until its stack has run over
(`Endless`), and the machine has to be started again (`overrun`). The copy is the loop as written
(`copy_entry_recursive_idx`, a recursive function on the table), because copying into
oneself makes it visit entries that it adds. It always ends: each call but the innermost has
taken a free entry.

### FileTree

A function from paths to directories or texts, and requests that take effect whole and at
once, or fail and change nothing; a copy that fails may leave a part of itself, and nothing
else. `FileSystem` refines it: `Seen` reads the table as a function from the paths of its
entries to directories or texts (`Shape`), and `Request` is the first operation in `todo`,
unless the one before it is being written. It promises less than one expects where the code
does: a file may have children (`fs_create` asks only that the parent exists), and a copy of
it leaves them behind, as does the copy of a directory that the file is in. What is copied gets
places (`IsPlacing`): each thing the child path of its parent's place, cut where it is too long,
and no two things the same. A copy takes what
it can reach from its source through directories (`Reached`), so copying into oneself never
ends, and fails when the table is full, exactly if the destination is reached in this way.

### Screen, Console and Display

A screen is its cells and its cursor; `Screen` gives each function of `console.c` as an
operator on it, the line of memory behind the screen included. Cells hold characters:
the colour is always the same.

`sys_write` runs with interrupts disabled and is one step. Snake calls `cursor_move` and
`console_putchar` directly, with interrupts enabled, and the kernel is compiled without
optimisation: there each access to `cursor_pos`, to the screen and to a port is a step,
and `cursor_pos++` is two. A tick may come between any of them, and draw a part of the
banner, or only save and restore the cursor (`timer.c` calls `display_banner` at every
tick). The two ports of the cursor are one register that selects a byte and the bytes.
One process prints at a time, which is so of n7OS's programs: `processus1` ends before the
terminal it starts prints, and the terminal waits for snake. `Display` sees the same
calls at once, on the lines below the first; `Done` completes the call that is executing.

### LineEditor

A key is one step, with the whole of what it does to the line and to the screen. A line
is the text before its NUL. The history is a sequence, the words of the completion are
two sets of constants (`Builtins`, `Names`); `fs_complete` gives the name that is the only
one with the prefix. `wide` remembers that the line has wrapped: then `redraw_input`,
which goes to the beginning of the row where the cursor is, draws on the wrong one, and
`DisplayMatches` claims nothing before the next line. Where a line becomes longer than its
array (`Overflows`) behaviours end: what follows is undefined.

### Snake

An iteration of the loop of `snake()` is one step, the keys that came before it are chosen
in the step. `simple_rand` is a choice among the cells it can give: its lowest bit
alternates, columns are drawn at odd calls, and `GAME_WIDTH - 2` is even, so the columns of
one game have one parity (`Drawable`). When no such cell is free `generate_food` never ends:
the phase `"stuck"`, in which TLC finds no successor. Score and speed are kept, the texts
are not.

### Malloc, Heap and Blocks

The state is `struct malloc_state`, the two words of each chunk's header where there is one
(`size`, `prev_inuse`, `prev_size`) and the break. The links in free chunks are sequences,
from `fd` to `bk`; `unlink` takes a chunk out of the list it is in. What a word of memory
holds once it is inside a chunk is its user's: `Forgotten` makes it 0 after each call, so
that whoever would read it reads nonsense, and the word that would be the footer of a
chunk in use is marked `DATA` when it is handed out. A call is one step: the kernel
calls malloc in system calls, which run with interrupts disabled.

As the kernel builds it, there is no `mmap` and nobody else calls `sbrk`; the code for
that is not modelled, and neither is trimming that succeeds, because `sbrk` refuses
negative arguments (`sbrk.c:7`). `live` is what the program has: the length of each block, and
how many bytes of what it counts on are there: written before a `realloc`, cleared by a
`calloc`; with it the calls refine `Blocks`. `cALLOc`'s product is a word, as in the code.

### Paths and Shell

*Texts.* What is typed is a string, and a resolved path the sequence of its components, as
in `PathNames`; `Text` is the way back. `Pieces` splits as `fs_resolve_path` does: a piece
that fills a name ends there, and the rest of it is the next component.

*Commands.* A command is one step, the call of the file system that it makes; the steps of
that call are those of `FileSystem`, and `reply` prints what came back. A command whose path
is bad prints so and changes nothing, and is no step. `ls`, `tree`, `cat` and completion only
read: they are operators. `exit` ends the terminal, and nothing starts another, so that
behaviours end. There are failed writes and no power loss here: `FsDurable` has those, and a
terminal does not survive one.

### Strings, Numbers and Library

A memory is a function from addresses to bytes, and a function that writes returns the
memory after it; texts of numbers are sequences of codes. Loops over bytes are written as
the place where they stop, `memmove` and the searches of `memmem` as what their steps do.
Numbers have `WordBits` bits. A conversion of a format is the record of its flags.
`Library` makes one call and keeps what was asked and what came back; `strtok` goes on,
with what it remembers between calls. The definitions in its second part are the reference:
`Places`, `Span`, `Order`, the number read back, quotient and rest.

### Memory and Start

Addresses count in parts of a page, of which one is enough to have an address that is not
aligned. `page_bitmap` is the set of pages marked, `page_tables` the pages named by the
entries written. Each turn of the loop of `initialise_paging` is a step, and each
initialisation of `kernel_start` one: before `sti` nothing can come between, and after it
only what is not masked. Gates are a function from vectors to handlers, set in the order in
which the code sets them. `crt0.S` clears the flags and the memory; the BIOS leaves the
controller at vector 8 with nothing masked.

*Printing.* Every character that `printf` puts in its buffer is a step, and a system call
that writes one, so the calls of several threads interleave as preemptions can have it. A
call of the library touches nothing that others see; it is one step after boot, in a state
where nobody prints, so that the run does not multiply the two.

## 3. Runs

Passing runs:

| Run | Shows | Bounds |
|---|---|---|
| `proc` | table = processor; contexts owned; idle only without work; the dead stay dead; refinement of `Multitask`; sleeps are long enough and end on time, before overflow | 4 slots, one of them idle; malloc does not fail; a preemption every 2 of 26 tick values; sleeps of 0, 1 and 3 ticks (shorter and longer than a period); kills of slot 3, which has others before and after it; the constraint `BeforeOverflow` stops before the first wake-up time beyond the largest int |
| `proc_turns` | round robin between two exits; no READY process starves | 4 slots, ticks modulo 3, sleeps of 0 and 1 tick, kills of slot 3 (a process with others before and after it) |
| `keyboard` | refinement of `Fifo`; E0 prefixes; quiet when masked; `getchar` returns | 3 cells (a queue of 2), 2 bytes per cell, 2 bytes in the controller, read of 2 characters |
| `fs_tree` | refinement of `FileTree`; the table is a tree: paths distinct, parents there | 8 entries, 4 of them the defaults, so that a directory with a child can be copied and, with one more entry there, cannot; the root and 4 paths of one to three components, so that a directory can hold a file that is a parent; texts of 2 bytes, cut to the 1 that fits a file of 2 with its NUL; paths of 10 bytes and a name of 7, so that a copied child's name is cut, to one byte or to none |
| `fs_crash` | what is synced stays; a move keeps its file | 6 entries, of which the defaults take 4 unless the power goes while they are written; one fault, and any number of shutdowns; paths of 12 bytes and names of 10, long enough for a torn parent to be the entry's own path or another entry's, and a torn name another name, and for a moved child to keep one byte of its name; texts that are torn behind one byte |
| `console` | refinement of `Display`; both cursors agree; nothing behind the screen; the banner's line spared | 4 columns, 3 lines, four texts with every control character, 3 calls; ticks at any time |
| `editor` | the row shows the line; the line fits but for a tab; tails kept | a line of 4 characters and NUL, a history of 2 lines, 7 keys, two commands and a name to complete, a screen of 5 x 3, on which the longest line wraps |
| `game` | the snake is a path that never turns back; the board drawn by differences agrees | 6 x 5 board with 12 cells inside, which the snake can nearly fill; 2 keys a tick |
| `heap` | the assertions of `malloc.c`; no chunk lost or twice, nor a user's word; failure only when full; refinement of `Blocks` | 252 bytes in pages of 64, small chunks below 32 bytes, requests of 4 and 60, 5 calls after which the heap is used up |
| `shell` | paths are clean and compose; completions lead to their entry; `tree` shows every entry once; OK is done and on the disk | 7 entries, of which the defaults take 4; names of 3 characters and paths of 8 bytes and 3 components, so that names are split, and copies cut; texts of 2 bytes, which fill a file; 4 arguments with `..`, blanks, doubled slashes and doubled names; 7 texts to complete; one failed write |
| `start` | no two entries map one page, the directory is not mapped and its tables are apart; interrupts find what they need; strings and numbers agree with their definitions; what threads print comes out whole | pages of 2 units, 9 pages, 4 entries in a table, the heap at the start or in the middle of a page; strings of up to 4 and 3 characters over 2 letters, in 11 bytes; words of 6 bits; all flags of a conversion, widths 0 and 4, precisions none and 3; a `printf` buffer of 3 with texts of 1 to 5 characters, shorter than it, filling it and passing it; two processes with one call each, and the boot thread with one |

The properties of `fs_crash` are about any number of faults; it is bounded in `FsDurable` only. Each
state between two sectors is one that a power loss may leave on the disk, whether the power
then goes or not, so that the fault that is bounded is the one that calls come after. With
4 entries, most of them free only if a fault makes room, and two faults the same properties
hold.
`fs_tree` has none (`SteadySpec`): after a power loss a path may be there twice and a directory be
missing above its children, which is what fsck programs are for, and n7OS has none.

Four slots are enough for what the scheduler distinguishes: the idle slot, the current
process, one before and one after it in the search. Three cells make a ring whose
indices wrap, with the states empty, partly full and full.

`keyboard` runs on `FittingSpec`, the behaviours of `FairSpec` in which arrows arrive only
while the buffer has room for them before the end of the array; what arrows do otherwise is
below, among the disagreements. The proofs are about all behaviours.

Deadlock is checked, except where behaviours end: `shell` after `exit`, `game` when it is over
or stuck, `heap` after its last call, `start` when every thread has printed.

One run finds a disagreement between the code and what its comments say (it is a finding in
`PROJECT.json`, with the quotation): `proc_window`, in which a preemption between `sti` and
`ctx_sw` makes a slot's registers another thread's, or the resumption of a half-done switch.

Other disagreements that the models reproduce, without a run of their own:

* after an exit the current pid is 0, so the search starts at slot 2 (`proc.c:100`), and the dead
  process's registers are saved in front of the table: across an exit `RoundRobin` fails;
* after 2^31 ticks a wake-up time is negative and the sleep ends at once (`proc.c:141`), and by the
  same arithmetic others miss their end: without the constraint `BeforeOverflow` both
  properties of sleeps in `proc` fail;
* `mv f f/x` of a file (`fs.c:593`) removes, with the file, the copy it has made below it, because a
  file is accepted as a parent: without `moving.regular` `MoveKeeps` fails;
* a power loss inside an entry can leave it with another parent or name than its path has: it is
  then listed, removed and copied with another directory, or an entry of the name "" gets a path
  that ends in a slash (`fs.c:435`). `moving.regular` excepts moves of such entries, and nothing
  else: that others are not lost by them is part of `MoveKeeps`. If the parent is the entry's
  own path, `rm` never returns (`fs.c:412`, the action `overrun`);
* `cp` of a directory, which is to "Copy file or directory" (`terminal.c:309`), cuts a child's path
  that is too long (`fs.c:388`) and succeeds, so that the child is not found by its name; after `mv`
  it is found by it nowhere. `fs_tree`, `fs_crash` and `shell` have this case: what they claim is
  that the child is at the path that is left (`IsPlacing` in `FileTree`, `Place` in `FsDurable`);
* a sector that cannot be read at a start is taken for an empty disk, and the defaults are
  written over it (`fs.c:475`): with `"read_error"` among the events `Durable` fails;
* completing an argument checks the length of the word and of what follows, and not of what
  stands before (`terminal.c:121`): the line can pass the end of its array; completing a command
  cuts off what stands behind the cursor (`terminal.c:111`);
* in `malloc.c`, none of it reached by the kernel: an `independent_*` call marks its first chunk
  as following one in use, also when it comes from a fastbin behind a free chunk, against
  `do_check_free_chunk` (`Checked` excepts what follows); `mallopt(M_MXFAST, 0)`, "to disable
  all use of fastbins" (`malloc.h:1308`), makes `malloc_consolidate`'s loop (`malloc.c:2428`)
  pass its end by, and `HeapAssumption` leaves it out; large chunks of equal size are binned
  behind those that are there if they are the smallest, not "at the front" (`malloc.c:611`);
* with `"boot_spawn"` in `OpenWindows` a preemption between the claim of a slot by
  `kernel_start` and its furnishing (`proc.c:79`) switches to a process that has no
  registers: `cpu` becomes `Nobody`;
* with `IDLE` in `Killable`, `kill 1` terminates the idle process and the next election of
  idle (`proc.c:177`) brings it back: `TerminatedStaysDead` fails;
* the first switch saves the boot thread's registers in the idle slot (`proc.c:24` marks it
  RUNNING), so that a switch to idle resumes the endless jump of `crt0.S`: `idle()` never
  runs;
* `terminate_proc` does not free the stack, and `spawn_proc`, which is to return "0 en cas d'échec"
  (`proc.c:68`), does not look at malloc's NULL (`proc.c:80`): it returns the PID of a process
  without a stack of its own; with `MallocFails` `ContextsOwned` fails;
* keyboard: an arrow key does not ask whether the buffer is full, and takes its second index
  modulo 1024, not 256 (`keyboard.c:47`): it empties the full buffer, or writes behind it;
  without `ArrowsFit` `ImplementsFifo` fails. The unshifted scancode map ends at 0x53
  (`keyboard.c:84`);
* paging: the pages of the tables are not marked in the bitmap, and `findfreePage`, which is to
  give "la première page libre de la mémoire physique tout en l'allouant" (`mem.c:37`), gives them
  to be mapped: with the heap at 3, tables are in pages 3 to 6, and pages 0, 1, 3 and 4 are mapped.
  `PagesOnce` claims that no two entries map one page, and nothing of the tables';
* paging: the directory's page is marked first,
  so that every virtual page from there on is mapped to the next physical one; the first
  1024 pages are mapped and no more; `findfreePage`'s 0xFFFFFFFF is not looked at. The comment
  at `paging.c:23` announces the activation of paging, and CR0 and CR3 are never written;
* `kheap` and `sbrk` both hand out memory from `mem_heap` on (`kheap.c:8`): page tables and the
  heap of `malloc` overlap;
* terminal: `write` and `append` say OK whatever the file system answered (`terminal.c:426`); the
  first of two arguments is cut at `FS_MAX_PATH` (`terminal.c:257`) and may then name another
  file; `mv` of a file below itself says OK and loses it (`OkIsDone` excepts these);
* file system: `cp` of a directory can make paths too long for `fs_resolve_path` or ending in a
  slash, the defaults of `init_fs` have relative paths that no command can name, and `tree` does
  not look below a file, where there can be entries (`CompletionLeads`, `TreeShowsAll` except
  them);
* `memmove` to a higher address leaves the direction flag set (`string.c:141`), which only the
  handlers clear for themselves;
* `strstr` and `memmem` of an empty needle return NULL, `strrchr(s, 0)` too; `strtok` returns empty
  tokens; `vsnprintf` writes its NUL at `s[size]`, one byte behind the array, when the text fills
  it (`Fits` says so, and `StringsAnswer` excepts it); `strtol` does not skip a plus sign;
* `doprnt.c`: `%X` prints lower case, against the file's header; `%#p` prints its prefix twice;
  a text that is cut by a precision and set to the left is a blank short; `%c` ignores its
  width;
* `atoi` wraps for long texts, leading zeros included, and of an empty text reads what is
  behind the NUL; `do_div64` divides by zero when the leading word of a divisor, shifted, is
  all ones (`Divided` excepts it);
* `gets` puts the NUL of a text of 255 characters behind its array (`scanf.c:44`); `scanf` leaves
  the text of a `%s` without one, and keeps the width of one conversion for the next;
* `generate_food` never ends when no cell that it can draw is free (`snake.c:62`, the phase
  `"stuck"`).

`proc_window` has the action constraint `OneTickAtMost`: the window is shorter than a
tick, so the only tick that can land in it is the next one; the run starts the window
just before it.

### Fairness

`FairSpec` of `Proc`: weak fairness for `ctx_sw` and for the boot thread's steps, which
are straight-line code; strong fairness for the two kinds of tick, because the interval
timer raises its request whatever the processor does, and the interrupt controller
holds it until interrupts are enabled again. Processes promise nothing: they may loop
for ever. `StarvationFree` excepts endless spawning: each exit restarts the search at
slot 2, so processes that fork and exit for ever in the first slots starve the rest.

`FairSpec` of `Keyboard`: weak fairness for the steps of a function that has been called
(its process is scheduled again and again: `StarvationFree`) and for an interrupt that is
pending and not masked. Nothing obliges the user to type.

## 4. Proofs

`Proc_proofs` (checked by `tlapm`), from `ProcAssumption` only, so for every table size,
tick width, preemption period and durations:

* `TypeCorrect`: `Spec => []TypeOK`, with any windows open and whatever malloc returns.
* `RunningCorrect`, `ContextsCorrect`: `Spec => []RunningIsOnCpu` and
  `Spec => []ContextsOwned`, assuming `Sheltered`: no preemption lands in a window,
  nothing kills idle, and malloc does not fail. The run `proc_window`, and `proc`'s
  configuration with `IDLE` in `Killable` or with `MallocFails`, show that no part of the
  assumption can be dropped.
* `Implementation`: `Spec => ImplementsMultitask`, assuming `Sheltered`.
* `DeadStayDead`, `WorkConserved`: `Spec => TerminatedStaysDead` and
  `Spec => IdleOnlyWithoutWork`, assuming `Sheltered`.
* `NeverWokenEarly`, `WokenInTime`: `Spec`'s `SleepsLongEnough` and
  `SleepsNotTooLong` until `BeforeOverflow` fails, assuming `Sheltered` and `LastingSleeps`
  (programs sleep for no negative time).
* `RoundRobinCorrect`: `TurnsSpec => RoundRobin`, assuming `Sheltered`, and that an exit opens a
  round (`ExitOpensRound`, as in the run: across an exit the property is false).
* `PlacesCorrect`: what `Multitask` promises keeps every process in one place, the sanity of
  the abstract specification, which has no run of its own.

The argument. `RunningIsOnCpu` alone is not inductive: that the table names the slot the
processor belongs to survives a switch only if the context loaded is that slot's, which
is `ContextsOwned`; and that survives a save only if the switch pending saves the
processor's own slot. `ProcInv` adds this, that one switch at most is pending, that the
code of `idle()` and nobody's context are never resumed, and what the boot thread's
progress implies. The lemmas first establish what the operators return: the least slot
in a state (`CurrentPid`, `FreePid`), that a search finds a candidate (`Elected`), what
the table is after wake-ups (`AwakeTable`), and that an election leaves exactly one
RUNNING slot, the one announced (`SchedulerStep`, `SwitchAnnounced`). `NextInv` then has
a step for each action.

The refinement adds to `ProcInv` that idle is never asleep (`RefInv`), without which an
election could leave it out of the candidates of `Dispatch`. `DispatchStep` shows once
that `scheduler`, called on a table whose only RUNNING slot is its argument, is a
`Dispatch` of the slots that are ready, running or woken; exit, kill, sleep and
preemption then differ only in the table they call it on. A context switch stutters
because the owner is the slot that is RUNNING before and after it. That idle stays awake
comes back from the abstract level, where only an owner other than `Idle` falls asleep.
The two action properties split the steps into elections (`ElectionTable`) and the rest
(`OtherSteps`).

For the sleeps, `DebtInv` says that the table's wake-up times and the independent clock of
`ProcSleep` agree: the time of who sleeps is the tick counter and what is owed, and an owed
time that has passed has passed since the last preemption. Until overflow the counter, the
sums and their readings as ints are the same numbers (`EarlyTicks`).

For the turns, slots are counted from a waiting process *p* on in the order of the search:
`Ahead(p, x)` is how far *x* lies beyond *p*. `TurnsInv` says that no slot elected while *p* waits
lies farther beyond *p* than the one that is running. The search from the running slot stops
before it comes round to *p*, or at *p* (`ElectedFirst`); so the slot it elects lies farther beyond
*p* than the running one (`Beyond`), and cannot have been elected before in that wait.

`Keyboard_proofs`, from `KeyboardAssumption` and `StrokesAssumption` (what a keyboard sends:
after each E0 the byte that it announces), about the whole `Spec`, arrows that do not fit
included:

* `TypeCorrect`, `PrefixCorrect`: `WireInv` says of the bytes on the wire that the first one
  is a second byte exactly when the E0 flag is set, and of the others after their neighbour.
* `FifoImplemented`: `FittingSpec => ImplementsFifo`, the safety half of the refinement and all
  there is of it (`Fifo` promises no progress). The queue is a function of array and indices
  (`Ring`), whose length is the distance of the indices modulo the size; a store at the tail
  appends to it (`RingPut`) and a step of the head takes its first (`RingGet`).
  `FifoInv` adds to the types that the tail is inside the array, which arrows that do not fit
  would break, and that the reader in `kgetch` still has in hand what is in the head's cell.
* `QuietCorrect`: `QuietInv` follows `mask_keyboard` through its steps: it masks first and then
  clears one index after the other, so nothing comes in between.

`Terminal_proofs` about `Snake`, from `SnakeAssumption`, for every board:

* `PathCorrect`, `NeverReverses`: `SnakeInv` adds to the path that the direction taken last is
  that of its first two cells, and that the direction waiting is not its opposite.
* `FoodCorrect`: `SnakeSpec => []FoodFree`. The path needs it: cells that are distinct, inside
  the walls and not the food's are fewer than the array has places (`RoomToGrow`), so the
  snake that eats always has room to grow.
* `PictureCorrect`: `SnakeSpec => []PictureAgrees`. `PictureInv` adds that the picture has the
  cells of the board; `draw_game_diff` rewrites the old head, the new head and the old tail, and
  the proof is that no other cell changes, which needs that the snake's cells are distinct.

`FileSystem_proofs`, from `FsAssumption`, `PathNamesAssumption` and, about strings,
`StringsAssumption` (the length of a string, and that its beginnings are strings of that length)
and `LiteralAssumption`, for every size of the table, paths and texts and every length that paths
and names are cut at:

* `TreeCorrect`: `SteadySpec => []TableIsTree`: between two starts, whatever is created, moved,
  copied and removed. The invariant, `TreeInv`, is that the table is in `Trees` and that what is
  still to do is a sequence of operations on paths that have a component. Each operation has a
  lemma that it makes a tree of a tree; the two that matter are recursive. A removal takes an
  entry with everything below it: what is left has its parents, because a child of something
  removed is below it too. A copy visits entries that it adds itself when a directory is copied
  into itself, and stops half way when the table is full or a cut path is taken: `EntryCopied`
  shows of a call that if the calls it makes turn trees into trees, each turn of its loop leaves
  a tree and so does the call, and `CopySolved` and `Copied` carry this through the depth of the
  calls, which is at most the length of the table.
* `DurableCorrect`: `DSpec => []Durable`, for any number of power losses, failed writes and
  shutdowns, assuming `"read_error" \notin Events` (with it `Durable` fails, see section 3).
  Nothing is said of trees here: `EffectTyped` shows that every operation leaves a table of
  whatever a torn write has left. `DurableInv` says that, while the power is on, what is
  promised is found by its path in the same entry of the table and of the disk. That it is in
  both would not be enough: the disk could have it in an entry that the table uses for something
  else, and the next sector would take it away. `KeptWritten` shows of a sector that an entry
  the two agree on stays as it is, whatever group of its fields is written and wherever the last
  one is torn, and that no entry before it gets its path: its used flag and its path are never
  torn apart. `NothingDiffers` is the end of `fs_sync`, and a disk without a header holds no
  promise, so `format` breaks none.
* `OkCorrect`: `SSpec /\ []PathsClean => []OkIsDone`, for any number of failed writes, and sizes
  that need not fit each other. `ShellInv` says where the command is: its call is `Waiting`; a
  move is `Halfway`, with what its copy has made still in the table after the removal, because
  the one is neither the other nor below it; or it is `Over`, and then what it asks for is in
  the table, and on the disk unless `fs_sync` is still writing or has failed. What an operation
  does is `OperationDone`. The disk may hold anything before, what an earlier failed sync has
  left included: an `fs_sync` that ends without a failure leaves no sector that differs
  (`NothingDiffers`). The premise `[]PathsClean`, a part of `PathsCompose`, stays with the run:
  it is about the characters of strings, which only TLC can take apart.

  The table is `Sound` at every step: a tree whose paths are `Headed`, that is not empty and
  with no empty component but perhaps the last one, which a cut leaves (`CutIs`). On such paths
  to be below one another is an order (`BelowOrder`), the parents of an entry lead up to all
  that it is below (`Ancestors`), and a removal takes exactly what is below its path
  (`FamilyIs`, `RemoveDone`). A copy only adds entries (`Widens`), of which one is at the
  destination: an invariant of the turns of the loop (`Entered`, `Child`) that `CopyInduction`
  carries through the depth of the calls (`CopyCalm`).

`Console_proofs`, from `ScreenAssumption` and `ConsoleAssumption`, for every screen of two lines
or more, every text and every banner that fits its zones, with ticks between any two steps:

* `ConsoleImplementsDisplay`: `Spec => ImplementsDisplay`.
* `CursorCorrect`, `ScreenCorrect`: `Spec => []HardwareCursor`, `Spec => []StaysOnScreen`.
* `BannerCorrect`: `Spec => BannerKept`, on three lines or more (on two, the line that scrolls in
  is the only one below the banner), and for texts that are `Sparing`: a form feed ends the text
  or is followed by a newline, and a backspace follows a printable character. The texts of the
  run are; a backspace at the beginning of the second line would clear the last cell of the
  first, and a text after a form feed would be written over the banner.

`ConsoleInv` is the types, where the cursor may be at each step of a call (`Placed`: on the screen,
but between its increment and its rewinding; what a step has loaded is still the cursor, which
is what `display_banner` saves and restores it for), and how far the ports have come
(`Registered`: whatever a tick between two ports has selected, it has also programmed both
bytes). For the refinement two screens are `Alike` when they have the same cursor and the same
cells below the first line. Every function of `Screen` makes screens alike of screens that are
alike (`PutcharAlike`, `PrintAlike`); the banner leaves the screen as it is below the first line
(`BannerBelow`). So each step either is a call, and what the process sees afterwards is like
what `Display` shows (`CallsSeen`), or changes nothing that the process sees (`StepsHidden`,
`TickHidden`).

`Terminal_proofs` about `LineEditor`, from `EditorAssumption` and `ScreenAssumption`, for every
screen, array, history, set of commands and names:

* `EditorInvariant`: `Spec => []EditorInv`: the lines of the history and the draft fit the array
  and the cursor is in the line. The line itself is not claimed to fit: `push_history` and the
  draft take it only while it does.
* `LineFitsCorrect`: `Spec => LineFits`. Without `EditorInv` a line called back could be too long.
* `TailCorrect`: `Spec => TailKept`, from what a text put in at a place of a line, or taken out,
  leaves behind it (`Inserted`, `ErasedIs`). That the place where the word before the cursor begins
  exists (`WordStarts`) is that a bounded set of numbers has a greatest element.
* `DisplayCorrect`: `Spec => []DisplayMatches`. `ScreenInv` says that the rows below the
  cursor's are blank and, until the line has been too long, that the cursor's row is the prompt,
  the line and blanks, with the cursor at the place of the line's cursor. The first half is what
  gives the prompt of the next line an empty row: a text whose characters only go forward leaves
  nothing below the cursor (`PrintLower`), a scroll included. It needs that commands print no
  backspace, which is part of `EditorAssumption`: nothing in `src/bin/` or `src/kernel/` prints
  one, and files hold what was typed. `redraw_input` returns to the row's beginning and prints
  the prompt, the line and as many blanks as the row had characters before (`PrintJoined`,
  `RowPrinted`): they cover what it showed, because they are at least as many. In
  `Screen_proofs`, `PrintOne` and `Written` say what a text that fits its row leaves in it.

Texts are printed with the library's `FoldLeft`. `Recursion_proofs` shows, from the well-founded
order of the numbers, that recursion over 0 .. N has a solution (`RecursionExists`), that a fold is
one (`FoldExists`), and that it can be followed item by item (`FoldSteps`); `PrintSteps` and
`TabSteps` put the screens between the characters in a function, and an invariant of printing
is then the statement that no least character breaks it (`UpTo`). What is iterated is always a
function on a set, never an operator.

`Start_proofs`, from `MemoryAssumption` (the directory and its tables fit
between the kernel and the end of memory) and `StartAssumption`:

* `InterruptsCorrect`: `StartSpec => []InterruptsReady`. `BootInv` says for each place of
  `kernel_start` what the steps before it have left, and that nothing takes it back.
* `PagesCorrect`: `StartSpec => []PagesOnce`. After *n* turns, with the directory in page *d*, the
  state is `Laid(d, n)`: tables in the pages *d* + 1 to *d* + *n*, and `FirstPages(d, n)` mapped:
  the first *n* pages without *d*. A page is left for each turn because the tables lie
  behind those pages (`FreePageFound`), and `AlignedAt` has the arithmetic of `kmalloc`.
* `LinesCorrect`: `StartSpec => []LinesWhole`. `PrintInv` says of each thread where in its text
  it is and what it holds in the buffer of `printf`; that as many of its characters are on the
  console as it has taken from the text and holds no longer; and that each is the one that its
  rank among that thread's characters calls for. Inside a line that `printf` collects each
  character follows its thread's previous one, because the whole buffer goes to the console in
  one step; a step of another thread adds only behind what is there.

Only model-checked: `ImplementsFileTree` and `MoveKeeps`, whose invariants of a copy have to
follow each entry to the path that is left of its own; `PathsCompose`, `CompletionLeads` and
`TreeShowsAll` of `Shell`, which are about the characters of texts, or about recursion over the
table; `Malloc` and `Heap`, which have recursive operators; `StringsAnswer` and `NumbersExact`
of `Library` (what loops compute for every input needs induction over data); and, because they
are out of the prover's reach, the properties under fairness, `StarvationFree` and
`GetcharReturns`.

## 5. Plan

Done: process table and timer, keyboard, file system and disk, console and banner, line
editor and commands, snake, heap, strings and numbers, memory and start, with the
abstract specifications `Multitask`, `Fifo`, `FileTree`, `Display` and `Blocks`.

Left:

1. **Composition**: the reader of `Keyboard` as a process of `Proc`, so that the fairness of
   its steps follows from `StarvationFree` and is not assumed.
2. **Input**: `gets` and `scanf` as readers of `Keyboard`.

## 6. Not modelled

Panic and debugger, the exceptions' tasks and the fields of descriptors (they print and
stop the machine, or are static); `%b` and `%r` of `doprnt.c`, which nothing uses, and how the
text of a format is split into its flags; functions that nothing calls (`clearPage`,
`print_mem`, `kmalloc` without alignment, `fs_size`, `mem_alloc`), `rand`, `abs` and their like;
the wording of what is printed, and colours; the time of day of the banner; the register
protocol and the bounded waits of `ata.c`; the 248 bytes by which the last sector exceeds
`fs_disk`, which a start overwrites with what followed it when they were written.
