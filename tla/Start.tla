-------------------------------- MODULE Start -------------------------------
(***************************************************************************)
(* kernel_start of kernel/start.c, from the state that crt0.S leaves to    *)
(* the first processes, and what all of them print with lib/printf.c.      *)
(*                                                                         *)
(* It puts together the parts that a start sets up: the memory (Memory),   *)
(* the gates of the interrupts and of the system calls, the masks of the   *)
(* interrupt controller, and the flag that lets the processor take         *)
(* interrupts.  What the handlers then do is in Proc, Keyboard, Console    *)
(* and FileSystem.                                                         *)
(***************************************************************************)
EXTENDS Memory, Library

CONSTANTS
    Procs,              \* processes that print
    BootTexts, Texts,   \* what the boot thread, and a process, gives printf or puts
    PRINTF_BUFMAX       \* characters that printf collects (128)

ASSUME StartAssumption ==
    /\ PRINTF_BUFMAX \in Nat \ {0}
    /\ "boot" \notin Procs
    /\ BootTexts \cup Texts \subseteq Seq(Nat)

VARIABLES
    pc,             \* where kernel_start is
    IF_flag,        \* the processor takes interrupts
    idt,            \* the gates: a function from vectors to handlers
    irq_base,       \* the vector of IRQ 0
    masked,         \* the IRQs that are masked
    syscall_table,  \* the system calls that are known
    proc_table,     \* init_proc_table has been called
    printing,       \* for each thread the call it is in
    console         \* what was written: who wrote it, and what

bvars == <<pc, IF_flag, idt, irq_base, masked, syscall_table, proc_table>>
pvars == <<printing, console>>
svars == <<mvars, call, bvars, pvars>>

Threads    == {"boot"} \cup Procs
IRQs       == 0 .. 15
Exceptions == 0 .. 31

NR_SYSCALLS == {"example", "shutdown", "write", "sleep", "getpid", "exit", "read", "fork",
                "kill", "time"}
SYSCALL == 128      \* int $0x80

NEWLINE == 10

\* What a thread prints is one call, of which `taken` characters were formatted; those in buf
\* are not yet written.
NoPrint == [fn |-> "none", text |-> <<>>, taken |-> 0, buf |-> <<>>, step |-> "idle"]

\* crt0 has cleared the flags and the memory; the BIOS has left the controller.
StartInit ==
    /\ MemoryInit
    /\ LibraryInit
    /\ pc = "paging"
    /\ IF_flag = FALSE
    /\ idt = [v \in {} |-> ""]
    /\ irq_base = 8
    /\ masked = {}
    /\ syscall_table = {}
    /\ proc_table = FALSE
    /\ printing = [t \in Threads |-> NoPrint]
    /\ console = <<>>

\* init_irq_entry for each vector of a function.
Gates(table, new) == [v \in DOMAIN table \cup DOMAIN new |->
                         IF v \in DOMAIN new THEN new[v] ELSE table[v]]

-----------------------------------------------------------------------------
(***************************************************************************)
(* The start, in the order of kernel_start.                                *)
(***************************************************************************)
initialise_paging ==
    /\ pc = "paging"
    /\ IF kernel_page_directory = 0
       THEN create_directory /\ UNCHANGED <<pc, idt, irq_base, masked>>
       ELSE \E i \in DOMAIN directory :
                /\ directory[i] = 0 /\ \A j \in 0 .. i - 1 : directory[j] # 0
                /\ map_page(i) /\ UNCHANGED <<pc, idt, irq_base, masked>>
    /\ UNCHANGED <<call, IF_flag, syscall_table, proc_table, pvars>>

\* The tables of the processor, the exceptions' gates alone, and the controller.
setup_base ==
    /\ pc = "paging" /\ \A i \in DOMAIN directory : directory[i] # 0
    /\ idt' = [v \in Exceptions |-> "trap"]
    /\ irq_base' = 32
    /\ masked' = IRQs
    /\ pc' = "init_it"
    /\ UNCHANGED <<mvars, call, IF_flag, syscall_table, proc_table, pvars>>

\* Mutant: the keyboard has the gate before its own.
Handlers_Shifted ==
    [v \in {50, 32, 34} |-> CASE v = 50 -> "IT_50" [] v = 32 -> "timer" [] v = 34 -> "keyboard"]

Handlers ==
    [v \in {50, 32, 33} |-> CASE v = 50 -> "IT_50" [] v = 32 -> "timer" [] v = 33 -> "keyboard"]

init_it ==
    /\ pc = "init_it"
    /\ idt' = Gates(idt, Handlers)
    /\ pc' = "init_syscall"
    /\ UNCHANGED <<mvars, call, IF_flag, irq_base, masked, syscall_table, proc_table, pvars>>

init_syscall ==
    /\ pc = "init_syscall"
    /\ syscall_table' = NR_SYSCALLS
    /\ idt' = Gates(idt, [v \in {SYSCALL} |-> "syscall"])
    /\ pc' = "sti"
    /\ UNCHANGED <<mvars, call, IF_flag, irq_base, masked, proc_table, pvars>>

sti ==
    /\ pc = "sti"
    /\ IF_flag' = TRUE
    /\ pc' = "init_proc_table"
    /\ UNCHANGED <<mvars, call, idt, irq_base, masked, syscall_table, proc_table, pvars>>

init_proc_table ==
    /\ pc = "init_proc_table"
    /\ proc_table' = TRUE
    /\ pc' = "init_timer"
    /\ UNCHANGED <<mvars, call, IF_flag, idt, irq_base, masked, syscall_table, pvars>>

\* From here on ticks come.
init_timer ==
    /\ pc = "init_timer"
    /\ masked' = masked \ {0}
    /\ pc' = "tests"
    /\ UNCHANGED <<mvars, call, IF_flag, idt, irq_base, syscall_table, proc_table, pvars>>

\* The int $50, the calls of example and shutdown, and printf before and after each; and
\* then the first process.
spawn ==
    /\ pc = "tests" /\ printing["boot"].step = "done"
    /\ pc' = "hang"
    /\ UNCHANGED <<mvars, call, IF_flag, idt, irq_base, masked, syscall_table, proc_table, pvars>>

\* getchar unmasks the keyboard, and masks it when it has a key.
getchar(t) ==
    /\ pc = "hang" /\ printing[t].step \in {"idle", "done"} /\ call = NoCall
    /\ masked' = IF 1 \in masked THEN masked \ {1} ELSE masked \cup {1}
    /\ UNCHANGED <<mvars, call, pc, IF_flag, idt, irq_base, syscall_table, proc_table, pvars>>

Boot == \/ initialise_paging \/ setup_base \/ init_it \/ init_syscall \/ sti
        \/ init_proc_table \/ init_timer \/ spawn
        \/ \E t \in Procs : getchar(t)

-----------------------------------------------------------------------------
(***************************************************************************)
(* Printing.  Characters are collected by the thread that prints, and      *)
(* written by a system call, which no other thread interrupts.             *)
(***************************************************************************)
sys_write(t, chars) == console' = console \o [i \in DOMAIN chars |-> <<t, chars[i]>>]

\* The character that comes next.
Upcoming(t) == printing[t].text[printing[t].taken + 1]

Runs(t) == IF t = "boot" THEN pc = "tests" ELSE pc = "hang"

print(t) ==
    /\ Runs(t) /\ printing[t].step = "idle" /\ call = NoCall
    /\ \E fn \in IF t = "boot" THEN {"printf"} ELSE {"printf", "puts"},
          text \in IF t = "boot" THEN BootTexts ELSE Texts :
           printing' = [printing EXCEPT ![t] = [@ EXCEPT !.fn = fn, !.text = text, !.step = "format"]]
    /\ UNCHANGED <<mvars, call, bvars, console>>

Formatting(t, fn) == printing[t].step = "format" /\ printing[t].fn = fn

Left(t) == printing[t].taken < Len(printing[t].text)

\* Mutant: a place of the buffer is never used.
BufferFull_Early(t) == Len(printing[t].buf) >= PRINTF_BUFMAX - 1

BufferFull(t) == Len(printing[t].buf) >= PRINTF_BUFMAX

flush(t, step) ==
    /\ sys_write(t, printing[t].buf)
    /\ printing' = [printing EXCEPT ![t].buf = <<>>, ![t].step = step]

printf_char(t) ==
    /\ Formatting(t, "printf") /\ Left(t)
    /\ IF Upcoming(t) \in {NUL, NEWLINE} \/ BufferFull(t)
       THEN flush(t, "single")
       ELSE /\ printing' = [printing EXCEPT ![t].buf = Append(@, Upcoming(t)), ![t].taken = @ + 1]
            /\ UNCHANGED console
    /\ UNCHANGED <<mvars, call, bvars>>

\* The character that made the buffer be written is written by itself.
printf_single(t) ==
    /\ printing[t].step = "single"
    /\ sys_write(t, <<Upcoming(t)>>)
    /\ printing' = [printing EXCEPT ![t].taken = @ + 1, ![t].step = "format"]
    /\ UNCHANGED <<mvars, call, bvars>>

printf_end(t) ==
    /\ Formatting(t, "printf") /\ ~Left(t)
    /\ flush(t, "done")
    /\ UNCHANGED <<mvars, call, bvars>>

\* Each character is written by itself.
putchar(t) ==
    /\ Formatting(t, "puts")
    /\ sys_write(t, <<IF Left(t) THEN Upcoming(t) ELSE NEWLINE>>)
    /\ printing' = [printing EXCEPT ![t].taken = @ + 1,
                                    ![t].step = IF Left(t) THEN "format" ELSE "done"]
    /\ UNCHANGED <<mvars, call, bvars>>

\* A call that only computes touches nothing that others see: it is one step, and is taken
\* instead of what they do.
calculate ==
    /\ pc = "hang" /\ 1 \in masked /\ \A t \in Procs : printing[t] = NoPrint
    /\ compute
    /\ UNCHANGED <<mvars, bvars, pvars>>

Output == \E t \in Threads : \/ print(t) \/ printf_char(t) \/ printf_single(t) \/ printf_end(t)
                             \/ putchar(t)

StartNext == Boot \/ Output \/ calculate

StartSpec == StartInit /\ [][StartNext]_svars

-----------------------------------------------------------------------------
\* Whenever the processor takes interrupts, each IRQ that is not masked has its handler at its
\* vector, a tick finds the process table, and a thread that makes system calls has their gate.
InterruptsReady ==
    LET handles(irq, handler) ==
            irq_base + irq \in DOMAIN idt /\ idt[irq_base + irq] = handler
        open == IF IF_flag THEN IRQs \ masked ELSE {}
    IN  /\ open \subseteq {0, 1}
        /\ 0 \in open => handles(0, "timer") /\ proc_table
        /\ 1 \in open => handles(1, "keyboard")
        /\ (\E t \in Threads : Runs(t)) =>
               /\ SYSCALL \in DOMAIN idt /\ idt[SYSCALL] = "syscall" /\ syscall_table = NR_SYSCALLS
               /\ 50 \in DOMAIN idt /\ idt[50] = "IT_50"

\* The places of a console where a thread has written, and how many characters of its writer
\* there are up to a place.
Mine(out, t) == {i \in DOMAIN out : out[i][1] = t}
Rank(out, i) == Cardinality({j \in 1 .. i : out[j][1] = out[i][1]})

Expected(t) == IF printing[t].fn = "puts" THEN Append(printing[t].text, NEWLINE)
               ELSE printing[t].text

\* The places i of a text such that i and i + 1 are in a line that printf can collect.
Joined(text) ==
    {i \in 1 .. Len(text) - 1 :
        \E first \in 1 .. i, last \in i + 1 .. Len(text) :
            /\ last - first < PRINTF_BUFMAX
            /\ \A j \in first .. last : text[j] \notin {NUL, NEWLINE}
            /\ first = 1 \/ text[first - 1] \in {NUL, NEWLINE}
            /\ last = Len(text) \/ text[last + 1] \in {NUL, NEWLINE}}

\* What a thread prints comes out once and in order, however the characters fall into the
\* buffer, and no other thread writes into a line that printf can collect.
LinesWhole ==
    \A t \in Threads :
        LET p == printing[t]
        IN  /\ Cardinality(Mine(console, t)) = p.taken - Len(p.buf)
            /\ p.step = "done" => Cardinality(Mine(console, t)) = Len(Expected(t))
            /\ \A i \in Mine(console, t) : Rank(console, i) \in DOMAIN Expected(t)
                                    /\ console[i][2] = Expected(t)[Rank(console, i)]
            /\ p.fn = "printf" =>
                   \A i \in Mine(console, t) :
                       Rank(console, i) - 1 \in Joined(p.text) => i - 1 \in Mine(console, t)
=============================================================================
