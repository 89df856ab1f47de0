------------------------------ MODULE Keyboard ------------------------------
(***************************************************************************)
(* The keyboard of n7OS: the interrupt handler and the ring buffer of      *)
(* kernel/keyboard.c, and the ways processes read it, kgetch (terminal,    *)
(* snake), getchar (lib/scanf.c) and the read system call (kernel/sys.c).  *)
(*                                                                         *)
(* The handler runs with interrupts disabled: one step.  Its reader runs   *)
(* with interrupts enabled (sys_read begins with a sti): one step for each *)
(* access to what the handler shares with it.  One process reads at a      *)
(* time: Processus1 ends before the terminal it forks reads, and snake     *)
(* runs inside the terminal.                                               *)
(***************************************************************************)
EXTENDS Integers, Sequences

CONSTANTS
    Size,       \* cells of buffer (256 in the code)
    CellBytes,  \* sizeof(buffer[0]) (4 in the code)
    Keys,       \* the keys that the scancode maps know
    Special,    \* those of them whose code is above 255 (escape, tab)
    Strokes,    \* the byte sequences the user's keystrokes send
    WireMax,    \* bytes the keyboard controller keeps for a masked interrupt
    ReadSize    \* size argument of the read system call

ASSUME KeyboardAssumption ==
    /\ Size \in Nat /\ Size >= 2
    /\ CellBytes \in Nat \ {0}
    /\ Keys # {} /\ Special \subseteq Keys
    /\ WireMax \in Nat \ {0}
    /\ ReadSize \in Nat \ {0}

(***************************************************************************)
(* The bytes the keyboard sends.  An arrow sends two, E0 and a second one; *)
(* SHIFT and UNSHIFT are the two shift keys going down and up; RELEASE is  *)
(* any other key going up.                                                 *)
(***************************************************************************)
E0      == "E0"
ARROW   == "ARROW"      \* second byte of an arrow going down
NOARROW == "NOARROW"    \* second byte of anything else
SHIFT   == "SHIFT"
UNSHIFT == "UNSHIFT"
RELEASE == "RELEASE"

Seconds   == {ARROW, NOARROW}
Scancodes == Keys \cup Seconds \cup {E0, SHIFT, UNSHIFT, RELEASE}

\* A keyboard sends E0 and the byte that it announces together, and no such byte alone.
ASSUME StrokesAssumption ==
    /\ Keys \cap (Seconds \cup {E0, SHIFT, UNSHIFT, RELEASE}) = {}
    /\ Strokes \subseteq Seq(Scancodes) \ {<<>>}
    /\ \A s \in Strokes :
          /\ s[1] \notin Seconds /\ s[Len(s)] # E0
          /\ \A i \in 2 .. Len(s) : s[i] \in Seconds <=> s[i - 1] = E0

\* The buffer's values: a key with or without shift, an arrow; what kgetch returns
\* without one.
Chars == (Keys \X BOOLEAN) \cup {<<ARROW>>}
NOKEY == <<"NOKEY">>

Calls == {"kgetch", "getchar", "read", "init_keyboard", "mask_keyboard"}

\* The handler computes the index of an arrow modulo sizeof(buffer), a number of bytes.
Bytes == Size * CellBytes
Cells == 0 .. Bytes - 1

VARIABLES
    buffer,         \* buffer[], and the memory after it that indices below Bytes reach
    buffer_head,
    buffer_tail,
    shift_down,
    e0_prefix,
    masked,         \* IRQ1's bit of the interrupt mask
    wire,           \* bytes waiting in the keyboard controller
    call,           \* the function the reader is in
    pc,             \* where it is in it
    c,              \* the local that kgetch reads a cell into
    ret,            \* what the last kgetch returned
    left            \* characters the call has still to return

hvars  == <<buffer, buffer_tail, shift_down, e0_prefix>>
rvars  == <<call, pc, c, ret, left>>
vars   == <<hvars, buffer_head, masked, wire, rvars>>

Init ==
    /\ buffer = [i \in Cells |-> NOKEY]
    /\ buffer_head = 0 /\ buffer_tail = 0
    /\ shift_down = FALSE /\ e0_prefix = FALSE
    /\ masked = TRUE
    /\ wire = <<>>
    /\ call = "mask_keyboard" /\ pc = "ready"
    /\ c = NOKEY /\ ret = NOKEY /\ left = 0

-----------------------------------------------------------------------------
(* The user and the interrupt.                                             *)

\* The controller takes all the bytes of a stroke or, when it is full, none.
type(stroke) ==
    /\ Len(wire) + Len(stroke) <= WireMax
    /\ wire' = wire \o stroke
    /\ UNCHANGED <<hvars, buffer_head, masked, rvars>>

\* Mutant: the buffer is never found full.
BufferFull_Never == FALSE

next_tail  == (buffer_tail + 1) % Size
BufferFull == next_tail = buffer_head

prefix_byte(s) ==
    /\ s = E0
    /\ e0_prefix' = TRUE
    /\ UNCHANGED <<buffer, buffer_tail, shift_down>>

\* Mutant: the second byte of a sequence is read as a key of its own.
second_byte_Forgets(s) ==
    /\ e0_prefix
    /\ s # E0
    /\ UNCHANGED <<buffer, buffer_tail, e0_prefix, shift_down>>

second_byte(s) ==
    /\ e0_prefix
    /\ s # E0
    /\ e0_prefix' = FALSE
    /\ IF s = ARROW
       THEN /\ buffer' = [buffer EXCEPT ![buffer_tail] = <<ARROW>>]
            /\ buffer_tail' = (buffer_tail + 1) % Bytes
       ELSE UNCHANGED <<buffer, buffer_tail>>
    /\ UNCHANGED shift_down

modifier_byte(s) ==
    /\ ~ e0_prefix
    /\ s \in {SHIFT, UNSHIFT, RELEASE}
    /\ shift_down' = (IF s = RELEASE THEN shift_down ELSE s = SHIFT)
    /\ UNCHANGED <<buffer, buffer_tail, e0_prefix>>

key_byte(s) ==
    /\ ~ e0_prefix
    /\ s \in Keys
    /\ IF BufferFull
       THEN UNCHANGED <<buffer, buffer_tail>>
       ELSE /\ buffer' = [buffer EXCEPT ![buffer_tail] = <<s, shift_down>>]
            /\ buffer_tail' = next_tail
    /\ UNCHANGED <<e0_prefix, shift_down>>

keyboard_handler ==
    /\ ~ masked
    /\ wire # <<>>
    /\ wire' = Tail(wire)
    /\ LET scancode == Head(wire)
       IN  \/ prefix_byte(scancode)
           \/ second_byte(scancode)
           \/ modifier_byte(scancode)
           \/ key_byte(scancode)
    /\ UNCHANGED <<buffer_head, masked, rvars>>

-----------------------------------------------------------------------------
(* The reader.                                                             *)

Reading == UNCHANGED <<buffer, buffer_tail, shift_down, e0_prefix, wire>>

\* A process calls one of the functions.  init_keyboard and mask_keyboard are also
\* called by the others: getchar and read begin with one and end with the other.
enter(f) ==
    /\ pc = "ready"
    /\ call' = f
    /\ pc' = CASE f = "kgetch" -> "poll"
               [] f = "mask_keyboard" -> "mask"
               [] OTHER -> "open"
    /\ left' = IF f = "read" THEN ReadSize ELSE 1
    /\ UNCHANGED <<buffer_head, masked, c, ret>>
    /\ Reading

\* clear_buffer, at the beginning of init_keyboard ("open") and at the end of
\* mask_keyboard ("close"): its two assignments.
clear_head ==
    /\ pc \in {"open", "close"}
    /\ buffer_head' = 0
    /\ pc' = IF pc = "open" THEN "opening" ELSE "closing"
    /\ UNCHANGED <<masked, call, c, ret, left>>
    /\ Reading

clear_tail ==
    /\ pc \in {"opening", "closing"}
    /\ buffer_tail' = 0
    /\ pc' = IF pc = "opening" THEN "unmask" ELSE "ready"
    /\ UNCHANGED <<buffer, buffer_head, shift_down, e0_prefix, masked, wire, call, c, ret, left>>

\* Mutant: the bit of another interrupt is cleared.
unmask_WrongBit ==
    /\ pc = "unmask"
    /\ pc' = IF call = "init_keyboard" THEN "ready" ELSE "poll"
    /\ UNCHANGED <<masked, buffer_head, call, c, ret, left>>
    /\ Reading

unmask ==
    /\ pc = "unmask"
    /\ masked' = FALSE
    /\ pc' = IF call = "init_keyboard" THEN "ready" ELSE "poll"
    /\ UNCHANGED <<buffer_head, call, c, ret, left>>
    /\ Reading

is_buffer_empty == buffer_head = buffer_tail

\* kgetch finds nothing: it returns -1, and getchar and read try again.
kgetch_empty ==
    /\ pc = "poll"
    /\ is_buffer_empty
    /\ ret' = NOKEY
    /\ pc' = IF call = "kgetch" THEN "ready" ELSE "poll"
    /\ UNCHANGED <<buffer_head, masked, call, c, left>>
    /\ Reading

\* kgetch reads a cell, and then moves the head.
kgetch_read ==
    /\ pc = "poll"
    /\ ~ is_buffer_empty
    /\ c' = buffer[buffer_head]
    /\ pc' = "advance"
    /\ UNCHANGED <<buffer_head, masked, call, ret, left>>
    /\ Reading

\* Characters still to return: those above 255 do not count for read.
Remaining == IF call = "read" /\ c[1] \in Special \cup {ARROW} THEN left ELSE left - 1

kgetch_advance ==
    /\ pc = "advance"
    /\ buffer_head' = (buffer_head + 1) % Size
    /\ ret' = c
    /\ left' = Remaining
    /\ pc' = IF call = "kgetch" THEN "ready"
             ELSE IF Remaining > 0 THEN "poll"
             ELSE "mask"
    /\ UNCHANGED <<masked, call, c>>
    /\ Reading

\* Mutant: the bit of another interrupt is set.
mask_WrongBit ==
    /\ pc = "mask"
    /\ pc' = "close"
    /\ UNCHANGED <<masked, buffer_head, call, c, ret, left>>
    /\ Reading

mask ==
    /\ pc = "mask"
    /\ masked' = TRUE
    /\ pc' = "close"
    /\ UNCHANGED <<buffer_head, call, c, ret, left>>
    /\ Reading

Reader ==
    \/ clear_head \/ clear_tail \/ unmask \/ mask
    \/ kgetch_empty \/ kgetch_read \/ kgetch_advance

Next ==
    \/ \E stroke \in Strokes : type(stroke)
    \/ \E f \in Calls : enter(f)
    \/ keyboard_handler
    \/ Reader

Spec == Init /\ [][Next]_vars

\* A function once called goes on (its process is scheduled again and again, see Proc's
\* StarvationFree), and so does a pending interrupt that is not masked.
Fairness == WF_vars(Reader) /\ WF_vars(keyboard_handler)

FairSpec == Spec /\ Fairness

\* The fair behaviours in which an arrow arrives only while the buffer has room for it before the
\* end of the array: what the ring does as long as the defects of arrows do not show.
ArrowsFit ==
    keyboard_handler /\ e0_prefix /\ Head(wire) = ARROW
        => buffer_tail < Size - 1 /\ ~ BufferFull

FittingSpec == Init /\ [][Next /\ ArrowsFit]_vars /\ Fairness

-----------------------------------------------------------------------------
(* Properties.                                                             *)

TypeOK ==
    /\ buffer \in [Cells -> Chars \cup {NOKEY}]
    /\ buffer_head \in 0 .. Size - 1
    /\ buffer_tail \in Cells
    /\ {shift_down, e0_prefix, masked} \subseteq BOOLEAN
    /\ wire \in Seq(Scancodes) /\ Len(wire) <= WireMax
    /\ call \in Calls
    /\ pc \in {"ready", "open", "opening", "close", "closing", "unmask", "poll", "advance", "mask"}
    /\ {c, ret} \subseteq Chars \cup {NOKEY}
    /\ left \in 0 .. ReadSize

\* The characters between the indices, oldest first.
Contents ==
    [i \in 1 .. (buffer_tail - buffer_head) % Size |-> buffer[(buffer_head + i - 1) % Size]]

\* The ring is a FIFO queue of one cell less than the array, whatever the interleaving of
\* interrupts with the steps of a reader: no character is lost unless the queue is full or
\* being cleared, none comes twice or out of order.
F == INSTANCE Fifo WITH
         Values   <- Chars,
         None     <- NOKEY,
         Capacity <- Size - 1,
         queue    <- IF pc \in {"opening", "closing"} THEN <<>> ELSE Contents,
         taken    <- ret,
         clearing <- pc \in {"opening", "closing"}

ImplementsFifo == F!FSpec

\* The handler's memory of an E0 byte is always about the byte it reads next, however
\* often the interrupt was masked between the two.
PrefixInStep == e0_prefix <=> wire # <<>> /\ Head(wire) \in Seconds

\* When mask_keyboard, getchar or read has returned, no interrupt can come and the buffer
\* is empty: nothing slipped in between masking and clearing.
QuietWhenMasked ==
    pc = "ready" /\ call \in {"mask_keyboard", "getchar", "read"}
        => masked /\ is_buffer_empty

\* getchar returns if the user types on.
GetcharReturns ==
    pc = "poll" /\ call = "getchar" /\ (\E i \in 1 .. Len(wire) : wire[i] \in Keys)
        ~> pc = "ready"
=============================================================================
