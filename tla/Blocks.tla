------------------------------- MODULE Blocks -------------------------------
(***************************************************************************)
(* What an allocator promises: blocks of memory that do not overlap, each  *)
(* aligned and as long as was asked for, that stay where they are and keep *)
(* what is in them until they are given back or resized.                   *)
(***************************************************************************)
EXTENDS Integers

CONSTANTS
    Memory,         \* the addresses there are
    Alignment

\* For the address of each block its length, and how many of the bytes that its user
\* counts on, from the first, are still there: all that were written, or cleared.
VARIABLE blocks

Proper(bs) ==
    \A m \in DOMAIN bs :
        /\ m % Alignment = 0 /\ m .. m + bs[m].length - 1 \subseteq Memory
        /\ \A o \in DOMAIN bs \ {m} : m + bs[m].length <= o \/ o + bs[o].length <= m

Untouched(ms) == ms \subseteq DOMAIN blocks' /\ \A m \in ms : blocks'[m] = blocks[m]

\* One block, or several at once.
Alloc ==
    /\ Proper(blocks') /\ Untouched(DOMAIN blocks)
    /\ \A m \in DOMAIN blocks' \ DOMAIN blocks : blocks'[m].kept = blocks'[m].length

\* The block stays or moves; it keeps what the new length has room for.
Resize ==
    \E b \in DOMAIN blocks, m \in DOMAIN blocks' :
        /\ Proper(blocks') /\ Untouched(DOMAIN blocks \ {b})
        /\ DOMAIN blocks' = (DOMAIN blocks \ {b}) \cup {m}
        /\ blocks'[m].kept = IF blocks[b].kept < blocks'[m].length
                             THEN blocks[b].kept ELSE blocks'[m].length

Free == \E b \in DOMAIN blocks :
            DOMAIN blocks' = DOMAIN blocks \ {b} /\ Untouched(DOMAIN blocks \ {b})

Init == DOMAIN blocks = {}
Next == Alloc \/ Resize \/ Free
Spec == Init /\ [][Next]_blocks
=============================================================================
