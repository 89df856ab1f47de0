-------------------------------- MODULE Heap --------------------------------
(***************************************************************************)
(* The calls that lib/malloc.c offers, and a program that makes them in    *)
(* any order: one call is one step (the kernel calls malloc with           *)
(* interrupts disabled, or before there is anything to interrupt it).      *)
(***************************************************************************)
EXTENDS Malloc

CONSTANTS
    Requests,       \* lengths asked for
    Alignments,     \* of memalign
    Elements,       \* sequences of lengths for independent_comalloc
    MxfastValues, Pads, Thresholds,     \* what mallopt sets
    MaxLive,        \* bound: blocks at a time
    MaxCalls        \* bound: calls

\* With M_MXFAST at 0 the last fastbin is the one before the first: malloc_consolidate's loop
\* passes it by and runs on through memory.
ASSUME HeapAssumption ==
    /\ 0 \notin MxfastValues
    /\ Requests \cup Alignments \subseteq Nat \ {0}
    /\ {MaxLive, MaxCalls} \subseteq Nat

VARIABLES
    heap,
    live,           \* the blocks of the program: length, and bytes still there (see Blocks)
    mismarked,      \* an independent_* call has got a chunk that follows a free one (see iALLOc)
    calls

vars == <<heap, live, mismarked, calls>>

-----------------------------------------------------------------------------
(***************************************************************************)
(* realloc, memalign and the others.                                       *)
(***************************************************************************)
\* What is left of a chunk of `size` bytes beyond nb is freed if it can be a chunk.
Shrunk(h, p, size, nb) ==
    LET rest == p + nb
        left == size - nb
    IN  IF left < MINSIZE
        THEN Returned(set_inuse_bit_at_offset(set_head_size(h, p, size), p, size), p)
        ELSE Returned(fREe(set_inuse_bit_at_offset(
                               set_head(set_head_size(h, p, nb), rest, left, TRUE), rest, left),
                           chunk2mem(rest)), p)

\* h has just allocated: copy, free; or the new chunk is the one after the old and they are joined.
Moved(h, p, nb) ==
    LET newp == mem2chunk(h.ret)
    IN  CASE h.ret = NULL -> h
          [] h.ret # NULL /\ newp = next_chunk(h, p) -> Shrunk(h, p, h.size[p] + h.size[newp], nb)
          [] OTHER -> Returned(fREe(h, chunk2mem(p)), newp)

rEALLOc(h, oldmem, bytes) ==
    LET nb   == request2size(bytes)
        p    == mem2chunk(oldmem)
        next == next_chunk(h, p)
        both == h.size[p] + h.size[next]
    IN  CASE REQUEST_OUT_OF_RANGE(bytes) -> Failed(h)
          [] ~ REQUEST_OUT_OF_RANGE(bytes) /\ h.size[p] >= nb -> Shrunk(h, p, h.size[p], nb)
          [] ~ REQUEST_OUT_OF_RANGE(bytes) /\ h.size[p] < nb ->
                IF next = h.top /\ both >= nb + MINSIZE
                THEN Returned([set_head(set_head_size(h, p, nb), p + nb, both - nb, TRUE)
                                 EXCEPT !.top = p + nb], p)
                ELSE IF next # h.top /\ ~ inuse(h, next) /\ both >= nb
                THEN Shrunk(unlink(h, next), p, both, nb)
                ELSE Moved(mALLOc(h, nb - MALLOC_ALIGNMENT + 1), p, nb)

\* Mutant: the last of the words is left out.
Unrolled_Short(size) == size - 2 * SIZE_SZ

\* The words that realloc copies and calloc clears, one by one up to nine.
Unrolled(size) ==
    LET words == (size - SIZE_SZ) \div SIZE_SZ
    IN  IF words > 9 THEN size - SIZE_SZ
        ELSE SIZE_SZ * (CASE words > 8 -> 9 [] words \in 7 .. 8 -> 7 [] words \in 5 .. 6 -> 5
                          [] OTHER -> 3)

PowerOfTwo(n) == CHOOSE a \in {MINSIZE * 2 ^ k : k \in 0 .. 24} : a >= n /\ (a = MINSIZE \/ a < 2 * n)

\* calloc asks for the product as a word holds it.
cALLOc(h, n_elements, elem_size) == mALLOc(h, (n_elements * elem_size) % WORD)

\* What is before newp in the chunk at p is given back, and what is beyond nb bytes at newp.
LedOff(h, p, newp) ==
    LET size == h.size[p] - (newp - p)
    IN  IF newp = p THEN h
        ELSE fREe(set_head_size(set_inuse_bit_at_offset(set_head(h, newp, size, TRUE), newp, size),
                                p, newp - p), chunk2mem(p))

CutOff(h, newp, nb) ==
    LET rest == newp + nb
        left == h.size[newp] - nb
    IN  IF left <= MINSIZE THEN h
        ELSE fREe(set_head_size(set_head(h, rest, left, TRUE), newp, nb), chunk2mem(rest))

\* h has just allocated a chunk that is long enough for an aligned one in it.
Aligned(h, a, nb) ==
    LET p    == mem2chunk(h.ret)
        at   == mem2chunk(RoundUp(h.ret, a))
        newp == CASE h.ret % a = 0 -> p
                  [] h.ret % a # 0 /\ at - p < MINSIZE -> at + a
                  [] OTHER -> at
    IN  IF h.ret = NULL THEN h ELSE Returned(CutOff(LedOff(h, p, newp), newp, nb), newp)

mEMALIGn(h, alignment, bytes) ==
    LET a  == PowerOfTwo(alignment)
        nb == request2size(bytes)
    IN  CASE alignment <= MALLOC_ALIGNMENT -> mALLOc(h, bytes)
          [] alignment > MALLOC_ALIGNMENT /\ REQUEST_OUT_OF_RANGE(bytes) -> Failed(h)
          [] OTHER -> Aligned(mALLOc(h, (nb + a + MINSIZE) % WORD), a, nb)

Initialized(h) == IF h.max_fast = 0 THEN malloc_consolidate(h) ELSE h

vALLOc(h, bytes)  == mEMALIGn(Initialized(h), pagesize, bytes)
pVALLOc(h, bytes) == mEMALIGn(Initialized(h), pagesize, RoundUp(bytes, pagesize))
TopTrimmed(h, pad) == IF h.top = NULL THEN h ELSE sYSTRIm(h, pad)
mTRIm(h, pad)      == TopTrimmed(malloc_consolidate(h), pad)

\* The sum of the chunks of the elements before the i-th.
Before(sizes, i) == FoldLeft(LAMBDA sum, s : sum + request2size(s), 0, SubSeq(sizes, 1, i - 1))

\* The chunk at h.ret is cut into one for each element, and one for the array of their addresses
\* unless the caller has it; the last absorbs what is over.  Each is marked as following a chunk
\* in use.
CutUp(h, sizes, given) ==
    LET n        == Len(sizes)
        contents == Before(sizes, n + 1)
        p        == mem2chunk(h.ret)
        elements == IF given THEN h.size[p] ELSE contents
        Cut(hh, i) == set_head(hh, p + Before(sizes, i),
                               IF i = n THEN elements - Before(sizes, n) ELSE request2size(sizes[i]),
                               TRUE)
    IN  IF h.ret = NULL THEN h
        ELSE FoldLeft(Cut, IF given THEN h ELSE set_head(h, p + contents, h.size[p] - contents, TRUE),
                      [i \in 1 .. n |-> i])

iALLOc(h, sizes, given) ==
    LET array == IF given THEN 0 ELSE request2size(Len(sizes) * SIZE_SZ)
    IN  CutUp(mALLOc(Initialized(h),
                     Before(sizes, Len(sizes) + 1) + array - MALLOC_ALIGNMENT + 1), sizes, given)

\* The addresses of the elements, and of the array.
iALLOcMems(h, sizes, given) ==
    [i \in 1 .. Len(sizes) + (IF given THEN 0 ELSE 1) |-> h.ret + Before(sizes, i)]

M_MXFAST         == 1
M_TRIM_THRESHOLD == -1
M_TOP_PAD        == -2

mALLOPt(h, param_number, value) ==
    LET h1 == malloc_consolidate(h)
    IN  CASE param_number = M_MXFAST /\ value \in 0 .. MAX_FAST_SIZE ->
                [h1 EXCEPT !.max_fast = IF value = 0 THEN 8 ELSE request2size(value)]
          [] param_number = M_TRIM_THRESHOLD -> [h1 EXCEPT !.trim_threshold = value]
          [] param_number = M_TOP_PAD        -> [h1 EXCEPT !.top_pad = value]
          [] OTHER -> h1

InLists(lists) == UNION {ToSet(lists[i]) : i \in DOMAIN lists}

mUSABLe(h, mem) == IF inuse(h, mem2chunk(mem)) THEN h.size[mem2chunk(mem)] - SIZE_SZ ELSE 0

-----------------------------------------------------------------------------
(***************************************************************************)
(* A program.                                                              *)
(***************************************************************************)
NewBlock(n, kept) == [length |-> n, kept |-> IF kept < n THEN kept ELSE n]

\* The call has left h.
Leaves(h) == heap' = Forgotten(Failed(h))

\* The call has left h; the program has a block of n bytes where it says, unless it failed: as
\* many of them are kept.
Obtained(h, n, kept, others) ==
    /\ Leaves(Handed(h, h.ret))
    /\ live' = IF h.ret = NULL THEN others ELSE (h.ret :> NewBlock(n, kept)) @@ others

Call == calls < MaxCalls /\ calls' = calls + 1
Room == Cardinality(DOMAIN live) < MaxLive

malloc == \E n \in Requests :
    /\ Call /\ Room
    /\ Obtained(mALLOc(heap, n), n, n, live)
    /\ UNCHANGED mismarked

Cleared(h, n) == Obtained(h, n, IF h.ret = NULL THEN 0 ELSE Unrolled(h.size[mem2chunk(h.ret)]), live)

calloc == \E n \in Requests :
    /\ Call /\ Room
    /\ Cleared(cALLOc(heap, 1, n), n)
    /\ UNCHANGED mismarked

memalign == \E n \in Requests, a \in Alignments :
    /\ Call /\ Room
    /\ Obtained(mEMALIGn(heap, a, n), n, n, live)
    /\ UNCHANGED mismarked

valloc == \E n \in Requests :
    /\ Call /\ Room
    /\ \/ Obtained(vALLOc(heap, n), n, n, live)
       \/ Obtained(pVALLOc(heap, n), RoundUp(n, pagesize), RoundUp(n, pagesize), live)
    /\ UNCHANGED mismarked

\* A block that does not move keeps all that its new length has room for.
Resized(h, m, n) ==
    LET kept == IF h.ret = m THEN live[m].kept
                ELSE NewBlock(live[m].kept, Unrolled(heap.size[mem2chunk(m)])).kept
    IN  Obtained(h, n, kept, IF h.ret = NULL THEN live ELSE [b \in DOMAIN live \ {m} |-> live[b]])

realloc == \E m \in DOMAIN live, n \in Requests :
    /\ Call
    /\ Resized(rEALLOc(heap, m, n), m, n)
    /\ UNCHANGED mismarked

\* free, and cfree.
free == \E m \in DOMAIN live :
    /\ Call
    /\ Leaves(fREe(heap, m))
    /\ live' = [b \in DOMAIN live \ {m} |-> live[b]]
    /\ UNCHANGED mismarked

SeveralObtained(h, sizes, given) ==
    LET mems == iALLOcMems(h, sizes, given)
        fast == mem2chunk(h.ret) \in InLists(heap.fastbins)
        Length(m) == LET i == CHOOSE j \in DOMAIN mems : mems[j] = m
                     IN  IF i <= Len(sizes) THEN sizes[i] ELSE Len(sizes) * SIZE_SZ
    IN  IF h.ret = NULL THEN Leaves(h) /\ UNCHANGED <<live, mismarked>>
        ELSE /\ mismarked' = (mismarked \/ (fast /\ ~ heap.prev_inuse[mem2chunk(h.ret)]))
             /\ Leaves(FoldLeft(Handed, h, mems))
             /\ live' = [m \in ToSet(mems) |-> NewBlock(Length(m), Length(m))] @@ live

\* independent_comalloc; independent_calloc is the case of equal lengths.
comalloc == \E sizes \in Elements, given \in BOOLEAN :
    /\ Call
    /\ Cardinality(DOMAIN live) + Len(sizes) <= MaxLive - (IF given THEN 0 ELSE 1)
    /\ SeveralObtained(iALLOc(heap, sizes, given), sizes, given)

mallopt ==
    /\ Call
    /\ \/ \E v \in MxfastValues : Leaves(mALLOPt(heap, M_MXFAST, v))
       \/ \E v \in Pads         : Leaves(mALLOPt(heap, M_TOP_PAD, v))
       \/ \E v \in Thresholds   : Leaves(mALLOPt(heap, M_TRIM_THRESHOLD, v))
    /\ UNCHANGED <<live, mismarked>>

malloc_trim == Call /\ Leaves(mTRIm(heap, 0)) /\ UNCHANGED <<live, mismarked>>

Init == heap = ZeroHeap /\ live = << >> /\ mismarked = FALSE /\ calls = 0
Next == malloc \/ calloc \/ memalign \/ valloc \/ realloc \/ free \/ comalloc \/ mallopt \/ malloc_trim
Spec == Init /\ [][Next]_vars

-----------------------------------------------------------------------------
(***************************************************************************)
(* Properties.  The first are the assertions of do_check_malloc_state,     *)
(* which the kernel compiles without.                                      *)
(***************************************************************************)
do_check_free_chunk(h, p) ==
    LET next == next_chunk(h, p)
    IN  /\ ~ inuse(h, p) /\ h.size[p] >= MINSIZE /\ h.size[p] % MALLOC_ALIGNMENT = 0
        /\ h.prev_size[next] = h.size[p]
        /\ h.prev_inuse[p] /\ (next = h.top \/ inuse(h, next))

do_check_inuse_chunk(h, p) ==
    LET next == next_chunk(h, p)
    IN  /\ p >= mem_heap /\ next <= h.top /\ inuse(h, p)
        /\ ~ h.prev_inuse[p] =>
                next_chunk(h, p - h.prev_size[p]) = p /\ do_check_free_chunk(h, p - h.prev_size[p])
        /\ IF next = h.top THEN h.prev_inuse[next] /\ h.size[next] >= MINSIZE
           ELSE inuse(h, next) \/ do_check_free_chunk(h, next)

do_check_fastbins(h) ==
    /\ h.max_fast <= request2size(MAX_FAST_SIZE)
    /\ \A i \in FastBins : \A p \in ToSet(h.fastbins[i]) :
          i <= fastbin_index(h.max_fast) /\ do_check_inuse_chunk(h, p) /\ fastbin_index(h.size[p]) = i
    /\ h.fastchunks \/ InLists(h.fastbins) = {}

do_check_bins(h) ==
    \A i \in Bins :
        /\ i # UNSORTED /\ h.bins[i] # <<>> => i \in h.binmap
        /\ \A p \in ToSet(h.bins[i]) :
              do_check_free_chunk(h, p) /\ (i # UNSORTED => bin_index(h.size[p]) = i)
        /\ i # UNSORTED => \A j \in 2 .. Len(h.bins[i]) : h.size[h.bins[i][j - 1]] >= h.size[h.bins[i][j]]

do_check_malloc_state(h) ==
    h.top # NULL =>
        /\ do_check_fastbins(h) /\ do_check_bins(h)
        /\ h.size[h.top] >= MINSIZE /\ h.prev_inuse[h.top]
        /\ h.sbrked_mem <= h.max_sbrked_mem

LiveChunks == {mem2chunk(m) : m \in DOMAIN live}

\* The assertions of the code hold after any calls: tags, links, bins and their map agree.  What
\* an independent_* call leaves may be excepted: it marks its first chunk as following one in
\* use, which is not so of a chunk that it got from a fastbin after a free one.
Checked ==
    ~ mismarked =>
        do_check_malloc_state(heap) /\ \A p \in LiveChunks : do_check_inuse_chunk(heap, p)

\* A block has the room its user asked for, and the allocator never writes in its last word,
\* where the footer of a free chunk would be.
BlocksUntouched ==
    \A m \in DOMAIN live :
        /\ live[m].length <= mUSABLe(heap, m)
        /\ heap.prev_size[next_chunk(heap, mem2chunk(m))] = DATA

\* Chunks cover the memory that sbrk has given, up to the break; each is top, or in use by the
\* program, all of it, or in one list once: no call sequence loses one, has it twice or writes
\* in it.
NothingLost ==
    /\ BlocksUntouched
    /\ heap.top # NULL =>
           LET fast == InLists(heap.fastbins)
               binned == InLists(heap.bins)
           IN  /\ Walk(heap, FirstChunk) = {heap.top} \cup LiveChunks \cup fast \cup binned
               /\ next_chunk(heap, heap.top) = heap.curptr
               /\ {heap.top} \cap (LiveChunks \cup fast \cup binned) = {}
               /\ LiveChunks \cap (fast \cup binned) = {} /\ fast \cap binned = {}
               /\ FoldFunction(+, 0, [i \in Bins |-> Len(heap.bins[i])]) = Cardinality(binned)
               /\ FoldFunction(+, 0, [i \in FastBins |-> Len(heap.fastbins[i])])
                      = Cardinality(fast)

\* The memory between chunks in use, and what is left after the last one.
Gaps == {g \in Chunks \X Chunks :
            /\ g[1] = FirstChunk \/ \E p \in LiveChunks : next_chunk(heap, p) = g[1]
            /\ g[2] \in LiveChunks /\ g[1] <= g[2]
            /\ \A p \in LiveChunks : p < g[1] \/ g[2] <= p}
LastEnd == IF LiveChunks = {} THEN FirstChunk ELSE next_chunk(heap, Max(LiveChunks))

\* malloc returns 0 only when no gap between the blocks of the program, nor the memory after
\* the last, is long enough: however it was freed, free memory is joined before malloc gives up.
FailsOnlyWhenFull ==
    ~ mismarked /\ heap.top # NULL =>
        \A n \in Requests : mALLOc(heap, n).ret = NULL =>
            LET nb == request2size(n)
            IN  /\ \A g \in Gaps : g[2] - g[1] < nb
                /\ mem_heap_end - LastEnd < nb + MINSIZE + heap.top_pad

\* The calls behave as an allocator should (see Blocks), contents included.
B == INSTANCE Blocks WITH blocks <- live, Memory <- mem_heap .. mem_heap_end - 1,
                          Alignment <- MALLOC_ALIGNMENT
ImplementsBlocks == B!Spec
=============================================================================
