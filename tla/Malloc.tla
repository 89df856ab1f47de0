------------------------------- MODULE Malloc -------------------------------
(***************************************************************************)
(* The allocator of n7OS, lib/malloc.c (Doug Lea's, version 2.7) over      *)
(* sbrk (kernel/sbrk.c), as the kernel configures it: no mmap, no lock, no *)
(* debugging, and nobody else calls sbrk, so that each piece sbrk gives    *)
(* begins where the last one ended.                                        *)
(*                                                                         *)
(* A heap is a record: the state of malloc (`struct malloc_state`), the    *)
(* boundary tags in memory, the break, and `ret`, what the call returns.   *)
(* An operation takes a heap and gives the heap it leaves.  Lists of free  *)
(* chunks are sequences, from fd to bk.  Addresses and sizes are in bytes. *)
(***************************************************************************)
EXTENDS Integers, SequencesExt

CONSTANTS
    WORD,                       \* 2^32: a size_t counts modulo WORD
    mem_heap, mem_heap_end,     \* the end of the kernel, and 16 MB
    pagesize,                   \* 4096
    MIN_LARGE_SHIFT,            \* 8: smaller bins below 2^8 = MIN_LARGE_SIZE
    DEFAULT_MXFAST,             \* 64
    DEFAULT_TRIM_THRESHOLD      \* 256 K

SIZE_SZ          == 4
MALLOC_ALIGNMENT == 2 * SIZE_SZ
MINSIZE          == 16          \* a struct malloc_chunk
MAX_FAST_SIZE    == 80
MIN_LARGE_SIZE   == 2 ^ MIN_LARGE_SHIFT
NSMALLBINS       == MIN_LARGE_SIZE \div 8
NBINS            == NSMALLBINS + 64
FASTBIN_CONSOLIDATION_THRESHOLD == DEFAULT_TRIM_THRESHOLD \div 2

NULL == -1      \* the address 0, and the top that is still initial_top
DATA == -2      \* a word that belongs to the caller of malloc

RoundUp(n, unit) == ((n + unit - 1) \div unit) * unit

ASSUME MallocAssumption ==
    /\ {mem_heap, mem_heap_end, pagesize, MIN_LARGE_SHIFT} \subseteq Nat
    /\ WORD \in Nat /\ WORD >= 4 * mem_heap_end /\ WORD % 8 = 0
    /\ MIN_LARGE_SHIFT >= 5 /\ pagesize % 8 = 0 /\ pagesize >= MINSIZE
    /\ mem_heap_end % pagesize = 0 /\ 0 < mem_heap /\ mem_heap < mem_heap_end
    /\ DEFAULT_MXFAST \in 1 .. MAX_FAST_SIZE

-----------------------------------------------------------------------------
chunk2mem(p)   == p + 2 * SIZE_SZ
mem2chunk(mem) == mem - 2 * SIZE_SZ

request2size(req) ==
    IF req + SIZE_SZ + MALLOC_ALIGNMENT - 1 < MINSIZE THEN MINSIZE
    ELSE ((req + SIZE_SZ + MALLOC_ALIGNMENT - 1) \div MALLOC_ALIGNMENT) * MALLOC_ALIGNMENT

\* checked_request2size: what would wrap around when padded is refused.
REQUEST_OUT_OF_RANGE(req) == req >= WORD - 2 * MINSIZE

in_smallbin_range(sz) == sz < MIN_LARGE_SIZE

HighestBit(x) == CHOOSE m \in 0 .. 29 : 2 ^ m <= x /\ x < 2 ^ (m + 1)

largebin_index(sz) ==
    LET x == sz \div MIN_LARGE_SIZE
        m == HighestBit(x)
    IN  IF x >= 65536 THEN NBINS - 1
        ELSE NSMALLBINS + 4 * m + ((sz \div 2 ^ (m + MIN_LARGE_SHIFT - 2)) % 4)

bin_index(sz) == IF in_smallbin_range(sz) THEN sz \div 8 ELSE largebin_index(sz)
fastbin_index(sz) == sz \div 8 - 2

Chunks   == {a \in mem_heap .. mem_heap_end : a % MALLOC_ALIGNMENT = 0}
Sizes    == {s \in MINSIZE .. mem_heap_end - mem_heap : s % MALLOC_ALIGNMENT = 0}
UNSORTED == 1
Bins     == {UNSORTED} \cup {bin_index(s) : s \in Sizes}
FastBins == 0 .. fastbin_index(request2size(MAX_FAST_SIZE))

\* av_ is all zeroes, and so is the memory that crt0 has cleared.
ZeroHeap ==
    [max_fast |-> 0, anychunks |-> FALSE, fastchunks |-> FALSE,
     fastbins |-> [i \in FastBins |-> <<>>], bins |-> [i \in Bins |-> <<>>], binmap |-> {},
     top |-> NULL, last_remainder |-> NULL, trim_threshold |-> 0, top_pad |-> 0,
     sbrked_mem |-> 0, max_sbrked_mem |-> 0,
     size |-> [a \in Chunks |-> 0], prev_inuse |-> [a \in Chunks |-> FALSE],
     prev_size |-> [a \in Chunks |-> 0],
     curptr |-> mem_heap, ret |-> NULL]

malloc_init_state(h) ==
    [h EXCEPT !.bins = [i \in Bins |-> <<>>], !.top_pad = 0, !.top = NULL,
              !.trim_threshold = DEFAULT_TRIM_THRESHOLD,
              !.max_fast = request2size(DEFAULT_MXFAST)]

-----------------------------------------------------------------------------
(***************************************************************************)
(* Boundary tags and lists.                                                *)
(***************************************************************************)
chunksize(h, p)  == IF p = NULL THEN 0 ELSE h.size[p]
next_chunk(h, p) == p + h.size[p]
inuse(h, p)      == h.prev_inuse[next_chunk(h, p)]

set_head(h, p, s, used) == [h EXCEPT !.size[p] = s, !.prev_inuse[p] = used]
set_head_size(h, p, s)  == [h EXCEPT !.size[p] = s]
set_foot(h, p, s)       == [h EXCEPT !.prev_size[p + s] = s]
set_inuse_bit_at_offset(h, p, s) == [h EXCEPT !.prev_inuse[p + s] = TRUE]

\* Takes a chunk out of the list its links say it is in.
unlink(h, p) == [h EXCEPT !.bins = [i \in Bins |-> SelectSeq(@[i], LAMBDA c : c # p)]]

Returned(h, p) == [h EXCEPT !.ret = chunk2mem(p)]
Failed(h)      == [h EXCEPT !.ret = NULL]

\* The word that would be the footer of a chunk in use is its user's.
Handed(h, mem) ==
    IF mem = NULL THEN h ELSE [h EXCEPT !.prev_size[next_chunk(h, mem2chunk(mem))] = DATA]

FirstChunk == mem2chunk(RoundUp(chunk2mem(mem_heap), MALLOC_ALIGNMENT))

\* The chunks from p on, as their sizes lead; a size that leads nowhere ends it.
RECURSIVE Walk(_, _)
Walk(h, p) ==
    IF p = h.top \/ h.size[p] < MINSIZE \/ next_chunk(h, p) \notin Chunks THEN {p}
    ELSE {p} \cup Walk(h, next_chunk(h, p))

\* What a tag held does not matter once it is inside a chunk, where users write, nor a footer
\* when the chunk before is not free: it is forgotten, so that whoever reads it reads 0.
Forgotten(h) ==
    LET heads == Walk(h, FirstChunk)
    IN  [h EXCEPT !.size       = [a \in Chunks |-> IF a \in heads THEN @[a] ELSE 0],
                  !.prev_inuse = [a \in Chunks |-> a \in heads /\ @[a]],
                  !.prev_size  = [a \in Chunks |-> IF a \in heads /\ (~ h.prev_inuse[a] \/ @[a] = DATA)
                                                   THEN @[a] ELSE 0]]

-----------------------------------------------------------------------------
(***************************************************************************)
(* free and malloc_consolidate.                                            *)
(***************************************************************************)
\* Where a chunk begins once it is joined with a free one before it.
Start(h, p) == IF h.prev_inuse[p] THEN p ELSE p - h.prev_size[p]

\* Mutant: the chunk after it is joined without being taken out of its bin.
Release_Linked(h, p) ==
    LET next == next_chunk(h, p)
        q    == Start(h, p)
        h1   == IF q = p THEN h ELSE unlink(h, q)
        size == h.size[next] + next - q
    IN  IF next = h.top
        THEN [set_head(h1, q, size, TRUE) EXCEPT !.top = q]
        ELSE LET total == IF inuse(h, next) THEN next - q ELSE size
             IN  [set_foot(set_head(set_head(h1, next, h.size[next], FALSE), q, total, TRUE), q, total)
                    EXCEPT !.bins[UNSORTED] = <<q>> \o @]

\* The consolidation that free and malloc_consolidate share: with the chunk before, with the
\* chunk after, into top or in front of the unsorted list.
Release(h, p) ==
    LET next == next_chunk(h, p)
        q    == Start(h, p)
        h1   == IF q = p THEN h ELSE unlink(h, q)
        size == h.size[next] + next - q
    IN  IF next = h.top
        THEN [set_head(h1, q, size, TRUE) EXCEPT !.top = q]
        ELSE LET used  == inuse(h, next)
                 total == IF used THEN next - q ELSE size
                 h2    == set_head(h1, next, h.size[next], FALSE)
                 h3    == IF used THEN h2 ELSE unlink(h2, next)
             IN  [set_foot(set_head(h3, q, total, TRUE), q, total)
                    EXCEPT !.bins[UNSORTED] = <<q>> \o @]

\* The chunks of the fastbins, a bin after the other; the last bin visited is the one of max_fast.
malloc_consolidate(h) ==
    IF h.max_fast = 0 THEN malloc_init_state(h)
    ELSE LET fast == FlattenSeq([i \in 1 .. fastbin_index(h.max_fast) + 1 |-> h.fastbins[i - 1]])
         IN  FoldLeft(Release, [h EXCEPT !.fastchunks = FALSE,
                                         !.fastbins = [i \in FastBins |-> <<>>]], fast)

\* kernel/sbrk.c: it never goes back.  The heap is left alone when it fails.
sbrk(h, diff) ==
    IF diff < 0 \/ h.curptr + diff > mem_heap_end THEN h ELSE [h EXCEPT !.curptr = @ + diff]

sYSTRIm(h, pad) ==
    LET top_size == h.size[h.top]
        extra    == ((top_size - pad - MINSIZE + pagesize - 1) \div pagesize - 1) * pagesize
        h1       == sbrk(h, - extra)
        released == h.curptr - h1.curptr
    IN  IF extra > 0 /\ h.curptr = h.top + top_size /\ released # 0
        THEN set_head([h1 EXCEPT !.sbrked_mem = @ - released], h.top, top_size - released, TRUE)
        ELSE h

Consolidated(h) == IF h.fastchunks THEN malloc_consolidate(h) ELSE h
Trimmed(h)      == IF h.size[h.top] >= h.trim_threshold THEN sYSTRIm(h, h.top_pad) ELSE h

\* After a large chunk has come about at p, what is fast is joined too and top may be trimmed.
Tidied(h, p) ==
    IF h.size[p] < FASTBIN_CONSOLIDATION_THRESHOLD THEN h ELSE Trimmed(Consolidated(h))

fREe(h, mem) ==
    LET p    == mem2chunk(mem)
        size == h.size[p]
        h0   == [h EXCEPT !.anychunks = TRUE, !.prev_size[p + size] = IF @ = DATA THEN 0 ELSE @]
    IN  IF size <= h.max_fast
        THEN [h0 EXCEPT !.fastchunks = TRUE, !.fastbins[fastbin_index(size)] = <<p>> \o @]
        ELSE Tidied(Release(h0, p), Start(h, p))

-----------------------------------------------------------------------------
(***************************************************************************)
(* malloc.                                                                 *)
(***************************************************************************)
\* The chunk at the beginning of top.
Carved(h, nb) ==
    LET p    == h.top
        size == h.size[p]
    IN  Returned([set_head(set_head(h, p, nb, TRUE), p + nb, size - nb, TRUE) EXCEPT !.top = p + nb], p)

Fits(h, nb) == chunksize(h, h.top) >= nb + MINSIZE

\* Top after more memory has come; the first time it begins on an aligned address, and a
\* second call of sbrk brings its end to the end of a page.
Extended(h, size) ==
    LET brk        == h.curptr
        h1         == sbrk(h, size)
        aligned    == RoundUp(chunk2mem(brk), MALLOC_ALIGNMENT) - 2 * SIZE_SZ
        wanted     == RoundUp(brk + size + (aligned - brk), pagesize) - (brk + size)
        h2         == sbrk(h1, wanted)
        correction == h2.curptr - h1.curptr
        h3         == IF h.top # NULL
                      THEN set_head([h1 EXCEPT !.sbrked_mem = @ + size],
                                    h.top, size + h.size[h.top], TRUE)
                      ELSE set_head([h2 EXCEPT !.top = aligned,
                                               !.sbrked_mem = @ + size + correction],
                                    aligned, brk + size - aligned + correction, TRUE)
    IN  [h3 EXCEPT !.max_sbrked_mem = IF h3.sbrked_mem > @ THEN h3.sbrked_mem ELSE @]

\* Nothing is returned where more memory is needed: see mALLOc.
use_top(h, nb) == IF Fits(h, nb) THEN Carved(h, nb) ELSE h

\* sYSMALLOc once no fastbin is left.
Grow(h, nb) ==
    LET size == RoundUp(nb + h.top_pad + MINSIZE - chunksize(h, h.top), pagesize)
    IN  IF size >= WORD \div 2 \/ sbrk(h, size) = h THEN Failed(h)
        ELSE use_top(Extended(Failed(h), size), nb)

\* A free chunk taken whole, and one that is split; the rest goes to the unsorted list.
\* Mutants: the chunk after it is not told; the rest keeps its old footer.
Taken_Untold(h, v) == Returned(h, v)
Split_NoFoot(h, v, nb) ==
    LET rest == v + nb
    IN  Returned([set_head(set_head(h, v, nb, TRUE), rest, h.size[v] - nb, TRUE)
                    EXCEPT !.bins[UNSORTED] = <<rest>>], v)

Taken(h, v) == Returned(set_inuse_bit_at_offset(h, v, h.size[v]), v)
Split(h, v, nb) ==
    LET rest == v + nb
        left == h.size[v] - nb
    IN  Returned([set_foot(set_head(set_head(h, v, nb, TRUE), rest, left, TRUE), rest, left)
                    EXCEPT !.bins[UNSORTED] = <<rest>>], v)

Exhausted(h, v, nb) == IF h.size[v] - nb < MINSIZE THEN Taken(h, v) ELSE Split(h, v, nb)

\* Where a chunk goes in its bin: a small one first, a large one before the first that is not
\* larger, or last if it is not larger than the smallest.
Binned(h, v) ==
    LET size == h.size[v]
        bin  == bin_index(size)
        list == h.bins[bin]
        at   == IF in_smallbin_range(size) THEN 1
                ELSE IF list # <<>> /\ size <= h.size[Last(list)] THEN Len(list) + 1
                ELSE 1 + Len(SelectSeq(list, LAMBDA c : h.size[c] > size))
    IN  [h EXCEPT !.bins[bin] = InsertAt(list, at, v), !.binmap = @ \cup {bin}]

\* The loop over the unsorted chunks, from the back: it ends with a chunk to return, or none left.
RECURSIVE SortedUntil(_, _)
SortedUntil(h, nb) ==
    IF h.bins[UNSORTED] = <<>> THEN h
    ELSE LET v    == Last(h.bins[UNSORTED])
             size == h.size[v]
             h1   == [h EXCEPT !.bins[UNSORTED] = Front(@)]
         IN  CASE in_smallbin_range(nb) /\ h.bins[UNSORTED] = <<v>>
                    /\ v = h.last_remainder /\ size > nb + MINSIZE ->
                    [Split(h, v, nb) EXCEPT !.last_remainder = v + nb]
               [] size = nb -> Taken(h1, v)
               [] OTHER -> SortedUntil(Binned(h1, v), nb)

\* A large request looks in its own bin, from the smallest.
OwnBin(h, nb) ==
    IF in_smallbin_range(nb) THEN <<>>
    ELSE SelectSeq(h.bins[largebin_index(nb)], LAMBDA c : h.size[c] >= nb)

\* Then the next bins that the map says may have chunks; the map is corrected on the way.
BestFit(h, nb) ==
    LET larger == {b \in h.binmap : b > bin_index(nb)}
        full   == {b \in larger : h.bins[b] # <<>>}
        bin    == CHOOSE b \in full : \A c \in full : b <= c
        passed == {b \in larger : \A c \in full : b < c}
        h1     == [h EXCEPT !.binmap = @ \ passed]
        v      == Last(h.bins[bin])
        h2     == Exhausted([h1 EXCEPT !.bins[bin] = Front(@)], v, nb)
    IN  IF full = {} THEN use_top(h1, nb)
        ELSE IF in_smallbin_range(nb) /\ h.size[v] - nb >= MINSIZE
        THEN [h2 EXCEPT !.last_remainder = v + nb] ELSE h2

FromBins(h, nb) ==
    CASE h.ret # NULL -> h
      [] h.ret = NULL /\ OwnBin(h, nb) # <<>> ->
            LET v == Last(OwnBin(h, nb)) IN Exhausted(unlink(h, v), v, nb)
      [] OTHER -> BestFit(h, nb)

Searched(h, nb) == FromBins(SortedUntil(IF in_smallbin_range(nb) THEN h ELSE Consolidated(h), nb), nb)

Allocated(h, nb) ==
    LET fast  == IF nb <= h.max_fast THEN h.fastbins[fastbin_index(nb)] ELSE <<>>
        small == IF in_smallbin_range(nb) THEN h.bins[bin_index(nb)] ELSE <<>>
    IN  CASE ~ h.anychunks ->
                use_top(IF h.max_fast = 0 THEN malloc_consolidate(h) ELSE h, nb)
          [] h.anychunks /\ fast # <<>> ->
                Returned([h EXCEPT !.fastbins[fastbin_index(nb)] = Tail(@)], Head(fast))
          [] h.anychunks /\ fast = <<>> /\ small # <<>> ->
                Taken([h EXCEPT !.bins[bin_index(nb)] = Front(@)], Last(small))
          [] OTHER -> Searched(h, nb)

\* Mutant: malloc gives up without joining the chunks of the fastbins.
sYSMALLOc_Hasty(h, nb) == Grow(h, nb)

GrowUnlessFound(h, nb) == IF h.ret # NULL THEN h ELSE Grow(h, nb)

\* With fastbins left, they are consolidated and malloc starts again.
sYSMALLOc(h, nb) ==
    GrowUnlessFound(IF h.fastchunks THEN Allocated(malloc_consolidate(h), nb) ELSE h, nb)

\* What Allocated found, or sYSMALLOc finds.
Found(h, nb) == IF h.ret # NULL THEN h ELSE sYSMALLOc(h, nb)

mALLOc(h, bytes) ==
    LET nb == request2size(bytes)
    IN  IF REQUEST_OUT_OF_RANGE(bytes) THEN Failed(h) ELSE Found(Allocated(Failed(h), nb), nb)
=============================================================================
