---------------------------- MODULE Start_proofs ----------------------------
(***************************************************************************)
(* The start for every size of memory, place of the heap and set of        *)
(* processes: what initialise_paging leaves after each of its turns, pages *)
(* mapped once, interrupts find what their handlers use, and what          *)
(* threads print at the same time comes out whole.                         *)
(***************************************************************************)
EXTENDS Start, FiniteSetTheorems, TLAPS

-----------------------------------------------------------------------------
(***************************************************************************)
(* Multiples of the size of a page.                                        *)
(***************************************************************************)
\* A smaller multiple has the smaller factor, and equal multiples have equal ones.
LEMMA Multiples ==
    ASSUME NEW a \in Int, NEW b \in Int
    PROVE  /\ a * PAGE_SIZE < b * PAGE_SIZE => a < b
           /\ a * PAGE_SIZE = b * PAGE_SIZE => a = b
<1>1. PAGE_SIZE \in Nat \ {0}
  BY MemoryAssumption
<1>2. ASSUME a * PAGE_SIZE < b * PAGE_SIZE, a >= b PROVE FALSE
  <2>1. (a - b) * PAGE_SIZE >= 0
    BY <1>1, <1>2
  <2>2. (a - b) * PAGE_SIZE = a * PAGE_SIZE - b * PAGE_SIZE
    BY <1>1
  <2>3. a * PAGE_SIZE \in Int /\ b * PAGE_SIZE \in Int
    BY <1>1
  <2> QED
    BY <1>2, <2>1, <2>2, <2>3
<1>3. ASSUME a * PAGE_SIZE = b * PAGE_SIZE PROVE a = b
  BY <1>1, <1>3
<1> QED
  BY <1>2, <1>3

\* The page of a multiple of the size.
LEMMA PageOf ==
    ASSUME NEW k \in Nat
    PROVE  Page(k * PAGE_SIZE) = k /\ (k * PAGE_SIZE) % PAGE_SIZE = 0
<1>1. PAGE_SIZE \in Nat \ {0}
  BY MemoryAssumption
<1> QED
  BY <1>1 DEF Page

\* An aligned address is the first multiple from there on.
LEMMA AlignedAt ==
    ASSUME NEW addr \in Nat
    PROVE  \E k \in Nat : /\ Aligned(addr) = k * PAGE_SIZE
                          /\ addr <= k * PAGE_SIZE /\ k * PAGE_SIZE < addr + PAGE_SIZE
<1>1. PAGE_SIZE \in Nat \ {0}
  BY MemoryAssumption
<1> DEFINE q == addr \div PAGE_SIZE
           r == addr % PAGE_SIZE
<1>2. q \in Nat /\ r \in 0 .. PAGE_SIZE - 1 /\ addr = q * PAGE_SIZE + r
  BY <1>1
<1>3. q * PAGE_SIZE \in Nat /\ (q + 1) * PAGE_SIZE = q * PAGE_SIZE + PAGE_SIZE
  BY <1>1, <1>2
<1>4. Aligned(addr) = IF r = 0 THEN addr ELSE (q + 1) * PAGE_SIZE
  BY DEF Aligned, Page
<1> HIDE DEF q, r
<1>5. CASE r = 0
  BY <1>1, <1>2, <1>3, <1>4, <1>5
<1>6. CASE r # 0
  <2>1. /\ Aligned(addr) = (q + 1) * PAGE_SIZE
        /\ addr <= (q + 1) * PAGE_SIZE /\ (q + 1) * PAGE_SIZE < addr + PAGE_SIZE
    BY <1>1, <1>2, <1>3, <1>4, <1>6
  <2>2. q + 1 \in Nat
    BY <1>2
  <2> QED
    BY <2>1, <2>2
<1> QED
  BY <1>5, <1>6

(***************************************************************************)
(* initialise_paging lays the directory and its tables one after the other *)
(* from the first page that begins in the heap.  After n turns, with the   *)
(* directory in page d:                                                    *)
(***************************************************************************)
\* The pages mapped for the first n entries: that of the directory is passed over.
FirstPages(d, n) == IF n <= d THEN 0 .. n - 1 ELSE (0 .. n) \ {d}

Laid(d, n) ==
    /\ d + 1 + ENTRIES <= NB_PAGES
    /\ kernel_page_directory = d * PAGE_SIZE
    /\ placement_address = (d + 1 + n) * PAGE_SIZE
    /\ directory = [i \in 0 .. ENTRIES - 1 |-> IF i < n THEN (d + 1 + i) * PAGE_SIZE ELSE 0]
    /\ DOMAIN page_tables = {<<(d + 1) * PAGE_SIZE, j>> : j \in 0 .. n - 1}
    /\ Mapped = FirstPages(d, n) /\ page_bitmap = Mapped \cup {d}
    /\ IsFiniteSet(Mapped) /\ Cardinality(Mapped) = n
    /\ IsFiniteSet(DOMAIN page_tables) /\ Cardinality(DOMAIN page_tables) = n

MemInv ==
    \/ MemoryInit
    \/ \E d \in Nat \ {0}, n \in 0 .. ENTRIES : Laid(d, n)

\* What the assumption says of the constants.
LEMMA Constants ==
    /\ PAGE_SIZE \in Nat \ {0} /\ NB_PAGES \in Nat \ {0} /\ ENTRIES \in Nat \ {0}
    /\ \A heap \in Heaps : heap \in Nat \ {0}
  BY MemoryAssumption

\* The first turn lays the directory, behind the kernel.
LEMMA DirectoryLaid ==
    ASSUME MemoryInit, create_directory
    PROVE  \E d \in Nat \ {0} : Laid(d, 0)'
<1> DEFINE heap == placement_address
<1>1. PICK d \in Nat : /\ Aligned(heap) = d * PAGE_SIZE
                       /\ heap <= d * PAGE_SIZE /\ d * PAGE_SIZE < heap + PAGE_SIZE
  BY Constants, AlignedAt DEF MemoryInit
<1>2. d # 0
  BY <1>1, Constants DEF MemoryInit
<1>3. d + 1 + ENTRIES <= NB_PAGES
  <2>1. heap + PAGE_SIZE * (ENTRIES + 2) <= PAGE_SIZE * NB_PAGES
    BY MemoryAssumption DEF MemoryInit
  <2>2. heap \in Nat /\ d * PAGE_SIZE \in Nat /\ PAGE_SIZE * (ENTRIES + 2) \in Nat
        /\ PAGE_SIZE * NB_PAGES \in Nat
    BY <1>1, Constants DEF MemoryInit
  <2>3. d * PAGE_SIZE + PAGE_SIZE * (ENTRIES + 2) < PAGE_SIZE * NB_PAGES + PAGE_SIZE
    BY <1>1, <2>1, <2>2, Constants
  <2>4. /\ d * PAGE_SIZE + PAGE_SIZE * (ENTRIES + 2) = (d + ENTRIES + 2) * PAGE_SIZE
        /\ PAGE_SIZE * NB_PAGES + PAGE_SIZE = (NB_PAGES + 1) * PAGE_SIZE
    BY Constants
  <2>5. d + ENTRIES + 2 < NB_PAGES + 1
    BY <2>3, <2>4, Multiples, Constants
  <2> QED
    BY <2>5, Constants
<1>4. /\ kernel_page_directory' = d * PAGE_SIZE
      /\ placement_address' = (d + 1) * PAGE_SIZE
  BY <1>1, Constants DEF create_directory, Placed, kmalloc_a
<1>5. page_bitmap' = {d}
  BY <1>4, PageOf DEF create_directory, setPage
<1>6. /\ page_tables' = page_tables /\ directory' = directory
      /\ directory = [i \in 0 .. ENTRIES - 1 |-> 0]
      /\ DOMAIN page_tables = {} /\ Mapped = {}
  BY DEF MemoryInit, create_directory, Mapped
<1>7. IsFiniteSet({}) /\ Cardinality({}) = 0
  BY FS_EmptySet
<1>8. directory' = [i \in 0 .. ENTRIES - 1 |-> IF i < 0 THEN (d + 1 + i) * PAGE_SIZE ELSE 0]
  BY <1>6, Constants
<1>9. Mapped' = {} /\ DOMAIN page_tables' = {<<(d + 1) * PAGE_SIZE, j>> : j \in 0 .. 0 - 1}
  BY <1>6 DEF Mapped
<1>10. FirstPages(d, 0) = {}
  BY DEF FirstPages
<1> QED
  BY <1>2, <1>3, <1>4, <1>5, <1>6, <1>7, <1>8, <1>9, <1>10, Constants DEF Laid

\* While entries are left there is a page left, and findfreePage finds the first.
LEMMA FreePageFound ==
    ASSUME NEW d \in Nat \ {0}, NEW n \in 0 .. ENTRIES - 1, Laid(d, n)
    PROVE  LET page == findfreePage(page_bitmap)
           IN  /\ page \in Pages \ page_bitmap
               /\ Found(page_bitmap) = page_bitmap \cup {page}
               /\ FirstPages(d, n) \cup {page} = FirstPages(d, n + 1)
<1> DEFINE next == IF n < d THEN n ELSE n + 1
           free == Pages \ page_bitmap
<1>1. page_bitmap = FirstPages(d, n) \cup {d} /\ d + 1 + ENTRIES <= NB_PAGES
  BY DEF Laid
<1>2. next \in free
  BY <1>1, Constants DEF FirstPages, Pages
<1>3. \A other \in free : next <= other
  BY <1>1, Constants DEF FirstPages, Pages
<1>4. free \subseteq Int
  BY Constants DEF Pages
<1> HIDE DEF next
<1>5. findfreePage(page_bitmap) = CHOOSE page \in free : \A other \in free : page <= other
  BY <1>2 DEF findfreePage
<1>6. ASSUME NEW page \in free, \A other \in free : page <= other
      PROVE  page = next
  BY <1>2, <1>3, <1>4, <1>6
<1>7. findfreePage(page_bitmap) = next
  BY <1>2, <1>3, <1>5, <1>6
<1>8. next # NoPage
  BY <1>2, Constants DEF Pages, NoPage
<1>9. FirstPages(d, n) \cup {next} = FirstPages(d, n + 1)
  BY Constants DEF FirstPages, next
<1> QED
  BY <1>2, <1>7, <1>8, <1>9 DEF Found, setPage

\* A later turn lays one table, and hands out one page.
LEMMA PageLaid ==
    ASSUME NEW d \in Nat \ {0}, NEW n \in 0 .. ENTRIES, Laid(d, n),
           NEW i \in 0 .. ENTRIES - 1, directory[i] = 0, \A j \in 0 .. i - 1 : directory[j] # 0,
           map_page(i)
    PROVE  n < ENTRIES /\ Laid(d, n + 1)'
<1>1. \A j \in 0 .. ENTRIES - 1 : j < n => directory[j] # 0
  <2> SUFFICES ASSUME NEW j \in 0 .. ENTRIES - 1, j < n PROVE (d + 1 + j) * PAGE_SIZE # 0
    BY DEF Laid
  <2>1. d + 1 + j \in Nat \ {0}
    OBVIOUS
  <2> QED
    BY <2>1, Constants
<1>2. i = n
  <2>1. n <= i
    BY <1>1
  <2>2. \A j \in 0 .. ENTRIES - 1 : ~ (j < n) => directory[j] = 0
    BY DEF Laid
  <2>3. n \in 0 .. ENTRIES - 1
    BY <2>1, Constants
  <2>4. directory[n] = 0
    BY <2>2, <2>3
  <2> QED
    BY <2>1, <2>4
<1>3. n \in 0 .. ENTRIES - 1 /\ n < ENTRIES
  BY <1>2, Constants
<1> DEFINE slot == <<(d + 1) * PAGE_SIZE, n>>
           page == findfreePage(page_bitmap)
<1>4. /\ kmalloc_a(placement_address) = (d + 1 + n) * PAGE_SIZE
      /\ placement_address' = (d + 1 + (n + 1)) * PAGE_SIZE
  <2>1. placement_address = (d + 1 + n) * PAGE_SIZE /\ d + 1 + n \in Nat
    BY DEF Laid
  <2>2. placement_address % PAGE_SIZE = 0
    BY <2>1, PageOf
  <2>3. kmalloc_a(placement_address) = placement_address
    BY <2>2 DEF kmalloc_a, Aligned
  <2>4. placement_address' = placement_address + PAGE_SIZE
    BY <2>3 DEF map_page, Placed
  <2> QED
    BY <2>1, <2>3, <2>4, Constants
<1>5. directory' = [j \in 0 .. ENTRIES - 1 |-> IF j < n + 1 THEN (d + 1 + j) * PAGE_SIZE ELSE 0]
  <2>1. directory' = [directory EXCEPT ![n] = (d + 1 + n) * PAGE_SIZE]
    BY <1>2, <1>4 DEF map_page
  <2>2. directory = [j \in 0 .. ENTRIES - 1 |-> IF j < n THEN (d + 1 + j) * PAGE_SIZE ELSE 0]
    BY DEF Laid
  <2>3. directory' = [j \in 0 .. ENTRIES - 1 |->
                         IF j = n THEN (d + 1 + n) * PAGE_SIZE ELSE directory[j]]
    BY <2>1, <2>2
  <2>4. \A j \in 0 .. ENTRIES - 1 :
            (IF j = n THEN (d + 1 + n) * PAGE_SIZE ELSE directory[j])
                = IF j < n + 1 THEN (d + 1 + j) * PAGE_SIZE ELSE 0
    BY <2>2, Constants
  <2> QED
    BY <2>3, <2>4
<1>6. Slot(directory', i) = slot
  <2>1. n \div ENTRIES = 0 /\ n % ENTRIES = n
    BY <1>3, Constants
  <2>2. directory'[0] = (d + 1) * PAGE_SIZE
    BY <1>5, Constants
  <2> QED
    BY <1>2, <2>1, <2>2 DEF Slot
<1>7. page_tables' = [s \in DOMAIN page_tables \cup {slot} |->
                          IF s = slot THEN page ELSE page_tables[s]]
  BY <1>6 DEF map_page
<1>8. /\ page \in Pages \ page_bitmap
      /\ page_bitmap' = page_bitmap \cup {page}
      /\ FirstPages(d, n) \cup {page} = FirstPages(d, n + 1)
  BY <1>3, FreePageFound DEF map_page
<1>9. slot \notin DOMAIN page_tables
  BY DEF Laid
<1> HIDE DEF page
<1>10. Mapped' = Mapped \cup {page}
  BY <1>7, <1>9 DEF Mapped
<1>11. DOMAIN page_tables' = DOMAIN page_tables \cup {slot}
  BY <1>7
<1>12. DOMAIN page_tables' = {<<(d + 1) * PAGE_SIZE, j>> : j \in 0 .. (n + 1) - 1}
  BY <1>11 DEF Laid
<1>13. IsFiniteSet(DOMAIN page_tables') /\ Cardinality(DOMAIN page_tables') = n + 1
  <2>1. /\ IsFiniteSet(DOMAIN page_tables \cup {slot})
        /\ Cardinality(DOMAIN page_tables \cup {slot}) = Cardinality(DOMAIN page_tables) + 1
    BY <1>9, FS_AddElement DEF Laid
  <2> QED
    BY <1>11, <2>1 DEF Laid
<1>14. IsFiniteSet(Mapped') /\ Cardinality(Mapped') = n + 1
  <2>1. page \notin Mapped
    BY <1>8 DEF Laid
  <2>2. /\ IsFiniteSet(Mapped \cup {page})
        /\ Cardinality(Mapped \cup {page}) = Cardinality(Mapped) + 1
    BY <2>1, FS_AddElement DEF Laid
  <2> QED
    BY <1>10, <2>2 DEF Laid
<1>15. Mapped' = FirstPages(d, n + 1) /\ page_bitmap' = Mapped' \cup {d}
  BY <1>8, <1>10 DEF Laid
<1>16. kernel_page_directory' = d * PAGE_SIZE /\ d + 1 + ENTRIES <= NB_PAGES
  BY DEF map_page, Laid
<1> QED
  BY <1>3, <1>4, <1>5, <1>12, <1>13, <1>14, <1>15, <1>16 DEF Laid

\* The directory and its tables lie in pages d to d + n.
LEMMA TablesCounted ==
    ASSUME NEW d \in Nat \ {0}, NEW n \in 0 .. ENTRIES, Laid(d, n)
    PROVE  /\ \A table \in Tables : table % PAGE_SIZE = 0
           /\ Cardinality({Page(table) : table \in Tables \ {0}}) = n + 1
           /\ Cardinality(Present) = n
<1>1. \A k \in d .. d + n : k \in Nat \ {0} /\ k * PAGE_SIZE # 0
  BY Constants
<1>2. \A i \in DOMAIN directory :
          /\ i \in 0 .. ENTRIES - 1
          /\ i < n => d + 1 + i \in d .. d + n /\ directory[i] = (d + 1 + i) * PAGE_SIZE
          /\ ~ (i < n) => directory[i] = 0
  BY Constants DEF Laid
<1>3. \A k \in d .. d + n : k * PAGE_SIZE \in Tables
  <2>1. ASSUME NEW k \in d .. d + n, k # d PROVE k * PAGE_SIZE \in Tables
    <3>1. k - d - 1 \in 0 .. ENTRIES - 1 /\ k - d - 1 < n /\ d + 1 + (k - d - 1) = k
      BY <2>1, Constants
    <3>2. directory[k - d - 1] = k * PAGE_SIZE /\ k - d - 1 \in DOMAIN directory
      BY <3>1, Constants DEF Laid
    <3> QED
      BY <3>2 DEF Tables
  <2> QED
    BY <2>1 DEF Laid, Tables
<1>4. \A table \in Tables : table = 0 \/ \E k \in d .. d + n : table = k * PAGE_SIZE
  <2>1. kernel_page_directory = d * PAGE_SIZE /\ d \in d .. d + n
    BY DEF Laid
  <2> QED
    BY <1>2, <2>1 DEF Tables
<1>5. \A table \in Tables : table % PAGE_SIZE = 0
  <2>1. 0 % PAGE_SIZE = 0
    BY Constants
  <2> QED
    BY <1>1, <1>4, <2>1, PageOf
<1>6. {Page(table) : table \in Tables \ {0}} = d .. d + n
  <2>1. ASSUME NEW table \in Tables \ {0} PROVE Page(table) \in d .. d + n
    <3>1. PICK k \in d .. d + n : table = k * PAGE_SIZE
      BY <1>4, <2>1
    <3>2. Page(k * PAGE_SIZE) = k
      BY <1>1, PageOf
    <3> QED
      BY <3>1, <3>2
  <2>2. ASSUME NEW k \in d .. d + n
        PROVE  \E table \in Tables \ {0} : Page(table) = k
    BY <1>1, <1>3, <2>2, PageOf
  <2> QED
    BY <2>1, <2>2
<1>7. Cardinality(d .. d + n) = n + 1
  <2>1. d \in Int /\ d + n \in Int /\ ~ (d > d + n) /\ d + n - d + 1 = n + 1
    BY Constants
  <2> QED
    BY <2>1, FS_Interval
<1>8. Present = 0 .. n - 1
  <2>1. \A i \in 0 .. n - 1 : i \in DOMAIN directory /\ i < n
    BY Constants DEF Laid
  <2>2. \A i \in DOMAIN directory : i < n => directory[i] # 0
    BY <1>1, <1>2
  <2>3. \A i \in DOMAIN directory : i < n => i \in 0 .. n - 1
    BY <1>2, Constants
  <2> QED
    BY <1>2, <2>1, <2>2, <2>3 DEF Present
<1>9. Cardinality(0 .. n - 1) = n
  <2>1. 0 \in Int /\ n - 1 \in Int /\ (IF 0 > n - 1 THEN 0 ELSE n - 1 - 0 + 1) = n
    BY Constants
  <2> QED
    BY <2>1, FS_Interval
<1> QED
  BY <1>5, <1>6, <1>7, <1>8, <1>9

\* What every turn leaves hands out no page twice.
LEMMA InvPages == MemInv => PagesOnce
<1> SUFFICES ASSUME MemInv PROVE PagesOnce
  OBVIOUS
<1>1. CASE MemoryInit
  <2>1. kernel_page_directory = 0 /\ DOMAIN page_tables = {}
    BY <1>1 DEF MemoryInit
  <2>2. Tables = {0} /\ Present = {} /\ Mapped = {}
    BY <1>1 DEF MemoryInit, Tables, Present, Mapped
  <2>3. {Page(table) : table \in Tables \ {0}} = {}
    BY <2>2
  <2>4. Cardinality({}) = 0 /\ 0 % PAGE_SIZE = 0
    BY FS_EmptySet, Constants
  <2>5. Cardinality({Page(table) : table \in Tables \ {0}})
            = Cardinality(Present) + (IF kernel_page_directory = 0 THEN 0 ELSE 1)
    <3>1. /\ Cardinality({Page(table) : table \in Tables \ {0}}) = 0
          /\ Cardinality(Present) = 0
      BY <2>2, <2>3, <2>4, Zenon
    <3> QED
      BY <2>1, <3>1
  <2>6. /\ Mapped \subseteq (page_bitmap \cap Pages) \ {Page(kernel_page_directory)}
        /\ Cardinality(Mapped) = Cardinality(DOMAIN page_tables)
    BY <2>1, <2>2
  <2>7. \A table \in Tables : table % PAGE_SIZE = 0
    BY <2>2, <2>4
  <2> QED
    BY <2>5, <2>6, <2>7 DEF PagesOnce
<1>2. ASSUME NEW d \in Nat \ {0}, NEW n \in 0 .. ENTRIES, Laid(d, n) PROVE PagesOnce
  <2>1. kernel_page_directory # 0 /\ Page(kernel_page_directory) = d
    BY <1>2, PageOf, Constants DEF Laid
  <2>2. Mapped \subseteq (page_bitmap \cap Pages) \ {Page(kernel_page_directory)}
    <3>1. Mapped \subseteq page_bitmap /\ Mapped = FirstPages(d, n) /\ d + 1 + ENTRIES <= NB_PAGES
      BY <1>2 DEF Laid
    <3>2. FirstPages(d, n) \subseteq Pages \ {d}
      BY <3>1, Constants DEF FirstPages, Pages
    <3> QED
      BY <2>1, <3>1, <3>2
  <2>3. Cardinality(Mapped) = Cardinality(DOMAIN page_tables)
    BY <1>2 DEF Laid
  <2>4. \A table \in Tables : table % PAGE_SIZE = 0
    BY <1>2, TablesCounted
  <2>5. Cardinality({Page(table) : table \in Tables \ {0}})
            = Cardinality(Present) + (IF kernel_page_directory = 0 THEN 0 ELSE 1)
    BY <1>2, <2>1, TablesCounted
  <2> QED
    BY <2>2, <2>3, <2>4, <2>5 DEF PagesOnce
<1> QED
  BY <1>1, <1>2 DEF MemInv

-----------------------------------------------------------------------------
(***************************************************************************)
(* Interrupts.  What each step of kernel_start leaves is still there when  *)
(* the flag is set, and nothing but the timer and the keyboard is unmasked *)
(* afterwards.                                                             *)
(***************************************************************************)
Ready    == {"tests", "hang"}
Enabled  == {"init_proc_table", "init_timer"} \cup Ready
Gated    == {"init_syscall", "sti"} \cup Enabled
BootPcs  == {"paging", "init_it"} \cup Gated

BootInv ==
    /\ pc \in BootPcs
    /\ IF_flag => pc \in Enabled
    /\ pc # "paging" => irq_base = 32
    /\ pc \in Gated => \A v \in {50, 32, 33} : v \in DOMAIN idt /\ idt[v] = Handlers[v]
    /\ pc \in Enabled \cup {"sti"} =>
           SYSCALL \in DOMAIN idt /\ idt[SYSCALL] = "syscall" /\ syscall_table = NR_SYSCALLS
    /\ pc \notin Ready \cup {"paging"} => masked = IRQs
    /\ pc \in Ready => IRQs \ masked \subseteq {0, 1}
    /\ pc \in Ready \cup {"init_timer"} => proc_table = TRUE

\* The handlers of the three vectors.
LEMMA HandlersAre ==
    Handlers[50] = "IT_50" /\ Handlers[32] = "timer" /\ Handlers[33] = "keyboard"
  BY DEF Handlers

\* What is not a step of the start leaves it where it is.
LEMMA NoBootStep ==
    ASSUME [Output \/ calculate]_svars
    PROVE  UNCHANGED bvars
  BY DEF Output, calculate, print, printf_char, printf_single, printf_end, putchar, svars

\* Each step of the start keeps what the steps before it have set up.
LEMMA BootStep == BootInv /\ [StartNext]_svars => BootInv'
<1> SUFFICES ASSUME BootInv, [StartNext]_svars PROVE BootInv'
  OBVIOUS
<1> USE DEF BootPcs, Gated, Enabled, Ready
<1>1. CASE initialise_paging
  <2>1. UNCHANGED <<pc, IF_flag, idt, irq_base, masked, syscall_table, proc_table>>
    BY <1>1 DEF initialise_paging
  <2> QED
    BY <2>1 DEF BootInv
<1>2. CASE setup_base
  BY <1>2 DEF setup_base, BootInv
<1>3. CASE init_it
  <2>1. \A v \in {50, 32, 33} : v \in DOMAIN idt' /\ idt'[v] = Handlers[v]
    BY <1>3 DEF init_it, Gates, Handlers
  <2> QED
    BY <1>3, <2>1 DEF init_it, BootInv
<1>4. CASE init_syscall
  <2>1. SYSCALL \in DOMAIN idt' /\ idt'[SYSCALL] = "syscall"
    BY <1>4 DEF init_syscall, Gates
  <2>2. \A v \in {50, 32, 33} : v \in DOMAIN idt' /\ idt'[v] = Handlers[v]
    BY <1>4 DEF init_syscall, Gates, BootInv, SYSCALL
  <2> QED
    BY <1>4, <2>1, <2>2 DEF init_syscall, BootInv
<1>5. CASE sti
  BY <1>5 DEF sti, BootInv
<1>6. CASE init_proc_table
  BY <1>6 DEF init_proc_table, BootInv
<1>7. CASE init_timer
  BY <1>7 DEF init_timer, BootInv
<1>8. CASE spawn
  BY <1>8 DEF spawn, BootInv
<1>9. ASSUME NEW t \in Procs, getchar(t) PROVE BootInv'
  BY <1>9 DEF getchar, BootInv
<1>10. CASE [Output \/ calculate]_svars
  <2>1. UNCHANGED bvars
    BY <1>10, NoBootStep
  <2> QED
    BY <2>1 DEF bvars, BootInv
<1> QED
  BY <1>1, <1>2, <1>3, <1>4, <1>5, <1>6, <1>7, <1>8, <1>9, <1>10 DEF StartNext, Boot

\* Every interrupt that can come finds its handler, and what the handler uses.
THEOREM InterruptsCorrect == StartSpec => []InterruptsReady
<1>1. StartInit => BootInv
  BY DEF StartInit, BootInv, BootPcs, Gated, Enabled, Ready
<1>2. BootInv => InterruptsReady
  <2> SUFFICES ASSUME BootInv PROVE InterruptsReady
    OBVIOUS
  <2> USE DEF BootPcs, Gated, Enabled, Ready
  <2> DEFINE open == IF IF_flag THEN IRQs \ masked ELSE {}
  <2>1. open \subseteq {0, 1} /\ (open # {} => pc \in Ready)
    BY DEF BootInv
  <2>2. pc \in Ready =>
            /\ irq_base = 32 /\ proc_table
            /\ \A v \in {50, 32, 33} : v \in DOMAIN idt /\ idt[v] = Handlers[v]
            /\ SYSCALL \in DOMAIN idt /\ idt[SYSCALL] = "syscall"
            /\ syscall_table = NR_SYSCALLS
    BY DEF BootInv
  <2>3. \A t \in Threads : Runs(t) => pc \in Ready
    BY DEF Runs
  <2> HIDE DEF BootPcs, Gated, Enabled, Ready
  <2> QED
    BY <2>1, <2>2, <2>3, HandlersAre DEF InterruptsReady
<1> QED
  BY <1>1, <1>2, BootStep, PTL DEF StartSpec

-----------------------------------------------------------------------------
\* The turns of initialise_paging lay one table after the other; nothing else moves one.
LEMMA MemStep == MemInv /\ [StartNext]_svars => MemInv'
<1> SUFFICES ASSUME MemInv, [StartNext]_svars PROVE MemInv'
  OBVIOUS
<1>1. CASE initialise_paging
  <2>1. CASE MemoryInit
    <3>1. create_directory
      BY <1>1, <2>1 DEF initialise_paging, MemoryInit
    <3>2. \E d \in Nat \ {0} : Laid(d, 0)'
      BY <2>1, <3>1, DirectoryLaid
    <3>3. 0 \in 0 .. ENTRIES
      BY Constants
    <3> QED
      BY <3>2, <3>3 DEF MemInv
  <2>2. ASSUME NEW d \in Nat \ {0}, NEW n \in 0 .. ENTRIES, Laid(d, n)
        PROVE  MemInv'
    <3>1. kernel_page_directory # 0
      BY <2>2, Constants DEF Laid
    <3>2. PICK i \in DOMAIN directory :
              directory[i] = 0 /\ (\A j \in 0 .. i - 1 : directory[j] # 0) /\ map_page(i)
      BY <1>1, <3>1 DEF initialise_paging
    <3>3. i \in 0 .. ENTRIES - 1
      BY <2>2, <3>2 DEF Laid
    <3>4. n < ENTRIES /\ Laid(d, n + 1)'
      BY <2>2, <3>2, <3>3, PageLaid
    <3>5. n + 1 \in 0 .. ENTRIES
      BY <3>4, Constants
    <3> QED
      BY <3>4, <3>5 DEF MemInv
  <2> QED
    BY <2>1, <2>2 DEF MemInv
<1>2. ASSUME UNCHANGED mvars PROVE MemInv'
  BY <1>2 DEF mvars, MemInv, MemoryInit, Laid, Mapped
<1>3. CASE setup_base \/ init_it \/ init_syscall \/ sti \/ init_proc_table \/ init_timer \/ spawn
  BY <1>2, <1>3 DEF setup_base, init_it, init_syscall, sti, init_proc_table, init_timer, spawn
<1>4. ASSUME NEW t \in Procs, getchar(t) PROVE MemInv'
  BY <1>2, <1>4 DEF getchar
<1>5. CASE [Output \/ calculate]_svars
  BY <1>2, <1>5 DEF Output, calculate, print, printf_char, printf_single, printf_end, putchar,
                    svars
<1> QED
  BY <1>1, <1>3, <1>4, <1>5 DEF StartNext, Boot

\* No page of memory is mapped twice, and the directory and its tables are whole pages apart from
\* each other, for any memory and any place of the heap in it.
THEOREM PagesCorrect == StartSpec => []PagesOnce
<1>1. StartInit => MemInv
  BY DEF StartInit, MemInv
<1> QED
  BY <1>1, InvPages, MemStep, PTL DEF StartSpec

-----------------------------------------------------------------------------
(***************************************************************************)
(* Printing.  What a thread has sent is its text up to the first character *)
(* in its buffer; it is sent at places that are not joined.                *)
(***************************************************************************)
Prints == [fn : {"none", "printf", "puts"}, text : Seq(Nat), taken : Nat, buf : Seq(Nat),
           step : {"idle", "format", "single", "done"}]

Sent(p) == p.taken - Len(p.buf)

Separators == {NUL, NEWLINE}

\* What printf has collected stands in the text before the next character, in one line.
Collects(p) ==
    /\ p.fn = "printf"
    /\ p.taken <= Len(p.text) /\ Len(p.buf) <= p.taken /\ Len(p.buf) <= PRINTF_BUFMAX
    /\ \A k \in 1 .. Len(p.buf) : p.buf[k] = p.text[Sent(p) + k] /\ p.buf[k] \notin Separators
    /\ Sent(p) \notin Joined(p.text)
    /\ p.step = "single" => /\ p.buf = <<>> /\ p.taken < Len(p.text)
                            /\ p.taken + 1 \notin Joined(p.text)
    /\ p.step = "done" => p.buf = <<>> /\ p.taken = Len(p.text)
    /\ p.step # "idle"

Puts(p) ==
    /\ p.fn = "puts" /\ p.buf = <<>>
    /\ \/ p.step = "format" /\ p.taken <= Len(p.text)
       \/ p.step = "done" /\ p.taken = Len(p.text) + 1

Told(t) ==
    /\ Cardinality(Mine(console, t)) = Sent(printing[t])
    /\ \A i \in Mine(console, t) :
        /\ Rank(console, i) \in DOMAIN Expected(t) /\ console[i][2] = Expected(t)[Rank(console, i)]
        /\ printing[t].fn = "printf" /\ Rank(console, i) - 1 \in Joined(printing[t].text)
               => i - 1 \in Mine(console, t)

PrintInv ==
    /\ console \in Seq(Threads \X Nat)
    /\ printing \in [Threads -> Prints]
    /\ \A t \in Threads :
        /\ printing[t] = NoPrint \/ Collects(printing[t]) \/ Puts(printing[t])
        /\ Told(t)

LEMMA NextItem ==
    ASSUME NEW s \in Seq(Nat), NEW n \in Nat, n < Len(s), NEW x \in Nat
    PROVE  /\ n + 1 \in DOMAIN s /\ s[n + 1] \in Nat
           /\ n + 1 \in DOMAIN Append(s, x) /\ Append(s, x)[n + 1] = s[n + 1]
<1>1. n + 1 \in 1 .. Len(s) /\ DOMAIN s = 1 .. Len(s) /\ Len(s) \in Nat
  OBVIOUS
<1>2. DOMAIN Append(s, x) = 1 .. Len(s) + 1 /\ \A i \in 1 .. Len(s) : Append(s, x)[i] = s[i]
  OBVIOUS
<1>3. n + 1 \in 1 .. Len(s) + 1
  BY <1>1
<1> QED
  BY <1>1, <1>2, <1>3

LEMMA UpToSum ==
    ASSUME NEW N \in Nat, NEW k \in Nat
    PROVE  /\ 1 .. N + k = (1 .. N) \cup (N + 1 .. N + k)
           /\ \A i \in 1 .. N : i \notin N + 1 .. N + k
  OBVIOUS

LEMMA Concatenated ==
    ASSUME NEW S, NEW a \in Seq(S), NEW b \in Seq(S)
    PROVE  /\ a \o b \in Seq(S) /\ Len(a \o b) = Len(a) + Len(b)
           /\ \A i \in 1 .. Len(a) : (a \o b)[i] = a[i]
           /\ \A k \in 1 .. Len(b) : (a \o b)[Len(a) + k] = b[k]
  OBVIOUS

\* A thread writes at the end of the console, and its characters are counted on.
Extended(c, d, t, chars, N, m, n) ==
    /\ d \in Seq(Threads \X Nat) /\ n \in Nat
    /\ \A u \in Threads \ {t} : Mine(d, u) = Mine(c, u)
    /\ Mine(d, t) = Mine(c, t) \cup (N + 1 .. N + m) /\ Mine(c, t) \subseteq 1 .. N
    /\ Cardinality(Mine(d, t)) = n + m
    /\ \A i \in 1 .. N : Rank(d, i) = Rank(c, i) /\ d[i] = c[i]
    /\ \A k \in 1 .. m : Rank(d, N + k) = n + k /\ d[N + k] = <<t, chars[k]>>

LEMMA Writing ==
    ASSUME NEW c \in Seq(Threads \X Nat), NEW t \in Threads, NEW chars \in Seq(Nat),
           NEW d, d = c \o [i \in DOMAIN chars |-> <<t, chars[i]>>],
           NEW N, N = Len(c), NEW m, m = Len(chars), NEW n, n = Cardinality(Mine(c, t))
    PROVE  Extended(c, d, t, chars, N, m, n)
<1> DEFINE more == [i \in DOMAIN chars |-> <<t, chars[i]>>]
<1>1. N \in Nat /\ m \in Nat /\ more \in Seq(Threads \X Nat) /\ Len(more) = m
  <2>1. N \in Nat /\ m \in Nat
    <3>1. Len(c) \in Nat /\ Len(chars) \in Nat
      OBVIOUS
    <3> QED
      BY <3>1
  <2>2. DOMAIN chars = 1 .. m /\ \A i \in 1 .. m : <<t, chars[i]>> \in Threads \X Nat
    OBVIOUS
  <2>3. more \in [1 .. m -> Threads \X Nat]
    BY <2>2
  <2> QED
    BY <2>1, <2>3
<1>2. \A k \in 1 .. m : more[k] = <<t, chars[k]>>
  OBVIOUS
<1> HIDE DEF more
<1>3. d = c \o more
  BY DEF more
<1> DEFINE W == Threads \X Nat
<1>0. c \in Seq(W) /\ more \in Seq(W)
  BY <1>1
<1> HIDE DEF W
<1>4. /\ d \in Seq(Threads \X Nat) /\ Len(d) = N + m
      /\ \A i \in 1 .. N : d[i] = c[i]
      /\ \A k \in 1 .. m : d[N + k] = more[k]
  <2>1. /\ c \o more \in Seq(W) /\ Len(c \o more) = N + m
        /\ \A i \in 1 .. N : (c \o more)[i] = c[i]
        /\ \A k \in 1 .. m : (c \o more)[N + k] = more[k]
    <3>1. /\ c \o more \in Seq(W) /\ Len(c \o more) = Len(c) + Len(more)
          /\ \A i \in 1 .. Len(c) : (c \o more)[i] = c[i]
          /\ \A k \in 1 .. Len(more) : (c \o more)[Len(c) + k] = more[k]
      BY <1>0, Concatenated
    <3>2. Len(c) = N /\ Len(more) = m
      BY <1>1
    <3> QED
      BY <3>1, <3>2
  <2> QED
    BY <1>3, <2>1 DEF W
<1>5. \A k \in 1 .. m : d[N + k] = <<t, chars[k]>>
  BY <1>2, <1>4
<1>6. DOMAIN c = 1 .. N /\ DOMAIN d = 1 .. N + m
  BY <1>4
<1>7. ASSUME NEW i \in N + 1 .. N + m PROVE d[i][1] = t
  <2> DEFINE k == i - N
  <2>1. k \in 1 .. m /\ N + k = i
    BY <1>1
  <2>2. <<t, chars[k]>>[1] = t
    OBVIOUS
  <2> HIDE DEF k
  <2> QED
    BY <1>5, <2>1, <2>2
<1>8. 1 .. N + m = (1 .. N) \cup (N + 1 .. N + m)
  BY <1>1
<1>9. \A u \in Threads : Mine(d, u) = {i \in 1 .. N + m : d[i][1] = u}
  BY <1>6 DEF Mine
<1>10. \A u \in Threads : Mine(c, u) = {i \in 1 .. N : c[i][1] = u}
  BY <1>6 DEF Mine
<1>11. ASSUME NEW u \in Threads \ {t} PROVE Mine(d, u) = Mine(c, u)
  <2>1. Mine(d, u) = {i \in 1 .. N + m : d[i][1] = u}
    BY <1>9
  <2>2. Mine(c, u) = {i \in 1 .. N : c[i][1] = u}
    BY <1>10
  <2>3. \A i \in N + 1 .. N + m : d[i][1] # u
    BY <1>7
  <2>4. \A i \in 1 .. N : d[i] = c[i]
    BY <1>4
  <2> DEFINE I == 1 .. N
             J == N + 1 .. N + m
  <2>5. 1 .. N + m = I \cup J
    BY <1>8
  <2> HIDE DEF W, I, J
  <2>6. {i \in I \cup J : d[i][1] = u} = {i \in I : c[i][1] = u}
    <3>1. (\A i \in J : d[i][1] # u) /\ \A i \in I : d[i] = c[i]
      BY <2>3, <2>4 DEF I, J
    <3> QED
      BY <3>1
  <2> QED
    BY <2>1, <2>2, <2>5, <2>6, Zenon DEF I
<1>12. Mine(d, t) = Mine(c, t) \cup (N + 1 .. N + m) /\ Mine(c, t) \subseteq 1 .. N
  <2> DEFINE I == 1 .. N
             J == N + 1 .. N + m
  <2>1. (\A i \in J : d[i][1] = t) /\ (\A i \in I : d[i] = c[i]) /\ 1 .. N + m = I \cup J
    BY <1>4, <1>7, <1>8
  <2>2. /\ Mine(d, t) = {i \in 1 .. N + m : d[i][1] = t}
        /\ Mine(c, t) = {i \in I : c[i][1] = t}
    BY <1>9, <1>10
  <2> HIDE DEF W, I, J
  <2>3. /\ {i \in I \cup J : d[i][1] = t} = {i \in I : c[i][1] = t} \cup J
        /\ {i \in I : c[i][1] = t} \subseteq I
    BY <2>1
  <2>4. Mine(d, t) = Mine(c, t) \cup J /\ Mine(c, t) \subseteq I
    BY <2>1, <2>2, <2>3, Zenon
  <2> QED
    BY <2>4 DEF I, J
<1>13. IsFiniteSet(Mine(c, t)) /\ n \in Nat
  <2>1. IsFiniteSet(1 .. N)
    BY <1>1, FS_Interval
  <2> QED
    BY <1>12, <2>1, FS_Subset, FS_CardinalityType
<1>14. ASSUME NEW k \in 0 .. m
       PROVE  Cardinality(Mine(c, t) \cup (N + 1 .. N + k)) = n + k
  <2> DEFINE I == N + 1 .. N + k
  <2>1. k \in Nat /\ N + 1 \in Int /\ N + k \in Int
        /\ (IF N + 1 > N + k THEN 0 ELSE N + k - (N + 1) + 1) = k
    BY <1>1
  <2>2. IsFiniteSet(I) /\ Cardinality(I) = k
    <3> DEFINE a == N + 1
               b == N + k
    <3>1. a \in Int /\ b \in Int
      BY <2>1
    <3>2. IsFiniteSet(a .. b) /\ Cardinality(a .. b) = IF a > b THEN 0 ELSE b - a + 1
      <4> HIDE DEF a, b
      <4> QED
        BY <3>1, FS_Interval
    <3> QED
      BY <2>1, <3>2
  <2>3. Mine(c, t) \cap I = {}
    BY <1>1, <1>12
  <2>4. Cardinality({}) = 0
    BY FS_EmptySet
  <2> HIDE DEF I
  <2>5. Cardinality(Mine(c, t) \cup I) = Cardinality(Mine(c, t)) + Cardinality(I)
                                        - Cardinality(Mine(c, t) \cap I)
    BY <1>13, <2>2, FS_Union
  <2>6. Cardinality(Mine(c, t) \cup I) = n + k
    <3>1. Cardinality(Mine(c, t) \cap I) = 0
      BY <2>3, <2>4, Zenon
    <3> QED
      BY <1>13, <2>1, <2>2, <2>5, <3>1
  <2> QED
    BY <2>6 DEF I
<1>15. Cardinality(Mine(d, t)) = n + m
  <2>1. m \in 0 .. m
    BY <1>1
  <2> QED
    BY <1>12, <1>14, <2>1
<1>16. ASSUME NEW i \in 1 .. N PROVE Rank(d, i) = Rank(c, i)
  <2>1. \A j \in 1 .. i : j \in 1 .. N
    BY <1>1
  <2>2. {j \in 1 .. i : d[j][1] = d[i][1]}
            = {j \in 1 .. i : c[j][1] = c[i][1]}
    BY <1>4, <2>1
  <2> QED
    BY <2>2 DEF Rank
<1>17. ASSUME NEW k \in 1 .. m PROVE Rank(d, N + k) = n + k
  <2> DEFINE I == 1 .. N
             J == N + 1 .. N + k
  <2>1. k \in Nat /\ k \in 0 .. m /\ N + k \in J /\ \A j \in J : j \in N + 1 .. N + m
    BY <1>1
  <2>2. 1 .. N + k = I \cup J
    BY <1>1, <2>1, UpToSum
  <2>3. (\A j \in J : d[j][1] = t) /\ d[N + k][1] = t
    BY <1>7, <2>1
  <2>4. (\A j \in I : d[j] = c[j]) /\ Mine(c, t) = {j \in I : c[j][1] = t}
    BY <1>4, <1>10
  <2>5. Cardinality(Mine(c, t) \cup J) = n + k
    BY <1>14, <2>1
  <2> HIDE DEF W, I, J
  <2>6. {j \in I \cup J : d[j][1] = t} = {j \in I : c[j][1] = t} \cup J
    BY <2>3, <2>4
  <2>7. {j \in 1 .. N + k : d[j][1] = d[N + k][1]} = Mine(c, t) \cup J
    BY <2>2, <2>3, <2>4, <2>6, Zenon
  <2> QED
    BY <2>5, <2>7, Zenon DEF Rank
<1> QED
  BY <1>4, <1>5, <1>11, <1>12, <1>13, <1>15, <1>16, <1>17 DEF Extended

\* What a thread sends of its text is told, if it begins at a place that is not joined.
LEMMA Sending ==
    ASSUME PrintInv, NEW t \in Threads, NEW chars \in Seq(Nat), sys_write(t, chars),
           NEW q \in Prints, printing' = [printing EXCEPT ![t] = q],
           q.fn = printing[t].fn, q.text = printing[t].text,
           Sent(q) = Sent(printing[t]) + Len(chars),
           \A k \in 1 .. Len(chars) : /\ Sent(printing[t]) + k \in DOMAIN Expected(t)
                                      /\ chars[k] = Expected(t)[Sent(printing[t]) + k],
           q.fn = "printf" => Sent(printing[t]) \notin Joined(q.text)
    PROVE  \A u \in Threads : Told(u)'
<1>0. PICK N, m, n : N = Len(console) /\ m = Len(chars) /\ n = Cardinality(Mine(console, t))
  OBVIOUS
<1>1. /\ console \in Seq(Threads \X Nat) /\ printing \in [Threads -> Prints]
      /\ n = Sent(printing[t]) /\ \A u \in Threads : Told(u)
  BY <1>0 DEF PrintInv, Told
<1>2. /\ n \in Nat
      /\ \A u \in Threads \ {t} : Mine(console', u) = Mine(console, u)
      /\ Mine(console', t) = Mine(console, t) \cup (N + 1 .. N + m) /\ Mine(console, t) \subseteq 1 .. N
      /\ Cardinality(Mine(console', t)) = n + m
      /\ \A i \in 1 .. N : Rank(console', i) = Rank(console, i) /\ console'[i] = console[i]
      /\ \A k \in 1 .. m : Rank(console', N + k) = n + k /\ console'[N + k] = <<t, chars[k]>>
  <2>1. console' = console \o [i \in DOMAIN chars |-> <<t, chars[i]>>]
    BY DEF sys_write
  <2>2. Extended(console, console', t, chars, N, m, n)
    BY <1>0, <1>1, <2>1, Writing
  <2> QED
    BY <2>2 DEF Extended
<1>3. N \in Nat /\ m \in Nat
  BY <1>0, <1>1
<1>4. \A u \in Threads : Mine(console, u) \subseteq 1 .. N
  BY <1>0, <1>1 DEF Mine
<1>5. printing'[t] = q /\ \A u \in Threads \ {t} : printing'[u] = printing[u]
  BY <1>1
<1>6. \A u \in Threads : Expected(u)' = Expected(u)
  BY <1>1, <1>5 DEF Expected
<1>7. \A k \in 1 .. m : n + k \in DOMAIN Expected(t) /\ chars[k] = Expected(t)[n + k]
  BY <1>0, <1>1
<1>8. q.fn = "printf" => n \notin Joined(q.text)
  BY <1>1
<1>9. Sent(q) = n + m
  BY <1>0, <1>1
<1>10. ASSUME NEW u \in Threads \ {t} PROVE Told(u)'
  <2>1. Mine(console', u) = Mine(console, u) /\ printing'[u] = printing[u] /\ Expected(u)' = Expected(u)
    BY <1>2, <1>5, <1>6
  <2>2. \A i \in Mine(console, u) : Rank(console', i) = Rank(console, i) /\ console'[i] = console[i]
    BY <1>2, <1>4
  <2> QED
    BY <1>1, <2>1, <2>2 DEF Told
<1>11. Told(t)'
  <2>1. Cardinality(Mine(console', t)) = Sent(printing'[t])
    BY <1>2, <1>5, <1>9
  <2>2. ASSUME NEW i \in Mine(console, t)
        PROVE  /\ Rank(console', i) \in DOMAIN Expected(t)' /\ console'[i][2] = Expected(t)'[Rank(console', i)]
               /\ printing'[t].fn = "printf" /\ Rank(console', i) - 1 \in Joined(printing'[t].text)
                      => i - 1 \in Mine(console', t)
    <3>1. Rank(console', i) = Rank(console, i) /\ console'[i] = console[i]
      BY <1>2
    <3> QED
      BY <1>1, <1>2, <1>5, <1>6, <3>1 DEF Told
  <2>3. ASSUME NEW i \in N + 1 .. N + m
        PROVE  /\ Rank(console', i) \in DOMAIN Expected(t)' /\ console'[i][2] = Expected(t)'[Rank(console', i)]
               /\ printing'[t].fn = "printf" /\ Rank(console', i) - 1 \in Joined(printing'[t].text)
                      => i - 1 \in Mine(console', t)
    <3> DEFINE k == i - N
    <3>1. k \in 1 .. m /\ N + k = i
      BY <1>3
    <3>2. i - 1 \in N + 1 .. N + m \/ k = 1
      BY <1>3
    <3> HIDE DEF k
    <3>3. Rank(console', i) = n + k /\ console'[i] = <<t, chars[k]>>
      BY <1>2, <3>1
    <3>4. Rank(console', i) \in DOMAIN Expected(t)' /\ console'[i][2] = Expected(t)'[Rank(console', i)]
      BY <1>6, <1>7, <3>1, <3>3
    <3>5. CASE k = 1
      <4>1. Rank(console', i) - 1 = n
        BY <1>2, <3>3, <3>5
      <4> QED
        BY <1>5, <1>8, <3>4, <4>1
    <3>6. CASE i - 1 \in N + 1 .. N + m
      BY <1>2, <3>4, <3>6
    <3> QED
      BY <3>2, <3>5, <3>6
  <2> QED
    BY <1>2, <2>1, <2>2, <2>3 DEF Told
<1> QED
  BY <1>10, <1>11

\* A place before or behind the end of a line is not joined, and neither is one behind as many
\* characters of a line as the buffer takes.
LEMMA NotJoined ==
    ASSUME NEW text \in Seq(Nat), NEW i \in Nat,
           \/ i = 0 \/ i >= Len(text)
           \/ text[i] \in Separators \/ text[i + 1] \in Separators
           \/ i >= PRINTF_BUFMAX /\ \A j \in i - PRINTF_BUFMAX + 1 .. i : text[j] \notin Separators
    PROVE  i \notin Joined(text)
<1> SUFFICES ASSUME i \in Joined(text) PROVE FALSE
  OBVIOUS
<1>1. PRINTF_BUFMAX \in Nat \ {0} /\ Len(text) \in Nat
  BY StartAssumption
<1>2. /\ i \in 1 .. Len(text) - 1
      /\ \E first \in 1 .. i, last \in i + 1 .. Len(text) :
            /\ last - first < PRINTF_BUFMAX
            /\ \A j \in first .. last : text[j] \notin Separators
            /\ first = 1 \/ text[first - 1] \in Separators
  BY DEF Joined, Separators
<1>3. PICK first \in 1 .. i, last \in i + 1 .. Len(text) :
            /\ last - first < PRINTF_BUFMAX
            /\ \A j \in first .. last : text[j] \notin Separators
            /\ first = 1 \/ text[first - 1] \in Separators
  BY <1>2
<1>4. i \in first .. last /\ i + 1 \in first .. last /\ i # 0 /\ ~ (i >= Len(text))
  BY <1>1, <1>2
<1>5. i >= PRINTF_BUFMAX /\ \A j \in i - PRINTF_BUFMAX + 1 .. i : text[j] \notin Separators
  BY <1>3, <1>4
<1>6. first # 1 /\ first - 1 \in i - PRINTF_BUFMAX + 1 .. i
  BY <1>1, <1>3, <1>5
<1> QED
  BY <1>3, <1>5, <1>6

\* A step of a thread that writes nothing and sends nothing leaves all told.
LEMMA Keeping ==
    ASSUME PrintInv, NEW t \in Threads, UNCHANGED console,
           NEW q \in Prints, printing' = [printing EXCEPT ![t] = q],
           Sent(q) = Sent(printing[t]),
           \/ q.fn = printing[t].fn /\ q.text = printing[t].text
           \/ printing[t] = NoPrint
    PROVE  \A u \in Threads : Told(u)'
<1>1. /\ console' = console /\ console \in Seq(Threads \X Nat)
      /\ printing \in [Threads -> Prints] /\ \A u \in Threads : Told(u)
  BY DEF PrintInv
<1>2. printing'[t] = q /\ \A u \in Threads \ {t} : printing'[u] = printing[u]
  BY <1>1
<1>3. ASSUME NEW u \in Threads \ {t} PROVE Told(u)'
  <2>1. Told(u) /\ Expected(u)' = Expected(u) /\ printing'[u] = printing[u]
    BY <1>1, <1>2 DEF Expected
  <2> QED
    BY <1>1, <2>1 DEF Told
<1>4. Told(t)'
  <2>1. CASE q.fn = printing[t].fn /\ q.text = printing[t].text
    <3>1. Told(t) /\ Expected(t)' = Expected(t)
      BY <1>1, <1>2, <2>1 DEF Expected
    <3> QED
      BY <1>1, <1>2, <2>1, <3>1 DEF Told
  <2>2. CASE printing[t] = NoPrint
    <3>1. Cardinality(Mine(console, t)) = 0
      BY <1>1, <2>2 DEF Told, Sent, NoPrint
    <3>2. Mine(console, t) = {}
      <4>1. IsFiniteSet(1 .. Len(console)) /\ Mine(console, t) \subseteq 1 .. Len(console)
        <5>1. Len(console) \in Int /\ 1 \in Int
          BY <1>1
        <5>2. IsFiniteSet(1 .. Len(console))
          BY <5>1, FS_Interval
        <5> QED
          BY <1>1, <5>2 DEF Mine
      <4>2. IsFiniteSet(Mine(console, t))
        BY <4>1, FS_Subset
      <4> QED
        BY <3>1, <4>2, FS_EmptySet
    <3> QED
      BY <1>1, <1>2, <3>1, <3>2, <2>2 DEF Told
  <2> QED
    BY <2>1, <2>2
<1> QED
  BY <1>3, <1>4

\* printf: what it collects, what it writes when the buffer is full, at a separator and at the
\* end, and the character that made it write.
LEMMA PrintfSteps ==
    ASSUME PrintInv, NEW t \in Threads, printf_char(t) \/ printf_single(t) \/ printf_end(t)
    PROVE  PrintInv'
<1> DEFINE p == printing[t]
<1>1. /\ console \in Seq(Threads \X Nat) /\ printing \in [Threads -> Prints] /\ p \in Prints
      /\ p = NoPrint \/ Collects(p) \/ Puts(p)
      /\ \A u \in Threads : printing[u] = NoPrint \/ Collects(printing[u]) \/ Puts(printing[u])
  BY DEF PrintInv
<1>2. Collects(p)
  BY <1>1 DEF printf_char, printf_single, printf_end, Formatting, NoPrint, Puts
<1>3. /\ p.text \in Seq(Nat) /\ p.taken \in Nat /\ p.buf \in Seq(Nat)
      /\ PRINTF_BUFMAX \in Nat \ {0}
  BY <1>1, StartAssumption DEF Prints
<1>4. Expected(t) = p.text
  BY <1>2 DEF Collects, Expected
<1>5. ASSUME NEW q \in Prints, printing' = [printing EXCEPT ![t] = q], Collects(q),
             console' \in Seq(Threads \X Nat), \A u \in Threads : Told(u)'
      PROVE  PrintInv'
  <2>1. printing' \in [Threads -> Prints] /\ printing'[t] = q
        /\ \A u \in Threads \ {t} : printing'[u] = printing[u]
    BY <1>1, <1>5
  <2> QED
    BY <1>1, <1>5, <2>1 DEF PrintInv
<1>6. ASSUME NEW chars \in Seq(Nat), sys_write(t, chars) PROVE console' \in Seq(Threads \X Nat)
  <2>1. [i \in DOMAIN chars |-> <<t, chars[i]>>] \in Seq(Threads \X Nat)
    <3>1. DOMAIN chars = 1 .. Len(chars) /\ Len(chars) \in Nat
          /\ \A i \in 1 .. Len(chars) : <<t, chars[i]>> \in Threads \X Nat
      OBVIOUS
    <3>2. [i \in DOMAIN chars |-> <<t, chars[i]>>] \in [1 .. Len(chars) -> Threads \X Nat]
      BY <3>1
    <3> QED
      BY <3>1, <3>2
  <2> QED
    BY <1>1, <1>6, <2>1, Concatenated DEF sys_write
<1>7. ASSUME NEW step \in {"single", "done"}, flush(t, step),
             step = "single" => /\ p.taken < Len(p.text) /\ p.taken \notin Joined(p.text)
                                /\ p.taken + 1 \notin Joined(p.text),
             step = "done" => p.taken = Len(p.text)
      PROVE  PrintInv'
  <2> DEFINE q == [p EXCEPT !.buf = <<>>, !.step = step]
  <2>1. /\ q \in Prints /\ q.fn = p.fn /\ q.text = p.text /\ q.taken = p.taken /\ q.buf = <<>>
        /\ q.step = step
    <3>1. <<>> \in Seq(Nat)
      OBVIOUS
    <3> QED
      BY <1>1, <1>3, <3>1 DEF Prints
  <2>2. printing' = [printing EXCEPT ![t] = q]
    BY <1>1, <1>7 DEF flush, Prints
  <2> HIDE DEF q
  <2>3. sys_write(t, p.buf)
    BY <1>7 DEF flush
  <2>4. Sent(p) \in Nat /\ Sent(q) = p.taken /\ p.taken = Sent(p) + Len(p.buf)
    BY <1>2, <1>3, <2>1 DEF Sent, Collects
  <2>5. Collects(q)
    <3>1. p.taken \notin Joined(p.text)
      <4>1. CASE step = "done"
        <5>1. p.taken \in Nat /\ p.taken >= Len(p.text)
          BY <1>3, <1>7, <4>1
        <5> QED
          BY <1>3, <5>1, NotJoined
      <4> QED
        BY <1>7, <4>1
    <3> QED
      BY <1>2, <1>3, <1>7, <2>1, <2>4, <3>1 DEF Collects
  <2>6. \A k \in 1 .. Len(p.buf) : /\ Sent(p) + k \in DOMAIN Expected(t)
                                   /\ p.buf[k] = Expected(t)[Sent(p) + k]
    <3>1. /\ \A k \in 1 .. Len(p.buf) : p.buf[k] = p.text[Sent(p) + k]
          /\ p.taken <= Len(p.text)
      BY <1>2 DEF Collects
    <3>2. \A x, b \in Nat : \A k \in 1 .. b : x + k \in 1 .. x + b
      OBVIOUS
    <3>3. Len(p.buf) \in Nat /\ DOMAIN p.text = 1 .. Len(p.text) /\ Len(p.text) \in Nat
      BY <1>3
    <3>4. \A k \in 1 .. Len(p.buf) : Sent(p) + k \in 1 .. p.taken
      BY <2>4, <3>2, <3>3
    <3>5. 1 .. p.taken \subseteq 1 .. Len(p.text)
      BY <1>3, <3>1, <3>3
    <3> QED
      BY <1>4, <3>1, <3>3, <3>4, <3>5
  <2>7. \A u \in Threads : Told(u)'
    <3>1. q.fn = "printf" => Sent(p) \notin Joined(q.text)
      BY <1>2, <2>1 DEF Collects
    <3> QED
      BY <1>3, <2>1, <2>2, <2>3, <2>4, <2>6, <3>1, Sending
  <2> QED
    BY <1>3, <1>5, <1>6, <2>1, <2>2, <2>3, <2>5, <2>7
<1>8. CASE printf_end(t)
  <2>1. flush(t, "done") /\ ~ Left(t)
    BY <1>8 DEF printf_end
  <2>2. p.taken = Len(p.text)
    BY <1>2, <1>3, <2>1 DEF Left, Collects
  <2> QED
    BY <1>7, <2>1, <2>2
<1>9. CASE printf_single(t)
  <2> DEFINE q == [p EXCEPT !.taken = @ + 1, !.step = "format"]
  <2>1. /\ q \in Prints /\ q.fn = p.fn /\ q.text = p.text /\ q.taken = p.taken + 1
        /\ q.buf = p.buf /\ q.step = "format"
    <3>1. p.taken + 1 \in Nat
      BY <1>3
    <3> QED
      BY <1>1, <1>3, <3>1 DEF Prints
  <2>2. printing' = [printing EXCEPT ![t] = q]
    BY <1>1, <1>9 DEF printf_single, Prints
  <2> HIDE DEF q
  <2>3. /\ p.buf = <<>> /\ Len(p.buf) = 0 /\ p.taken < Len(p.text)
        /\ p.taken + 1 \notin Joined(p.text) /\ sys_write(t, <<Upcoming(t)>>)
    BY <1>2, <1>9 DEF Collects, printf_single
  <2>4. Sent(p) = p.taken /\ Sent(q) = p.taken + 1
    BY <1>3, <2>1, <2>3 DEF Sent
  <2>5. p.taken + 1 \in DOMAIN p.text /\ Upcoming(t) = p.text[p.taken + 1] /\ Upcoming(t) \in Nat
    BY <1>3, <2>3, NextItem, 0 \in Nat DEF Upcoming
  <2>6. Collects(q)
    BY <1>2, <1>3, <2>1, <2>3, <2>4 DEF Collects
  <2>7. <<Upcoming(t)>> \in Seq(Nat) /\ Len(<<Upcoming(t)>>) = 1 /\ <<Upcoming(t)>>[1] = Upcoming(t)
    BY <2>5
  <2>8. \A k \in 1 .. Len(<<Upcoming(t)>>) : /\ Sent(p) + k \in DOMAIN Expected(t)
                                             /\ <<Upcoming(t)>>[k] = Expected(t)[Sent(p) + k]
    BY <1>4, <2>4, <2>5, <2>7
  <2>9. \A u \in Threads : Told(u)'
    <3>1. q.fn = "printf" => Sent(p) \notin Joined(q.text)
      BY <1>2, <2>1 DEF Collects
    <3> QED
      <4> DEFINE chars == <<Upcoming(t)>>
      <4>1. /\ chars \in Seq(Nat) /\ sys_write(t, chars) /\ Sent(q) = Sent(p) + Len(chars)
            /\ \A k \in 1 .. Len(chars) : /\ Sent(p) + k \in DOMAIN Expected(t)
                                           /\ chars[k] = Expected(t)[Sent(p) + k]
        BY <2>3, <2>4, <2>7, <2>8
      <4> HIDE DEF chars
      <4> QED
        BY <2>1, <2>2, <3>1, <4>1, Sending
  <2> QED
    BY <1>5, <1>6, <2>1, <2>2, <2>3, <2>6, <2>7, <2>9
<1>10. CASE printf_char(t)
  <2>1. p.taken < Len(p.text) /\ p.taken + 1 \in DOMAIN p.text
        /\ Upcoming(t) = p.text[p.taken + 1] /\ Upcoming(t) \in Nat
    <3>1. p.taken < Len(p.text)
      BY <1>10 DEF printf_char, Left
    <3> QED
      BY <1>3, <3>1, NextItem, 0 \in Nat DEF Upcoming
  <2>2. CASE Upcoming(t) \in Separators
    <3>1. flush(t, "single")
      BY <1>10, <2>2 DEF printf_char, Separators
    <3>2. p.taken \notin Joined(p.text) /\ p.taken + 1 \notin Joined(p.text)
      BY <1>3, <2>1, <2>2, NotJoined
    <3> QED
      BY <1>7, <2>1, <3>1, <3>2
  <2>3. CASE Upcoming(t) \notin Separators /\ BufferFull(t)
    <3>1. flush(t, "single")
      BY <1>10, <2>3 DEF printf_char
    <3>2. Len(p.buf) = PRINTF_BUFMAX /\ Sent(p) = p.taken - PRINTF_BUFMAX
          /\ PRINTF_BUFMAX <= p.taken
      BY <1>2, <1>3, <2>3 DEF Collects, BufferFull, Sent
    <3>3. \A j \in p.taken - PRINTF_BUFMAX + 1 .. p.taken : p.text[j] \notin Separators
      <4> SUFFICES ASSUME NEW j \in p.taken - PRINTF_BUFMAX + 1 .. p.taken
                   PROVE  p.text[j] \notin Separators
        OBVIOUS
      <4> DEFINE k == j - (p.taken - PRINTF_BUFMAX)
      <4>1. k \in 1 .. PRINTF_BUFMAX /\ (p.taken - PRINTF_BUFMAX) + k = j
        <5> DEFINE x == p.taken
        <5>1. x \in Nat /\ PRINTF_BUFMAX \in Nat /\ j \in x - PRINTF_BUFMAX + 1 .. x
          BY <1>3
        <5> HIDE DEF x
        <5>2. j - (x - PRINTF_BUFMAX) \in 1 .. PRINTF_BUFMAX
              /\ (x - PRINTF_BUFMAX) + (j - (x - PRINTF_BUFMAX)) = j
          BY <5>1
        <5> QED
          BY <5>2 DEF x
      <4> HIDE DEF k
      <4> QED
        BY <1>2, <3>2, <4>1 DEF Collects
    <3>4. p.taken \notin Joined(p.text)
      BY <1>3, <3>2, <3>3, NotJoined
    <3>5. p.taken + 1 \notin Joined(p.text)
      <4>1. \A j \in (p.taken + 1) - PRINTF_BUFMAX + 1 .. p.taken + 1 :
                j = p.taken + 1 \/ j \in p.taken - PRINTF_BUFMAX + 1 .. p.taken
        <5>1. \A x, b \in Nat : \A j \in (x + 1) - b + 1 .. x + 1 :
                  j = x + 1 \/ j \in x - b + 1 .. x
          OBVIOUS
        <5> QED
          BY <1>3, <5>1
      <4>2. \A j \in (p.taken + 1) - PRINTF_BUFMAX + 1 .. p.taken + 1 : p.text[j] \notin Separators
        BY <2>1, <2>3, <3>3, <4>1
      <4>3. p.taken + 1 \in Nat /\ p.taken + 1 >= PRINTF_BUFMAX
        BY <1>3, <3>2
      <4> QED
        BY <1>3, <4>2, <4>3, NotJoined
    <3> QED
      BY <1>7, <2>1, <3>1, <3>4, <3>5
  <2>4. CASE Upcoming(t) \notin Separators /\ ~ BufferFull(t)
    <3> DEFINE c == Upcoming(t)
               q == [p EXCEPT !.buf = Append(@, c), !.taken = @ + 1]
    <3>1. /\ q \in Prints /\ q.fn = p.fn /\ q.text = p.text /\ q.taken = p.taken + 1
          /\ q.buf = Append(p.buf, c) /\ q.step = p.step
      <4>1. p.taken + 1 \in Nat /\ Append(p.buf, c) \in Seq(Nat)
        BY <1>3, <2>1
      <4> QED
        BY <1>1, <1>3, <4>1 DEF Prints
    <3>2. printing' = [printing EXCEPT ![t] = q] /\ UNCHANGED console
      BY <1>1, <1>10, <2>4 DEF printf_char, Prints, Separators
    <3>3. /\ Len(q.buf) = Len(p.buf) + 1 /\ q.buf[Len(p.buf) + 1] = c
          /\ \A k \in 1 .. Len(p.buf) : q.buf[k] = p.buf[k]
      BY <1>3, <2>1, <3>1
    <3> HIDE DEF q
    <3>4. Len(p.buf) < PRINTF_BUFMAX /\ p.step = "format"
      BY <1>3, <1>10, <2>4 DEF BufferFull, printf_char, Formatting
    <3>5. Sent(q) = Sent(p) /\ Sent(p) \in Nat /\ p.taken = Sent(p) + Len(p.buf)
      <4> DEFINE x == p.taken
                 y == Len(p.buf)
      <4>1. /\ x \in Nat /\ y \in Nat /\ y <= x /\ Sent(p) = x - y
            /\ Sent(q) = (x + 1) - (y + 1)
        BY <1>2, <1>3, <3>1, <3>3 DEF Sent, Collects
      <4> HIDE DEF x, y
      <4>2. Sent(q) = Sent(p) /\ Sent(p) \in Nat /\ x = Sent(p) + y
        BY <4>1
      <4> QED
        BY <4>2 DEF x, y
    <3>6. Collects(q)
      <4>1. \A k \in 1 .. Len(q.buf) :
                q.buf[k] = p.text[Sent(p) + k] /\ q.buf[k] \notin Separators
        <5> SUFFICES ASSUME NEW k \in 1 .. Len(q.buf)
                     PROVE  q.buf[k] = p.text[Sent(p) + k] /\ q.buf[k] \notin Separators
          OBVIOUS
        <5>1. Len(p.buf) \in Nat
          BY <1>3
        <5>2. CASE k \in 1 .. Len(p.buf)
          BY <1>2, <3>3, <5>2 DEF Collects
        <5>3. CASE k = Len(p.buf) + 1
          <6>1. Sent(p) + k = p.taken + 1
            BY <3>5, <5>1, <5>3
          <6> QED
            BY <2>1, <2>4, <3>3, <5>3, <6>1
        <5> QED
          BY <3>3, <5>1, <5>2, <5>3
      <4> QED
        <5>1. /\ q.fn = "printf" /\ q.step = "format" /\ q.taken <= Len(q.text)
              /\ Len(q.buf) <= q.taken /\ Len(q.buf) <= PRINTF_BUFMAX
          <6>1. /\ p.fn = "printf" /\ Len(p.buf) <= p.taken /\ Len(p.buf) \in Nat
                /\ p.taken + 1 <= Len(p.text)
            BY <1>2, <1>3, <2>1 DEF Collects
          <6>2. \A x, b, y \in Nat : b <= x /\ b < y => b + 1 <= x + 1 /\ b + 1 <= y
            OBVIOUS
          <6> QED
            BY <1>3, <3>1, <3>3, <3>4, <6>1, <6>2
        <5>2. Sent(q) \notin Joined(q.text)
          BY <1>2, <3>1, <3>5 DEF Collects
        <5> QED
          BY <3>1, <3>5, <4>1, <5>1, <5>2 DEF Collects
    <3>7. \A u \in Threads : Told(u)'
      BY <3>1, <3>2, <3>5, Keeping
    <3> QED
      BY <1>1, <1>5, <3>1, <3>2, <3>6, <3>7
  <2> QED
    BY <2>2, <2>3, <2>4
<1> QED
  BY <1>8, <1>9, <1>10

\* puts: a character at a time, and the newline.
LEMMA PutsSteps ==
    ASSUME PrintInv, NEW t \in Threads, putchar(t)
    PROVE  PrintInv'
<1> DEFINE p == printing[t]
           c == IF Left(t) THEN Upcoming(t) ELSE NEWLINE
           q == [p EXCEPT !.taken = @ + 1, !.step = IF Left(t) THEN "format" ELSE "done"]
<1>1. /\ console \in Seq(Threads \X Nat) /\ printing \in [Threads -> Prints] /\ p \in Prints
      /\ \A u \in Threads : printing[u] = NoPrint \/ Collects(printing[u]) \/ Puts(printing[u])
  BY DEF PrintInv
<1>2. /\ p.fn = "puts" /\ p.buf = <<>> /\ Len(p.buf) = 0 /\ p.step = "format"
      /\ p.taken <= Len(p.text)
  BY <1>1 DEF putchar, Formatting, NoPrint, Puts, Collects
<1>3. /\ p.text \in Seq(Nat) /\ p.taken \in Nat /\ Len(p.text) \in Nat /\ p.taken + 1 \in Nat
  BY <1>1 DEF Prints
<1>4. Expected(t) = Append(p.text, NEWLINE)
  BY <1>2 DEF Expected
<1>5. c \in Nat /\ p.taken + 1 \in DOMAIN Expected(t) /\ c = Expected(t)[p.taken + 1]
  <2>1. CASE Left(t)
    <3>1. p.taken < Len(p.text) /\ c = p.text[p.taken + 1]
      BY <2>1 DEF Left, Upcoming
    <3>2. NEWLINE \in Nat
      BY DEF NEWLINE
    <3> HIDE DEF c
    <3> QED
      BY <1>3, <1>4, <3>1, <3>2, NextItem
  <2>2. CASE ~ Left(t)
    <3>1. p.taken = Len(p.text) /\ c = NEWLINE
      BY <1>2, <1>3, <2>2 DEF Left
    <3> QED
      BY <1>3, <1>4, <3>1 DEF NEWLINE
  <2> QED
    BY <2>1, <2>2
<1>6. /\ q \in Prints /\ q.fn = "puts" /\ q.text = p.text /\ q.taken = p.taken + 1 /\ q.buf = <<>>
      /\ q.step = IF Left(t) THEN "format" ELSE "done"
  BY <1>1, <1>2, <1>3 DEF Prints
<1>7. printing' = [printing EXCEPT ![t] = q]
  BY <1>1 DEF putchar, Prints
<1>8. sys_write(t, <<c>>)
  BY DEF putchar
<1>9. Puts(q)
  <2>1. CASE Left(t)
    BY <1>3, <1>6, <2>1 DEF Puts, Left
  <2>2. CASE ~ Left(t)
    BY <1>2, <1>3, <1>6, <2>2 DEF Puts, Left
  <2> QED
    BY <2>1, <2>2
<1>10. Sent(p) = p.taken /\ Sent(q) = p.taken + 1
  BY <1>2, <1>3, <1>6 DEF Sent
<1> HIDE DEF c, q
<1>11. <<c>> \in Seq(Nat) /\ Len(<<c>>) = 1 /\ <<c>>[1] = c
  BY <1>5
<1>12. \A u \in Threads : Told(u)'
  <2>1. \A k \in 1 .. Len(<<c>>) : /\ Sent(p) + k \in DOMAIN Expected(t)
                                   /\ <<c>>[k] = Expected(t)[Sent(p) + k]
    BY <1>5, <1>10, <1>11
  <2> QED
    BY <1>2, <1>6, <1>7, <1>8, <1>10, <1>11, <2>1, Sending
<1>13. console' \in Seq(Threads \X Nat)
  <2>1. [i \in DOMAIN <<c>> |-> <<t, <<c>>[i]>>] \in Seq(Threads \X Nat)
    <3>1. [i \in DOMAIN <<c>> |-> <<t, <<c>>[i]>>] \in [1 .. 1 -> Threads \X Nat]
      BY <1>5, <1>11
    <3> QED
      BY <3>1
  <2> QED
    BY <1>1, <1>8, <2>1, Concatenated DEF sys_write
<1>14. printing' \in [Threads -> Prints] /\ printing'[t] = q
       /\ \A u \in Threads \ {t} : printing'[u] = printing[u]
  BY <1>1, <1>6, <1>7
<1> QED
  BY <1>1, <1>9, <1>12, <1>13, <1>14 DEF PrintInv

LEMMA PrintBegins ==
    ASSUME PrintInv, NEW t \in Threads, print(t)
    PROVE  PrintInv'
<1> DEFINE p == printing[t]
<1>1. /\ console \in Seq(Threads \X Nat) /\ printing \in [Threads -> Prints] /\ p \in Prints
      /\ \A u \in Threads : printing[u] = NoPrint \/ Collects(printing[u]) \/ Puts(printing[u])
  BY DEF PrintInv
<1>2. p = NoPrint
  BY <1>1 DEF print, Collects, Puts
<1>3. PICK fn \in {"printf", "puts"}, text \in BootTexts \cup Texts :
          printing' = [printing EXCEPT ![t] = [@ EXCEPT !.fn = fn, !.text = text, !.step = "format"]]
  BY DEF print
<1> DEFINE q == [p EXCEPT !.fn = fn, !.text = text, !.step = "format"]
<1>4. text \in Seq(Nat) /\ Len(text) \in Nat /\ Len(<<>>) = 0
  BY StartAssumption
<1>5. /\ q \in Prints /\ q.fn = fn /\ q.text = text /\ q.taken = 0 /\ q.buf = <<>>
      /\ q.step = "format"
  <2>1. p.taken = 0 /\ p.buf = <<>>
    BY <1>2 DEF NoPrint
  <2> QED
    BY <1>1, <1>4, <2>1 DEF Prints
<1>6. printing' = [printing EXCEPT ![t] = q] /\ UNCHANGED console
  BY <1>3 DEF print
<1> HIDE DEF q
<1>7. Sent(q) = 0 /\ Sent(p) = 0
  <2>1. p.taken = 0 /\ p.buf = <<>>
    BY <1>2 DEF NoPrint
  <2>2. Len(p.buf) = 0 /\ Len(q.buf) = 0
    BY <1>4, <1>5, <2>1, Zenon
  <2>3. p.taken - Len(p.buf) = 0 /\ q.taken - Len(q.buf) = 0
    <3>1. 0 - 0 = 0
      OBVIOUS
    <3> QED
      BY <1>5, <2>1, <2>2, <3>1, Zenon
  <2> QED
    BY <2>3, Zenon DEF Sent
<1>8. Collects(q) \/ Puts(q)
  <2>1. 0 \notin Joined(text) /\ PRINTF_BUFMAX \in Nat
    BY <1>4, StartAssumption DEF Joined
  <2>2. CASE fn = "printf"
    BY <1>4, <1>5, <1>7, <2>1, <2>2 DEF Collects
  <2>3. CASE fn = "puts"
    BY <1>4, <1>5, <2>3 DEF Puts
  <2> QED
    BY <2>2, <2>3
<1>9. \A u \in Threads : Told(u)'
  BY <1>2, <1>5, <1>6, <1>7, Keeping
<1>10. printing' \in [Threads -> Prints] /\ printing'[t] = q
       /\ \A u \in Threads \ {t} : printing'[u] = printing[u]
  BY <1>1, <1>5, <1>6
<1> QED
  BY <1>1, <1>6, <1>8, <1>9, <1>10 DEF PrintInv

\* At the end of a call nothing is left in its buffer.
LEMMA LinesAre == PrintInv => LinesWhole
<1> SUFFICES ASSUME PrintInv, NEW t \in Threads
             PROVE  LET p == printing[t]
                    IN  /\ Cardinality(Mine(console, t)) = p.taken - Len(p.buf)
                        /\ p.step = "done" => Cardinality(Mine(console, t)) = Len(Expected(t))
                        /\ \A i \in Mine(console, t) :
                               /\ Rank(console, i) \in DOMAIN Expected(t)
                               /\ console[i][2] = Expected(t)[Rank(console, i)]
                        /\ p.fn = "printf" =>
                              \A i \in Mine(console, t) :
                                  Rank(console, i) - 1 \in Joined(p.text)
                                      => i - 1 \in Mine(console, t)
  BY DEF LinesWhole
<1> DEFINE p == printing[t]
<1>1. /\ Told(t) /\ p \in Prints
      /\ p = NoPrint \/ Collects(p) \/ Puts(p)
  BY DEF PrintInv
<1>2. p.text \in Seq(Nat) /\ Len(p.text) \in Nat /\ p.taken \in Nat
  BY <1>1 DEF Prints
<1>3. ASSUME p.step = "done" PROVE Sent(p) = Len(Expected(t))
  <2>1. CASE Collects(p)
    <3>1. p.buf = <<>> /\ p.taken = Len(p.text) /\ Expected(t) = p.text
      BY <1>3, <2>1 DEF Collects, Expected
    <3>2. Len(<<>>) = 0
      OBVIOUS
    <3> QED
      BY <1>2, <3>1, <3>2 DEF Sent
  <2>2. CASE Puts(p)
    <3>1. p.buf = <<>> /\ p.taken = Len(p.text) + 1 /\ Expected(t) = Append(p.text, NEWLINE)
      BY <1>3, <2>2 DEF Puts, Expected
    <3>2. Len(<<>>) = 0 /\ Len(Append(p.text, NEWLINE)) = Len(p.text) + 1
      BY <1>2 DEF NEWLINE
    <3> QED
      BY <1>2, <3>1, <3>2 DEF Sent
  <2> QED
    BY <1>1, <1>3, <2>1, <2>2 DEF NoPrint
<1>4. /\ Cardinality(Mine(console, t)) = p.taken - Len(p.buf)
      /\ p.step = "done" => Cardinality(Mine(console, t)) = Len(Expected(t))
  BY <1>1, <1>3 DEF Told, Sent
<1>5. /\ \A i \in Mine(console, t) : /\ Rank(console, i) \in DOMAIN Expected(t)
                                     /\ console[i][2] = Expected(t)[Rank(console, i)]
      /\ p.fn = "printf" => \A i \in Mine(console, t) :
             Rank(console, i) - 1 \in Joined(p.text) => i - 1 \in Mine(console, t)
  BY <1>1 DEF Told
<1> QED
  BY <1>4, <1>5, Zenon

\* What a thread prints comes out once and in order, and no other thread writes into a line that
\* printf collects: for every buffer, all texts and any number of threads.
THEOREM LinesCorrect == StartSpec => []LinesWhole
<1>1. StartInit => PrintInv
  <2> SUFFICES ASSUME StartInit PROVE PrintInv
    OBVIOUS
  <2>1. console = <<>> /\ printing = [t \in Threads |-> NoPrint] /\ NoPrint \in Prints
    <3>1. <<>> \in Seq(Nat)
      OBVIOUS
    <3> QED
      BY <3>1 DEF StartInit, NoPrint, Prints
  <2>2. console \in Seq(Threads \X Nat) /\ DOMAIN console = {}
    BY <2>1
  <2>3. \A t \in Threads : Mine(console, t) = {}
    BY <2>2 DEF Mine
  <2>4. Cardinality({}) = 0 /\ Sent(NoPrint) = 0
    <3>1. Len(<<>>) = 0
      OBVIOUS
    <3> QED
      BY <3>1, FS_EmptySet DEF Sent, NoPrint
  <2>5. \A t \in Threads : Told(t)
    BY <2>1, <2>3, <2>4 DEF Told
  <2> QED
    BY <2>1, <2>2, <2>5 DEF PrintInv
<1>2. PrintInv /\ [StartNext]_svars => PrintInv'
  <2> SUFFICES ASSUME PrintInv, [StartNext]_svars PROVE PrintInv'
    OBVIOUS
  <2>1. CASE UNCHANGED pvars
    BY <2>1 DEF pvars, PrintInv, Told, Expected
  <2>2. CASE Boot \/ calculate
    BY <2>1, <2>2 DEF Boot, calculate, initialise_paging, setup_base, init_it, init_syscall, sti,
                      init_proc_table, init_timer, spawn, getchar
  <2>3. CASE Output
    <3>1. PICK t \in Threads : \/ print(t) \/ printf_char(t) \/ printf_single(t) \/ printf_end(t)
                               \/ putchar(t)
      BY <2>3 DEF Output
    <3> QED
      BY <3>1, PrintBegins, PrintfSteps, PutsSteps
  <2> QED
    BY <2>1, <2>2, <2>3 DEF StartNext, svars
<1> QED
  BY <1>1, <1>2, LinesAre, PTL DEF StartSpec
=============================================================================
