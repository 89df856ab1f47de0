------------------------------- MODULE Memory -------------------------------
(***************************************************************************)
(* Physical memory and page tables: kernel/kheap.c, mem.c and paging.c.    *)
(*                                                                         *)
(* kheap hands out addresses upwards from mem_heap, the bitmap of mem.c    *)
(* the first page that is free.  Addresses count in units that are parts   *)
(* of a page; page_bitmap is the set of the pages marked as used, and      *)
(* page_tables has the page of memory for each entry written, by the       *)
(* address of its table and its place there.                               *)
(***************************************************************************)
EXTENDS Integers, FiniteSets

CONSTANTS
    PAGE_SIZE,      \* units of a page (4096 bytes)
    NB_PAGES,       \* pages of memory (4096)
    ENTRIES,        \* entries of a directory and of a table (1024)
    Heaps           \* the addresses where mem_heap may be, behind the kernel

ASSUME MemoryAssumption ==
    /\ {PAGE_SIZE, NB_PAGES, ENTRIES} \subseteq Nat \ {0}
    /\ Heaps \subseteq Nat \ {0}
    /\ \A heap \in Heaps : heap + PAGE_SIZE * (ENTRIES + 2) <= PAGE_SIZE * NB_PAGES

VARIABLES
    placement_address,
    page_bitmap,
    kernel_page_directory,  \* its address, 0 before it has one
    directory,              \* its entries: the address of the table, 0 when not present
    page_tables

mvars == <<placement_address, page_bitmap, kernel_page_directory, directory, page_tables>>

Pages      == 0 .. NB_PAGES - 1
NoPage     == NB_PAGES          \* what findfreePage returns when there is none
Page(addr) == addr \div PAGE_SIZE

MemoryInit ==
    /\ placement_address \in Heaps
    /\ page_bitmap = {}
    /\ kernel_page_directory = 0
    /\ directory = [i \in 0 .. ENTRIES - 1 |-> 0]
    /\ page_tables = [slot \in {} |-> NoPage]

Aligned(addr) ==
    IF addr % PAGE_SIZE = 0 THEN addr ELSE (Page(addr) + 1) * PAGE_SIZE

\* kmalloc_int when align is set, and after it.
kmalloc_a(placement)         == Aligned(placement)
Placed(placement, sz)        == kmalloc_a(placement) + sz

findfreePage(bitmap) ==
    IF Pages \ bitmap = {} THEN NoPage
    ELSE CHOOSE page \in Pages \ bitmap : \A other \in Pages \ bitmap : page <= other

setPage(bitmap, page) == bitmap \cup {page}

\* Mutant: the page found is not marked.
Found_Unmarked(bitmap) == bitmap

\* findfreePage marks the page that it returns.
Found(bitmap) == IF findfreePage(bitmap) = NoPage THEN bitmap
                 ELSE setPage(bitmap, findfreePage(bitmap))

\* The entry of a virtual page, in the table that the directory has for it.
Slot(dir, page) == <<dir[page \div ENTRIES], page % ENTRIES>>

\* init_mem, and the page of the directory.
create_directory ==
    /\ kernel_page_directory' = kmalloc_a(placement_address)
    /\ placement_address' = Placed(placement_address, PAGE_SIZE)
    /\ page_bitmap' = setPage({}, Page(kernel_page_directory'))
    /\ UNCHANGED <<directory, page_tables>>

\* The i-th turn of initialise_paging: a table for the directory's i-th entry, and a page of
\* memory for the i-th virtual page.
map_page(i) ==
    /\ directory' = [directory EXCEPT ![i] = kmalloc_a(placement_address)]
    /\ placement_address' = Placed(placement_address, PAGE_SIZE)
    /\ LET slot == Slot(directory', i)
       IN  page_tables' = [s \in DOMAIN page_tables \cup {slot} |->
                               IF s = slot THEN findfreePage(page_bitmap) ELSE page_tables[s]]
    /\ page_bitmap' = Found(page_bitmap)
    /\ UNCHANGED kernel_page_directory

-----------------------------------------------------------------------------
\* The directory and its tables, the entries present, and the pages that they name.
Tables  == {kernel_page_directory} \cup {directory[i] : i \in DOMAIN directory}
Present == {i \in DOMAIN directory : directory[i] # 0}
Mapped  == {page_tables[s] : s \in DOMAIN page_tables}

\* No page of memory is mapped twice: the pages that entries name differ, they are marked, and
\* none is the directory's; and the directory and its tables are whole pages, apart from each
\* other, in the heap that starts behind the kernel.  The tables' pages are not marked, and are
\* mapped like free ones: nothing is claimed of that.
PagesOnce ==
    /\ Mapped \subseteq (page_bitmap \cap Pages) \ {Page(kernel_page_directory)}
    /\ Cardinality(Mapped) = Cardinality(DOMAIN page_tables)
    /\ \A table \in Tables : table % PAGE_SIZE = 0
    /\ Cardinality({Page(table) : table \in Tables \ {0}})
           = Cardinality(Present) + (IF kernel_page_directory = 0 THEN 0 ELSE 1)
=============================================================================
