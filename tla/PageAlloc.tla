----------------------------- MODULE PageAlloc -----------------------------
(***************************************************************************)
(* The physical page allocator, src/mm/page_alloc.c: a bitmap of page      *)
(* frames, a count of the free ones and a hint, next_free_page, from which *)
(* alloc_page starts its scan.  The allocator takes no lock: its callers   *)
(* run on the boot processor only and no interrupt handler allocates, so   *)
(* each call is one step.  The contents of pages are not modelled.         *)
(* Operators named ..._bug are seeded faults for the mutation runs.        *)
(***************************************************************************)
EXTENDS Integers, FiniteSets

CONSTANTS TotalKb,        \* pmm_init's argument: RAM in KiB
          MaxPhysPages,   \* MAX_PHYS_PAGES, the length of the bitmap in bits
          KernelPages     \* page frames below the end of the kernel image

PagesTotal ==
  IF TotalKb \div 4 > MaxPhysPages THEN MaxPhysPages ELSE TotalKb \div 4

ASSUME PageAllocAssumption ==
  /\ TotalKb \in Nat
  /\ MaxPhysPages \in Nat
  /\ KernelPages \in Nat
  /\ KernelPages <= PagesTotal

VARIABLES
  pmm_bitmap,       \* the set of page frames whose bit is set
  pmm_pages_free,
  next_free_page,
  panicked,         \* alloc_page found no page and halted the machine
  owners            \* history: allocations of each page not yet freed

vars == <<pmm_bitmap, pmm_pages_free, next_free_page, panicked, owners>>

Pages  == 0 .. PagesTotal - 1
Kernel == 0 .. KernelPages - 1
Free   == Pages \ pmm_bitmap

pmm_init ==
  /\ pmm_bitmap = Kernel
  /\ pmm_pages_free = PagesTotal - KernelPages
  /\ next_free_page = 0
  /\ panicked = FALSE
  /\ owners = [i \in Pages |-> 0]
-----------------------------------------------------------------------------
ScanStopsAt_anyClear_bug(i) == i >= next_free_page /\ i \notin pmm_bitmap

\* The first page, from the hint on, whose bit is clear.
ScanStopsAt(i) ==
  /\ i >= next_free_page
  /\ i \notin pmm_bitmap
  /\ \A j \in next_free_page .. i - 1 : j \in pmm_bitmap

alloc_page ==
  /\ ~panicked
  /\ \E i \in Pages :
       /\ ScanStopsAt(i)
       /\ pmm_bitmap' = pmm_bitmap \cup {i}
       /\ next_free_page' = i + 1
       /\ owners' = [owners EXCEPT ![i] = @ + 1]
  /\ pmm_pages_free' = pmm_pages_free - 1
  /\ UNCHANGED panicked

alloc_page_panic ==
  /\ ~panicked
  /\ \A i \in Pages : i >= next_free_page => i \in pmm_bitmap
  /\ panicked' = TRUE
  /\ UNCHANGED <<pmm_bitmap, pmm_pages_free, next_free_page, owners>>

LowerHint_bug(i) == next_free_page

LowerHint(i) == IF i < next_free_page THEN i ELSE next_free_page

IsAllocated_bug(i) == i < PagesTotal

IsAllocated(i) == i < PagesTotal /\ i \in pmm_bitmap

\* The early return for addresses beyond RAM, and the bit test that makes a
\* second free of the same page a no-op.
free_page(i) ==
  /\ ~panicked
  /\ IsAllocated(i)
  /\ pmm_bitmap' = pmm_bitmap \ {i}
  /\ pmm_pages_free' = pmm_pages_free + 1
  /\ next_free_page' = LowerHint(i)
  /\ owners' = [owners EXCEPT ![i] = IF @ > 0 THEN @ - 1 ELSE 0]
  /\ UNCHANGED panicked

\* Callers free pages they were given, free them again, and pass addresses of
\* device memory beyond RAM; none of them passes a page of the kernel image.
FreeArguments == (0 .. MaxPhysPages) \ Kernel

Next ==
  \/ alloc_page
  \/ alloc_page_panic
  \/ \E i \in FreeArguments : free_page(i)

Spec == pmm_init /\ [][Next]_vars
-----------------------------------------------------------------------------
\* Type invariant of the variables of page_alloc.c; the counters stay within
\* 0..pmm_pages_total, so their uint32_t never wraps.
TypeOK ==
  /\ pmm_bitmap \in SUBSET Pages
  /\ pmm_pages_free \in 0 .. PagesTotal
  /\ next_free_page \in 0 .. PagesTotal
  /\ panicked \in BOOLEAN
  /\ owners \in [Pages -> Nat]

\* alloc_page starts its scan at next_free_page and never looks below it:
\* no page below the hint is free, whatever order pages are freed in.
NoFreePageBelowHint == \A i \in Free : next_free_page <= i

\* pmm_pages_free, updated separately by pmm_init, alloc_page and free_page,
\* is the number of clear bits, also after double and out-of-range frees.
FreeCountExact == pmm_pages_free = Cardinality(Free)

\* No page has two owners, and no caller owns a page of the kernel image.
ExclusiveOwnership ==
  /\ \A i \in Pages : owners[i] <= 1
  /\ \A i \in Kernel : owners[i] = 0

\* The bit of a page is set exactly while it belongs to the kernel image or
\* to a caller of alloc_page, so a page cannot leak inside the allocator.
BitmapIsOwnership == pmm_bitmap = Kernel \cup {i \in Pages : owners[i] = 1}

\* "PANIC: Out of physical memory!" is printed only when no page is free.
PanicOnlyWhenExhausted == panicked => Free = {}

\* The bitmap with its hint implements a set of free pages from which the
\* lowest is taken: the hint is an optimisation and never changes the result.
Abstract == INSTANCE PageSet WITH Pages <- Pages, Reserved <- Kernel,
                                  free <- Free, panicked <- panicked
ImplementsPageSet == Abstract!Spec
=============================================================================
