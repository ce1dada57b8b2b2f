-------------------------- MODULE PageAllocProofs --------------------------
(***************************************************************************)
(* Proofs about PageAlloc for every RAM size, bitmap length and kernel     *)
(* image that fits in RAM.                                                 *)
(***************************************************************************)
EXTENDS PageAlloc, FiniteSetTheorems, TLAPS

\* The inductive invariant.  The count needs the type of the bitmap, the panic
\* condition needs the hint, and exclusive ownership needs the bitmap to be the
\* set of owned pages: no conjunct is inductive without the others.
IInv ==
  /\ TypeOK
  /\ NoFreePageBelowHint
  /\ FreeCountExact
  /\ ExclusiveOwnership
  /\ BitmapIsOwnership
  /\ PanicOnlyWhenExhausted

\* pmm_pages_total, clamped to MAX_PHYS_PAGES, is a natural number no larger
\* than the bitmap, and the kernel image lies within it.
LEMMA PagesTotalType ==
  PagesTotal \in Nat /\ PagesTotal <= MaxPhysPages /\ Kernel \subseteq Pages
BY PageAllocAssumption DEF PagesTotal, Kernel, Pages

\* There are pmm_pages_total page frames.
LEMMA PagesFinite == IsFiniteSet(Pages) /\ Cardinality(Pages) = PagesTotal
<1>1. PagesTotal \in Nat /\ PagesTotal - 1 \in Int /\ 0 \in Int
  BY PagesTotalType
<1>2. /\ IsFiniteSet(0 .. PagesTotal - 1)
      /\ Cardinality(0 .. PagesTotal - 1)
           = IF 0 > PagesTotal - 1 THEN 0 ELSE (PagesTotal - 1) - 0 + 1
  BY <1>1, FS_Interval, Zenon
<1> QED
  BY <1>1, <1>2 DEF Pages

\* The set of free page frames is finite, and no larger than RAM.
LEMMA FreeFinite ==
  ASSUME TypeOK
  PROVE  /\ IsFiniteSet(Free)
         /\ Cardinality(Free) \in 0 .. PagesTotal
<1>1. Free \in SUBSET Pages
  BY DEF Free
<1>2. IsFiniteSet(Free) /\ Cardinality(Free) <= PagesTotal
  BY <1>1, PagesFinite, FS_Subset
<1> QED
  BY <1>2, FS_CardinalityType, PagesTotalType

\* pmm_init establishes the invariant.
LEMMA InitInv == pmm_init => IInv
<1> SUFFICES ASSUME pmm_init PROVE IInv
  OBVIOUS
<1> USE DEF pmm_init
<1>1. TypeOK
  <2>1. pmm_bitmap \in SUBSET Pages
    BY PagesTotalType
  <2>2. pmm_pages_free \in 0 .. PagesTotal /\ next_free_page \in 0 .. PagesTotal
    BY PagesTotalType, PageAllocAssumption
  <2>3. owners \in [Pages -> Nat] /\ panicked \in BOOLEAN
    OBVIOUS
  <2> QED
    BY <2>1, <2>2, <2>3 DEF TypeOK
<1>2. FreeCountExact
  <2>1. Free = KernelPages .. PagesTotal - 1
    BY PageAllocAssumption, PagesTotalType DEF Free, Pages, Kernel
  <2>2. Cardinality(KernelPages .. PagesTotal - 1) = PagesTotal - KernelPages
    BY PageAllocAssumption, PagesTotalType, FS_Interval
  <2> QED
    BY <2>1, <2>2 DEF FreeCountExact
<1>3. NoFreePageBelowHint
  BY PagesTotalType DEF NoFreePageBelowHint, Free, Pages
<1>4. ExclusiveOwnership /\ BitmapIsOwnership
  BY PagesTotalType DEF ExclusiveOwnership, BitmapIsOwnership
<1>5. PanicOnlyWhenExhausted
  BY DEF PanicOnlyWhenExhausted
<1> QED
  BY <1>1, <1>2, <1>3, <1>4, <1>5 DEF IInv

\* A successful alloc_page preserves the invariant.
LEMMA AllocInv == IInv /\ alloc_page => IInv'
<1> SUFFICES ASSUME IInv, alloc_page PROVE IInv'
  OBVIOUS
<1>1. PICK i \in Pages :
        /\ ScanStopsAt(i)
        /\ pmm_bitmap' = pmm_bitmap \cup {i}
        /\ next_free_page' = i + 1
        /\ owners' = [owners EXCEPT ![i] = @ + 1]
  BY DEF alloc_page
<1>2. i \in Free /\ Free' = Free \ {i}
  BY <1>1 DEF ScanStopsAt, Free, Pages
<1>3. /\ Cardinality(Free') = Cardinality(Free) - 1
      /\ Cardinality(Free) \in 1 .. PagesTotal
  <2>1. Cardinality(Free') = Cardinality(Free) - 1
    BY <1>2, FreeFinite, FS_RemoveElement DEF IInv
  <2>2. Cardinality(Free) # 0
    BY <1>2, FreeFinite, FS_EmptySet DEF IInv
  <2> QED
    BY <2>1, <2>2, FreeFinite DEF IInv
<1>4. TypeOK'
  BY <1>1, <1>3, PagesTotalType
     DEF IInv, TypeOK, FreeCountExact, alloc_page, Pages
<1>5. NoFreePageBelowHint'
  <2> SUFFICES ASSUME NEW j \in Free' PROVE i + 1 <= j
    BY <1>1 DEF NoFreePageBelowHint
  <2>1. j \in Free /\ j # i /\ j \in Int /\ i \in Int
    BY <1>2, PagesTotalType DEF Free, Pages
  <2>2. next_free_page <= j /\ next_free_page \in Int
    BY <2>1, PagesTotalType DEF IInv, NoFreePageBelowHint, TypeOK
  <2>3. j \notin next_free_page .. i - 1
    BY <1>1, <2>1 DEF ScanStopsAt, Free
  <2> QED
    BY <2>1, <2>2, <2>3
<1>6. FreeCountExact'
  BY <1>3 DEF IInv, FreeCountExact, alloc_page
<1>7. i \notin Kernel /\ owners[i] = 0
  <2>1. i \notin Kernel /\ owners[i] # 1
    BY <1>1 DEF ScanStopsAt, IInv, BitmapIsOwnership
  <2> QED
    BY <2>1 DEF IInv, ExclusiveOwnership, TypeOK
<1>8. ExclusiveOwnership'
  BY <1>1, <1>7, PagesTotalType DEF IInv, ExclusiveOwnership, TypeOK
<1>9. BitmapIsOwnership'
  BY <1>1, <1>7, PagesTotalType DEF IInv, BitmapIsOwnership, TypeOK
<1>10. PanicOnlyWhenExhausted'
  BY DEF alloc_page, PanicOnlyWhenExhausted
<1> QED
  BY <1>4, <1>5, <1>6, <1>8, <1>9, <1>10 DEF IInv

\* free_page preserves the invariant, for every argument its callers pass.
LEMMA FreeInv ==
  ASSUME IInv, NEW i \in FreeArguments, free_page(i)
  PROVE  IInv'
<1>1. i \in Pages /\ i \in pmm_bitmap /\ i \notin Kernel
  BY PagesTotalType, PageAllocAssumption
     DEF free_page, IsAllocated, FreeArguments, Pages
<1>2. i \notin Free /\ Free' = Free \cup {i}
  BY <1>1 DEF free_page, Free
<1>3. /\ Cardinality(Free') = Cardinality(Free) + 1
      /\ Cardinality(Free) \in 0 .. PagesTotal
  BY <1>2, FreeFinite, FS_AddElement DEF IInv
<1>4. TypeOK'
  <2>1. pmm_bitmap' \in SUBSET Pages /\ panicked' \in BOOLEAN
    BY DEF free_page, IInv, TypeOK
  <2>2. next_free_page' \in 0 .. PagesTotal
    BY <1>1, PagesTotalType DEF free_page, LowerHint, IInv, TypeOK, Pages
  <2>3. owners' \in [Pages -> Nat]
    BY <1>1 DEF free_page, IInv, TypeOK
  <2>4. Cardinality(Free') <= PagesTotal
    <3>1. Free' \in SUBSET Pages
      BY DEF Free
    <3> QED
      BY <3>1, PagesFinite, FS_Subset
  <2>5. pmm_pages_free' \in 0 .. PagesTotal
    BY <1>3, <2>4, PagesTotalType DEF free_page, IInv, FreeCountExact
  <2> QED
    BY <2>1, <2>2, <2>3, <2>5 DEF TypeOK
<1>5. NoFreePageBelowHint'
  <2> SUFFICES ASSUME NEW j \in Free' PROVE next_free_page' <= j
    BY DEF NoFreePageBelowHint
  <2>1. j = i \/ next_free_page <= j
    BY <1>2 DEF IInv, NoFreePageBelowHint
  <2>2. j \in Int /\ i \in Int /\ next_free_page \in Int
    BY <1>1, PagesTotalType DEF Free, Pages, IInv, TypeOK
  <2> QED
    BY <2>1, <2>2 DEF free_page, LowerHint
<1>6. FreeCountExact'
  BY <1>3 DEF IInv, FreeCountExact, free_page
<1>7. owners[i] = 1 /\ owners' = [owners EXCEPT ![i] = 0]
  <2>1. owners[i] = 1
    BY <1>1 DEF IInv, BitmapIsOwnership
  <2> QED
    BY <2>1 DEF free_page
<1>8. ExclusiveOwnership'
  BY <1>1, <1>7, PagesTotalType DEF IInv, ExclusiveOwnership, TypeOK
<1>9. BitmapIsOwnership'
  BY <1>1, <1>7, PagesTotalType
     DEF IInv, BitmapIsOwnership, TypeOK, free_page
<1>10. PanicOnlyWhenExhausted'
  BY DEF free_page, PanicOnlyWhenExhausted
<1> QED
  BY <1>4, <1>5, <1>6, <1>8, <1>9, <1>10 DEF IInv

\* Every step of the allocator preserves the invariant.
LEMMA NextInv == IInv /\ [Next]_vars => IInv'
<1> SUFFICES ASSUME IInv, [Next]_vars PROVE IInv'
  OBVIOUS
<1>1. CASE alloc_page
  BY <1>1, AllocInv
<1>2. CASE alloc_page_panic
  <2>1. Free' = {}
    BY <1>2, PagesTotalType
       DEF alloc_page_panic, IInv, NoFreePageBelowHint, Free
  <2> QED
    BY <1>2, <2>1
       DEF alloc_page_panic, IInv, TypeOK, NoFreePageBelowHint, FreeCountExact,
           ExclusiveOwnership, BitmapIsOwnership, PanicOnlyWhenExhausted, Free
<1>3. CASE \E i \in FreeArguments : free_page(i)
  BY <1>3, FreeInv
<1>4. CASE UNCHANGED vars
  BY <1>4 DEF vars, IInv, TypeOK, NoFreePageBelowHint, FreeCountExact,
     ExclusiveOwnership, BitmapIsOwnership, PanicOnlyWhenExhausted, Free
<1> QED
  BY <1>1, <1>2, <1>3, <1>4 DEF Next

\* The inductive invariant holds in every reachable state.
THEOREM Invariance == Spec => []IInv
BY InitInv, NextInv, PTL DEF Spec

\* pmm_pages_free, next_free_page and the bitmap stay within RAM: no counter of
\* page_alloc.c wraps.
THEOREM TypeCorrect == Spec => []TypeOK
<1>1. IInv => TypeOK
  BY DEF IInv
<1> QED
  BY <1>1, Invariance, PTL

\* alloc_page never skips a free page: none lies below next_free_page.
THEOREM HintSafe == Spec => []NoFreePageBelowHint
<1>1. IInv => NoFreePageBelowHint
  BY DEF IInv
<1> QED
  BY <1>1, Invariance, PTL

\* pmm_pages_free is the number of free pages in every reachable state.
THEOREM FreeCountCorrect == Spec => []FreeCountExact
<1>1. IInv => FreeCountExact
  BY DEF IInv
<1> QED
  BY <1>1, Invariance, PTL

\* alloc_page never returns a page that is in use or part of the kernel image.
THEOREM OwnershipCorrect == Spec => []ExclusiveOwnership
<1>1. IInv => ExclusiveOwnership
  BY DEF IInv
<1> QED
  BY <1>1, Invariance, PTL

\* alloc_page halts the machine only when every page is in use.
THEOREM PanicCorrect == Spec => []PanicOnlyWhenExhausted
<1>1. IInv => PanicOnlyWhenExhausted
  BY DEF IInv
<1> QED
  BY <1>1, Invariance, PTL

\* The page at which the scan of alloc_page stops is the lowest free page.
LEMMA ScanFindsLowest ==
  ASSUME IInv, NEW i \in Pages, ScanStopsAt(i)
  PROVE  i \in Free /\ i = Abstract!Lowest(Free)
<1>1. i \in Free
  BY DEF ScanStopsAt, Free
<1>2. \A j \in Free : j \in Int /\ i <= j
  <2> SUFFICES ASSUME NEW j \in Free PROVE j \in Int /\ i <= j
    OBVIOUS
  <2>1. i \in Int /\ j \in Int /\ next_free_page \in Int /\ next_free_page <= j
    BY PagesTotalType DEF IInv, TypeOK, NoFreePageBelowHint, Free, Pages
  <2>2. j \notin next_free_page .. i - 1
    BY DEF ScanStopsAt, Free
  <2> QED
    BY <2>1, <2>2
<1>3. \A k \in Free : (\A j \in Free : k <= j) => k = i
  BY <1>1, <1>2
<1> QED
  BY <1>1, <1>2, <1>3 DEF Abstract!Lowest

\* Every step of the bitmap allocator is a step of the set of free pages, or
\* leaves it as it is.
LEMMA StepSimulation == IInv /\ [Next]_vars => [Abstract!Next]_(Abstract!vars)
<1> SUFFICES ASSUME IInv, [Next]_vars
             PROVE  Abstract!Next \/ UNCHANGED <<Free, panicked>>
  BY DEF Abstract!vars
<1>1. CASE alloc_page
  <2>1. PICK i \in Pages : ScanStopsAt(i) /\ pmm_bitmap' = pmm_bitmap \cup {i}
    BY <1>1 DEF alloc_page
  <2>2. i \in Free /\ i = Abstract!Lowest(Free)
    BY <2>1, ScanFindsLowest
  <2>3. Free' = Free \ {i}
    BY <2>1 DEF Free
  <2> QED
    BY <1>1, <2>2, <2>3 DEF alloc_page, Abstract!Next, Abstract!Allocate
<1>2. CASE alloc_page_panic
  <2>1. Free = {} /\ Free' = Free
    BY <1>2 DEF alloc_page_panic, IInv, NoFreePageBelowHint, Free
  <2> QED
    BY <1>2, <2>1 DEF alloc_page_panic, Abstract!Next, Abstract!Exhausted
<1>3. CASE \E i \in FreeArguments : free_page(i)
  <2>1. PICK i \in FreeArguments : free_page(i)
    BY <1>3
  <2>2. i \in Pages \ Kernel
    BY <2>1, PagesTotalType, PageAllocAssumption
       DEF free_page, IsAllocated, FreeArguments, Pages
  <2>3. Free' = Free \cup {i}
    BY <2>1, <2>2 DEF free_page, Free
  <2> QED
    BY <2>1, <2>2, <2>3 DEF free_page, Abstract!Next, Abstract!Release
<1>4. CASE UNCHANGED vars
  BY <1>4 DEF vars, Free
<1> QED
  BY <1>1, <1>2, <1>3, <1>4 DEF Next

\* The allocator of page_alloc.c implements a set of free pages from which the
\* lowest is taken: bitmap, count and hint are invisible to its callers.
THEOREM Refinement == Spec => ImplementsPageSet
<1>1. pmm_init => Abstract!Init
  BY DEF pmm_init, Abstract!Init, Free
<1> QED
  BY <1>1, StepSimulation, Invariance, PTL
     DEF Spec, ImplementsPageSet, Abstract!Spec
=============================================================================
