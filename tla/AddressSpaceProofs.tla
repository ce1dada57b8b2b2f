------------------------ MODULE AddressSpaceProofs -------------------------
(***************************************************************************)
(* The address spaces for any number of processes, frames and shared pages *)
(* per process: what a fork unshares, and that text and stack of every     *)
(* process are the private memory of ProcessMemory.                        *)
(***************************************************************************)
EXTENDS AddressSpace, FiniteSetTheorems, TLAPS

MemoryType ==
  /\ live \subseteq Procs
  /\ pt \in [Procs -> [Pages -> {Unmapped, Device} \cup Frames]]
  /\ shm_pages \in [Procs -> Seq(Frames)]
  /\ memory \in [Frames -> Values]
  /\ used \in Frames

\* Frames not handed out are clear and in no table; a process that does not
\* exist has no pages.
UnusedInv ==
  /\ \A f \in Frames : f > used => memory[f] = 0
  /\ \A p \in Procs, v \in Pages : pt[p][v] <= used
  /\ \A p \in Procs : \A i \in DOMAIN shm_pages[p] : shm_pages[p][i] <= used
  /\ \A p \in Procs \ live, v \in Pages : pt[p][v] = Unmapped

Own(p, v) == v \in {Text, Stack} \/ <<p, v>> \in inherited

\* A frame of one page of one process, and not one of the shared pages.
Exclusive(p, v) ==
  /\ pt[p][v] # Device
  /\ \A q \in Procs, u \in Pages : pt[q][u] = pt[p][v] => q = p /\ u = v
  /\ \A q \in Procs : \A i \in DOMAIN shm_pages[q] : shm_pages[q][i] # pt[p][v]

\* Text, stack and what comes from a fork is exclusive; the rest is the screen
\* or a shared page of the process.
SharingInv ==
  /\ \A p \in Procs : \A v \in Mapped(p) : Own(p, v) => Exclusive(p, v)
  /\ \A p \in Procs : \A v \in Mapped(p) :
       v \notin {Screen, Text, Stack} => v - 3 \in DOMAIN shm_pages[p]
  /\ \A p \in Procs : \A v \in Mapped(p) : ~Own(p, v) =>
       pt[p][v] = IF v = Screen THEN Device ELSE shm_pages[p][v - 3]

SpaceInv == MemoryType /\ UnusedInv /\ SharingInv
-----------------------------------------------------------------------------
\* The pieces of the invariant for one page of one process.
LEMMA PageFacts ==
  ASSUME SpaceInv, NEW p \in Procs, NEW v \in Pages
  PROVE  /\ pt[p] \in [Pages -> {Unmapped, Device} \cup Frames]
         /\ pt[p][v] \in {Unmapped, Device} \cup Frames
         /\ pt[p][v] \in Int /\ pt[p][v] <= used
         /\ used \in Int /\ used \in Frames
         /\ shm_pages[p] \in Seq(Frames)
BY DEF SpaceInv, MemoryType, UnusedInv, Unmapped, Device, Frames

LEMMA SpaceInit ==
  ASSUME AddressSpaceAssumption, Init
  PROVE  SpaceInv
<1> USE DEF Screen, Text, Stack, Pages, Unmapped, Device, Frames
<1>1. PICK x \in Values : memory = [f \in Frames |-> IF f = 1 THEN x ELSE 0]
  BY DEF Init
<1>2. Fresh(1) \in [Pages -> {Unmapped, Device} \cup Frames]
  BY DEF Fresh, NoPages, AddressSpaceAssumption
<1>3. \A v \in Pages : Fresh(1)[v] = IF v = Screen THEN Device ELSE IF v = Text THEN 1 ELSE Unmapped
  BY DEF Fresh, NoPages, AddressSpaceAssumption
<1>4. NoPages \in [Pages -> {Unmapped, Device} \cup Frames]
  BY DEF NoPages
<1>5. MemoryType
  BY <1>1, <1>2, <1>4 DEF Init, MemoryType, AddressSpaceAssumption
<1>6. \A p \in Procs, v \in Pages :
        pt[p][v] = IF p # First THEN Unmapped
                   ELSE IF v = Screen THEN Device ELSE IF v = Text THEN 1 ELSE Unmapped
  BY <1>3 DEF Init, NoPages
<1>7. \A p \in Procs : DOMAIN shm_pages[p] = {}
  BY DEF Init
<1>8. UnusedInv
  BY <1>1, <1>6, <1>7 DEF Init, UnusedInv
<1>9. SharingInv
  BY <1>6, <1>7 DEF Init, SharingInv, Own, Exclusive, Mapped
<1> QED
  BY <1>5, <1>8, <1>9 DEF SpaceInv

LEMMA StoreStep ==
  ASSUME AddressSpaceAssumption, SpaceInv, NEW p \in Procs, NEW v \in Pages, NEW x \in Values,
         Store(p, v, x)
  PROVE  SpaceInv'
<1>1. /\ memory' \in [Frames -> Values]
      /\ \A f \in Frames : f > used => memory'[f] = 0
  <2>1. pt[p][v] \in Int /\ pt[p][v] <= used /\ used \in Int
    BY PageFacts
  <2>2. memory \in [Frames -> Values] /\ \A f \in Frames : f > used => memory[f] = 0
    BY DEF SpaceInv, MemoryType, UnusedInv
  <2>3. memory' = [memory EXCEPT ![pt[p][v]] = x]
    BY DEF Store
  <2>4. memory' \in [Frames -> Values]
    BY <2>2, <2>3, Zenon
  <2>5. ASSUME NEW f \in Frames, f > used PROVE memory'[f] = 0
    <3>1. f # pt[p][v]
      BY <2>1, <2>5 DEF Frames, AddressSpaceAssumption
    <3> QED
      BY <2>2, <2>3, <2>5, <3>1
  <2> QED
    BY <2>4, <2>5
<1>2. UNCHANGED <<live, pt, shm_pages, used, inherited>>
  BY DEF Store
<1>3. MemoryType'
  BY <1>1, <1>2 DEF SpaceInv, MemoryType
<1>4. UnusedInv'
  BY <1>1, <1>2 DEF SpaceInv, UnusedInv
<1>5. SharingInv'
  BY <1>2 DEF SpaceInv, SharingInv, Own, Exclusive, Mapped
<1> QED
  BY <1>3, <1>4, <1>5 DEF SpaceInv

LEMMA IdleStep ==
  ASSUME SpaceInv, UNCHANGED <<live, pt, shm_pages, memory, used, inherited>>
  PROVE  SpaceInv'
<1>1. MemoryType' /\ UnusedInv'
  BY DEF SpaceInv, MemoryType, UnusedInv
<1>2. SharingInv'
  BY DEF SpaceInv, SharingInv, Own, Exclusive, Mapped
<1> QED
  BY <1>1, <1>2 DEF SpaceInv

LEMMA ShmgetStep ==
  ASSUME AddressSpaceAssumption, SpaceInv, NEW p \in Procs, sys_shmget(p), Enough(1)
  PROVE  SpaceInv'
<1>1. /\ shm_pages' = [shm_pages EXCEPT ![p] = Append(@, used + 1)]
      /\ used' = used + 1
      /\ UNCHANGED <<live, pt, memory, inherited>>
  BY DEF sys_shmget, OutOfMemory
<1>2. used \in Frames /\ used + 1 \in Frames /\ used \in Int
  BY DEF SpaceInv, MemoryType, Enough, Frames, AddressSpaceAssumption
<1>3. /\ shm_pages' \in [Procs -> Seq(Frames)]
      /\ \A q \in Procs : q # p => shm_pages'[q] = shm_pages[q]
      /\ DOMAIN shm_pages[p] \subseteq DOMAIN shm_pages'[p]
      /\ \A i \in DOMAIN shm_pages[p] : shm_pages'[p][i] = shm_pages[p][i]
      /\ \A i \in DOMAIN shm_pages'[p] : i \in DOMAIN shm_pages[p] \/ shm_pages'[p][i] = used + 1
  <2>1. shm_pages \in [Procs -> Seq(Frames)]
    BY DEF SpaceInv, MemoryType
  <2>2. shm_pages'[p] = Append(shm_pages[p], used + 1)
    BY <1>1, <2>1
  <2> QED
    BY <1>1, <1>2, <2>1, <2>2
<1>4. \A q \in Procs : \A i \in DOMAIN shm_pages'[q] :
        \/ i \in DOMAIN shm_pages[q] /\ shm_pages'[q][i] = shm_pages[q][i]
        \/ shm_pages'[q][i] = used + 1
  BY <1>3
<1>5. \A q \in Procs, v \in Pages : pt[q][v] \in Int /\ pt[q][v] <= used /\ pt[q][v] # used + 1
  BY <1>2, PageFacts
<1>6. MemoryType'
  BY <1>1, <1>2, <1>3 DEF SpaceInv, MemoryType
<1>7. UnusedInv'
  <2>1. \A q \in Procs : \A i \in DOMAIN shm_pages[q] : shm_pages[q][i] \in Int /\ shm_pages[q][i] <= used
    BY DEF SpaceInv, MemoryType, UnusedInv, Frames
  <2>2. \A q \in Procs : \A i \in DOMAIN shm_pages'[q] : shm_pages'[q][i] <= used + 1
    BY <1>2, <1>4, <2>1
  <2>3. \A q \in Procs, v \in Pages : pt[q][v] <= used + 1
    BY <1>2, <1>5
  <2>4. \A f \in Frames : f > used + 1 => memory[f] = 0
    BY <1>2 DEF SpaceInv, UnusedInv, Frames, AddressSpaceAssumption
  <2> QED
    BY <1>1, <2>2, <2>3, <2>4 DEF SpaceInv, UnusedInv
<1>8. SharingInv'
  <2>1. ASSUME NEW q \in Procs, NEW v \in Mapped(q), Own(q, v) PROVE Exclusive(q, v)'
    <3>1. Exclusive(q, v)
      BY <2>1 DEF SpaceInv, SharingInv
    <3>2. v \in Pages
      BY DEF Mapped
    <3> QED
      BY <1>1, <1>4, <1>5, <3>1, <3>2 DEF Exclusive
  <2>2. \A q \in Procs : DOMAIN shm_pages[q] \subseteq DOMAIN shm_pages'[q]
    BY <1>3
  <2>3. \A q \in Procs : \A i \in DOMAIN shm_pages[q] : shm_pages'[q][i] = shm_pages[q][i]
    BY <1>3
  <2> QED
    BY <1>1, <2>1, <2>2, <2>3 DEF SpaceInv, SharingInv, Own, Mapped
<1> QED
  BY <1>6, <1>7, <1>8 DEF SpaceInv

LEMMA ShmatStep ==
  ASSUME AddressSpaceAssumption, SpaceInv, NEW p \in live, NEW i \in 1 .. MAX_SHM_REGIONS,
         sys_shmat(p, i)
  PROVE  SpaceInv'
<1> DEFINE w == Shm(i)
           f == shm_pages[p][i]
<1>1. p \in Procs /\ w \in Pages /\ w \notin {Screen, Text, Stack} /\ w - 3 = i
  BY DEF SpaceInv, MemoryType, Shm, Pages, Screen, Text, Stack, AddressSpaceAssumption
<1>2. i \in DOMAIN shm_pages[p] /\ f \in Frames /\ f <= used
  BY <1>1 DEF sys_shmat, SpaceInv, MemoryType, UnusedInv
<1>3. f \in Int /\ f # Unmapped /\ f # Device
  BY <1>2 DEF Frames, Unmapped, Device, AddressSpaceAssumption
<1>4. /\ pt' = [pt EXCEPT ![p][w] = f]
      /\ inherited' = inherited \ {<<p, w>>}
      /\ UNCHANGED <<live, shm_pages, memory, used>>
  BY DEF sys_shmat
<1> HIDE DEF w, f
<1>5. /\ pt' \in [Procs -> [Pages -> {Unmapped, Device} \cup Frames]]
      /\ pt'[p][w] = f
      /\ \A q \in Procs, u \in Pages : (q # p \/ u # w) => pt'[q][u] = pt[q][u]
  BY <1>1, <1>2, <1>4 DEF SpaceInv, MemoryType
<1>6. MemoryType'
  BY <1>4, <1>5 DEF SpaceInv, MemoryType
<1>7. UnusedInv'
  BY <1>1, <1>2, <1>4, <1>5 DEF SpaceInv, UnusedInv
<1>8. ASSUME NEW q \in Procs, NEW u \in Mapped(q)', Own(q, u)' PROVE Exclusive(q, u)'
  <2>1. u \in Pages /\ (q # p \/ u # w) /\ Own(q, u)
    BY <1>1, <1>4, <1>8 DEF Mapped, Own
  <2>2. pt'[q][u] = pt[q][u] /\ u \in Mapped(q)
    BY <1>5, <1>8, <2>1 DEF Mapped
  <2>3. Exclusive(q, u)
    BY <2>1, <2>2 DEF SpaceInv, SharingInv
  <2>4. pt[q][u] # f
    BY <1>1, <1>2, <2>3 DEF Exclusive, f
  <2> QED
    BY <1>4, <1>5, <2>2, <2>3, <2>4 DEF Exclusive
<1>9. ASSUME NEW q \in Procs, NEW u \in Mapped(q)', u \notin {Screen, Text, Stack}
      PROVE  u - 3 \in DOMAIN shm_pages[q]
  <2>1. CASE q = p /\ u = w
    BY <1>1, <1>2, <2>1
  <2>2. CASE q # p \/ u # w
    BY <1>5, <1>9, <2>2 DEF Mapped, SpaceInv, SharingInv
  <2> QED
    BY <2>1, <2>2
<1>10. ASSUME NEW q \in Procs, NEW u \in Mapped(q)', ~Own(q, u)'
       PROVE  pt'[q][u] = IF u = Screen THEN Device ELSE shm_pages[q][u - 3]
  <2>1. CASE q = p /\ u = w
    BY <1>1, <1>5, <2>1 DEF f
  <2>2. CASE q # p \/ u # w
    <3>1. u \in Pages /\ pt'[q][u] = pt[q][u] /\ u \in Mapped(q)
      BY <1>5, <2>2 DEF Mapped
    <3>2. ~Own(q, u)
      BY <1>4, <1>10, <2>2 DEF Own
    <3> QED
      BY <3>1, <3>2 DEF SpaceInv, SharingInv
  <2> QED
    BY <2>1, <2>2
<1>11. SharingInv'
  BY <1>4, <1>8, <1>9, <1>10 DEF SharingInv
<1> QED
  BY <1>6, <1>7, <1>11 DEF SpaceInv

LEMMA FaultStep ==
  ASSUME AddressSpaceAssumption, SpaceInv, NEW p \in live, Stack \notin Mapped(p), Enough(1),
         MapFresh(p, Stack), UNCHANGED <<live, shm_pages, memory, inherited>>
  PROVE  SpaceInv'
<1>1. p \in Procs /\ Stack \in Pages /\ used \in Int /\ used + 1 \in Frames
  BY DEF SpaceInv, MemoryType, Enough, Frames, Pages, Stack, AddressSpaceAssumption
<1>2. /\ pt' \in [Procs -> [Pages -> {Unmapped, Device} \cup Frames]]
      /\ pt'[p][Stack] = used + 1
      /\ \A q \in Procs, u \in Pages : (q # p \/ u # Stack) => pt'[q][u] = pt[q][u]
      /\ used' = used + 1
  BY <1>1 DEF SpaceInv, MemoryType, MapFresh
<1>3. \A q \in Procs, v \in Pages : pt[q][v] \in Int /\ pt[q][v] <= used /\ pt[q][v] # used + 1
  BY <1>1, PageFacts
<1>4. \A q \in Procs : \A i \in DOMAIN shm_pages[q] :
        shm_pages[q][i] \in Int /\ shm_pages[q][i] <= used /\ shm_pages[q][i] # used + 1
  BY <1>1 DEF SpaceInv, MemoryType, UnusedInv, Frames
<1>5. MemoryType'
  BY <1>1, <1>2 DEF SpaceInv, MemoryType
<1>6. UnusedInv'
  <2>1. \A q \in Procs, v \in Pages : pt'[q][v] <= used + 1
    BY <1>1, <1>2, <1>3
  <2>2. \A q \in Procs : \A i \in DOMAIN shm_pages[q] : shm_pages[q][i] <= used + 1
    BY <1>1, <1>4
  <2>3. \A f \in Frames : f > used + 1 => memory[f] = 0
    BY <1>1 DEF SpaceInv, UnusedInv, Frames, AddressSpaceAssumption
  <2>4. \A q \in Procs \ live, v \in Pages : pt'[q][v] = Unmapped
    BY <1>2 DEF SpaceInv, UnusedInv
  <2> QED
    BY <1>2, <2>1, <2>2, <2>3, <2>4 DEF UnusedInv
<1>7. ASSUME NEW q \in Procs, NEW u \in Mapped(q)', Own(q, u)' PROVE Exclusive(q, u)'
  <2>1. u \in Pages
    BY DEF Mapped
  <2>2. CASE q = p /\ u = Stack
    <3>1. used + 1 # Device
      BY <1>1 DEF Frames, Device, AddressSpaceAssumption
    <3> QED
      BY <1>2, <1>3, <1>4, <2>2, <3>1 DEF Exclusive
  <2>3. CASE q # p \/ u # Stack
    <3>1. pt'[q][u] = pt[q][u] /\ u \in Mapped(q) /\ Own(q, u)
      BY <1>2, <1>7, <2>1, <2>3 DEF Mapped, Own
    <3>2. Exclusive(q, u)
      BY <3>1 DEF SpaceInv, SharingInv
    <3> QED
      BY <1>2, <1>3, <2>1, <3>1, <3>2 DEF Exclusive
  <2> QED
    BY <2>2, <2>3
<1>8. \A q \in Procs : \A u \in Mapped(q)' : u # Stack => u \in Mapped(q) /\ pt'[q][u] = pt[q][u]
  BY <1>2 DEF Mapped
<1>9. SharingInv'
  BY <1>7, <1>8 DEF SpaceInv, SharingInv, Own
<1> QED
  BY <1>5, <1>6, <1>9 DEF SpaceInv

\* Process p gets tables T of which every frame is new, but for the screen's,
\* and the array shm_pages of r.
Renewed(p, r, n, T) ==
  /\ pt' = [pt EXCEPT ![p] = T]
  /\ shm_pages' = [shm_pages EXCEPT ![p] = shm_pages[r]]
  /\ used' = used + n /\ used + n \in Frames
  /\ \A q \in Procs, v \in Pages : q # p => (<<q, v>> \in inherited' <=> <<q, v>> \in inherited)
  /\ \A v \in Pages : \/ T[v] = Unmapped
                      \/ T[v] = Device /\ v = Screen /\ <<p, v>> \notin inherited'
                      \/ /\ T[v] \in used + 1 .. used + n
                         /\ v \in {Text, Stack} \/ <<p, v>> \in inherited'
  /\ \A u, v \in Pages : T[u] > used /\ T[u] = T[v] => u = v
  /\ \A v \in Pages : T[v] # Unmapped /\ v \notin {Screen, Text, Stack} => v - 3 \in DOMAIN shm_pages[r]

LEMMA NewTable ==
  ASSUME AddressSpaceAssumption, SpaceInv, NEW p \in Procs, NEW r \in Procs, NEW n \in Nat,
         NEW T \in [Pages -> {Unmapped, Device} \cup Frames], Renewed(p, r, n, T)
  PROVE  /\ pt' \in [Procs -> [Pages -> {Unmapped, Device} \cup Frames]]
         /\ shm_pages' \in [Procs -> Seq(Frames)]
         /\ \A q \in Procs, v \in Pages : pt'[q][v] <= used'
         /\ \A q \in Procs : \A i \in DOMAIN shm_pages'[q] : shm_pages'[q][i] <= used'
         /\ SharingInv'
<1> USE DEF Renewed
<1>1. used \in Int /\ used \in Frames /\ used >= 1
  BY DEF SpaceInv, MemoryType, Frames, AddressSpaceAssumption
<1>2. /\ pt' \in [Procs -> [Pages -> {Unmapped, Device} \cup Frames]]
      /\ pt'[p] = T
      /\ \A q \in Procs : q # p => pt'[q] = pt[q]
  BY DEF SpaceInv, MemoryType
<1>3. /\ shm_pages' \in [Procs -> Seq(Frames)]
      /\ shm_pages'[p] = shm_pages[r]
      /\ \A q \in Procs : q # p => shm_pages'[q] = shm_pages[q]
  BY DEF SpaceInv, MemoryType
<1>4. \A q \in Procs, v \in Pages : pt[q][v] \in Int /\ pt[q][v] <= used
  BY PageFacts
<1>5. \A q \in Procs : \A i \in DOMAIN shm_pages[q] : shm_pages[q][i] \in Int /\ shm_pages[q][i] <= used
  BY DEF SpaceInv, MemoryType, UnusedInv, Frames
<1>6. \A q \in Procs : \A i \in DOMAIN shm_pages'[q] : shm_pages'[q][i] \in Int /\ shm_pages'[q][i] <= used
  BY <1>3, <1>5
<1>7. ASSUME NEW v \in Pages PROVE T[v] \in Int /\ T[v] <= used + n
  <2>1. T[v] = Unmapped \/ T[v] = Device \/ T[v] \in used + 1 .. used + n
    BY Zenon
  <2> QED
    BY <1>1, <2>1 DEF Unmapped, Device
<1>8. \A q \in Procs, v \in Pages : pt'[q][v] <= used'
  BY <1>1, <1>2, <1>4, <1>7
<1>9. \A q \in Procs : \A i \in DOMAIN shm_pages'[q] : shm_pages'[q][i] <= used'
  BY <1>1, <1>6
<1>10. \A v \in Mapped(p)' : Own(p, v)' => T[v] > used
  BY <1>1, <1>2 DEF Mapped, Own, Screen, Text, Stack
<1>11. ASSUME NEW q \in Procs, NEW v \in Mapped(q)', Own(q, v)' PROVE Exclusive(q, v)'
  <2>1. v \in Pages
    BY DEF Mapped
  <2>2. CASE q = p
    <3>1. T[v] > used /\ T[v] # Device /\ pt'[q][v] = T[v]
      BY <1>1, <1>2, <1>7, <1>10, <1>11, <2>1, <2>2 DEF Device
    <3>2. \A q2 \in Procs, u \in Pages : pt'[q2][u] = T[v] => q2 = p /\ u = v
      BY <1>1, <1>2, <1>4, <1>7, <2>1, <3>1
    <3>3. \A q2 \in Procs : \A i \in DOMAIN shm_pages'[q2] : shm_pages'[q2][i] # T[v]
      BY <1>1, <1>6, <1>7, <2>1, <3>1
    <3> QED
      BY <2>2, <3>1, <3>2, <3>3 DEF Exclusive
  <2>3. CASE q # p
    <3>1. pt'[q] = pt[q] /\ v \in Mapped(q) /\ Own(q, v)
      BY <1>2, <1>11, <2>1, <2>3 DEF Mapped, Own
    <3>2. Exclusive(q, v)
      BY <3>1 DEF SpaceInv, SharingInv
    <3>3. pt[q][v] <= used /\ pt[q][v] \in Int /\ pt[q][v] # Unmapped /\ pt[q][v] # Device
      BY <1>4, <2>1, <3>1, <3>2 DEF Mapped, Exclusive
    <3>4. ASSUME NEW u \in Pages PROVE T[u] # pt[q][v]
      <4>1. T[u] = Unmapped \/ T[u] = Device \/ T[u] \in used + 1 .. used + n
        BY Zenon
      <4> QED
        BY <1>1, <3>3, <4>1
    <3>5. \A q2 \in Procs, u \in Pages : pt'[q2][u] = pt[q][v] => q2 = q /\ u = v
      BY <1>2, <3>2, <3>4 DEF Exclusive
    <3>6. \A q2 \in Procs : \A i \in DOMAIN shm_pages'[q2] : shm_pages'[q2][i] # pt[q][v]
      BY <1>3, <3>2 DEF Exclusive
    <3> QED
      BY <3>1, <3>2, <3>5, <3>6 DEF Exclusive
  <2> QED
    BY <2>2, <2>3
<1>12. ASSUME NEW q \in Procs, NEW v \in Mapped(q)', v \notin {Screen, Text, Stack}
       PROVE  v - 3 \in DOMAIN shm_pages'[q]
  <2>1. v \in Pages
    BY DEF Mapped
  <2>2. CASE q = p
    BY <1>2, <1>3, <1>12, <2>1, <2>2 DEF Mapped
  <2>3. CASE q # p
    BY <1>2, <1>3, <1>12, <2>1, <2>3 DEF Mapped, SpaceInv, SharingInv
  <2> QED
    BY <2>2, <2>3
<1>13. ASSUME NEW q \in Procs, NEW v \in Mapped(q)', ~Own(q, v)'
       PROVE  pt'[q][v] = IF v = Screen THEN Device ELSE shm_pages'[q][v - 3]
  <2>1. v \in Pages
    BY DEF Mapped
  <2>2. CASE q = p
    BY <1>2, <1>13, <2>1, <2>2 DEF Mapped, Own
  <2>3. CASE q # p
    <3>1. pt'[q] = pt[q] /\ shm_pages'[q] = shm_pages[q] /\ v \in Mapped(q) /\ ~Own(q, v)
      BY <1>2, <1>3, <1>13, <2>1, <2>3 DEF Mapped, Own
    <3> QED
      BY <3>1 DEF SpaceInv, SharingInv
  <2> QED
    BY <2>2, <2>3
<1>14. SharingInv'
  BY <1>11, <1>12, <1>13 DEF SharingInv
<1> QED
  BY <1>2, <1>3, <1>8, <1>9, <1>14

LEMMA ExecStep ==
  ASSUME AddressSpaceAssumption, SpaceInv, NEW p \in live, NEW x \in Values, NEW n \in {1, 2},
         NEW stack, stack = IF n = 2 THEN used + 2 ELSE Unmapped, Enough(n),
         pt' = [pt EXCEPT ![p] = [Fresh(used + 1) EXCEPT ![Stack] = stack]],
         memory' = [memory EXCEPT ![used + 1] = x],
         used' = used + n,
         inherited' = {e \in inherited : e[1] # p},
         UNCHANGED <<live, shm_pages>>
  PROVE  SpaceInv'
<1> DEFINE T == [Fresh(used + 1) EXCEPT ![Stack] = stack]
<1>1. p \in Procs /\ used \in Int /\ used \in Frames /\ used + 1 \in Frames /\ used + n \in Frames
  BY DEF SpaceInv, MemoryType, Enough, Frames, AddressSpaceAssumption
<1>0. \/ n = 1 /\ stack = Unmapped
      \/ n = 2 /\ stack = used + 2 /\ stack \in Frames
  BY <1>1, Zenon
<1>2. /\ T \in [Pages -> {Unmapped, Device} \cup Frames]
      /\ T[Screen] = Device /\ T[Text] = used + 1 /\ T[Stack] = stack
      /\ \A v \in Pages \ {Screen, Text, Stack} : T[v] = Unmapped
  <2>1. stack \in {Unmapped, Device} \cup Frames
    BY <1>0
  <2>2. {Screen, Text, Stack} \subseteq Pages /\ Screen # Text /\ Screen # Stack /\ Text # Stack
    BY DEF Pages, Screen, Text, Stack, AddressSpaceAssumption
  <2> QED
    BY <1>1, <2>1, <2>2 DEF Fresh, NoPages
<1>3. \A v \in Pages : <<p, v>> \notin inherited'
  OBVIOUS
<1>4. \A q \in Procs, v \in Pages : q # p => (<<q, v>> \in inherited' <=> <<q, v>> \in inherited)
  OBVIOUS
<1> HIDE DEF T
<1>5. \A v \in Pages : \/ T[v] = Unmapped
                       \/ T[v] = Device /\ v = Screen /\ <<p, v>> \notin inherited'
                       \/ /\ T[v] \in used + 1 .. used + n
                          /\ v \in {Text, Stack} \/ <<p, v>> \in inherited'
  <2>1. used + 1 \in used + 1 .. used + n
    BY <1>1
  <2>2. stack = Unmapped \/ stack \in used + 1 .. used + n
    <3>1. used + 2 \in used + 1 .. used + 2
      BY <1>1
    <3> QED
      BY <1>0, <3>1
  <2> QED
    BY <1>2, <1>3, <2>1, <2>2
<1>6. \A u, v \in Pages : T[u] > used /\ T[u] = T[v] => u = v
  <2>1. ~(Device > used) /\ ~(Unmapped > used) /\ used + 1 # stack
    BY <1>1 DEF Device, Unmapped, Frames, AddressSpaceAssumption
  <2> QED
    BY <1>2, <2>1
<1>7. \A v \in Pages : T[v] # Unmapped /\ v \notin {Screen, Text, Stack} => v - 3 \in DOMAIN shm_pages[p]
  BY <1>2
<1>8. pt' = [pt EXCEPT ![p] = T] /\ shm_pages' = [shm_pages EXCEPT ![p] = shm_pages[p]]
  BY <1>1 DEF T, SpaceInv, MemoryType
<1>9. n \in Nat
  OBVIOUS
<1>10. /\ pt' \in [Procs -> [Pages -> {Unmapped, Device} \cup Frames]]
       /\ shm_pages' \in [Procs -> Seq(Frames)]
       /\ \A q \in Procs, v \in Pages : pt'[q][v] <= used'
       /\ \A q \in Procs : \A i \in DOMAIN shm_pages'[q] : shm_pages'[q][i] <= used'
       /\ SharingInv'
  <2>1. Renewed(p, p, n, T)
    BY <1>1, <1>4, <1>5, <1>6, <1>7, <1>8, Zenon DEF Renewed
  <2> QED
    BY <1>1, <1>2, <1>9, <2>1, NewTable
<1>11. MemoryType'
  BY <1>1, <1>10 DEF SpaceInv, MemoryType
<1>12. UnusedInv'
  <2>1. \A f \in Frames : f > used + n => memory'[f] = 0
    BY <1>1 DEF SpaceInv, MemoryType, UnusedInv, Frames, AddressSpaceAssumption
  <2>2. \A q \in Procs \ live, v \in Pages : pt'[q][v] = Unmapped
    BY <1>1, <1>8 DEF SpaceInv, MemoryType, UnusedInv
  <2> QED
    BY <1>10, <2>1, <2>2 DEF UnusedInv
<1> QED
  BY <1>10, <1>11, <1>12 DEF SpaceInv

\* Numbering the members of a finite set of numbers from below.
LEMMA RankFacts ==
  ASSUME NEW S \in SUBSET Int, IsFiniteSet(S)
  PROVE  /\ Cardinality(S) \in Nat
         /\ \A v \in S : Cardinality({u \in S : u <= v}) \in 1 .. Cardinality(S)
         /\ \A v, w \in S : Cardinality({u \in S : u <= v}) = Cardinality({u \in S : u <= w}) => v = w
<1> DEFINE Below(v) == {u \in S : u <= v}
<1>1. Cardinality(S) \in Nat
  BY FS_CardinalityType
<1>2. \A v \in S : /\ IsFiniteSet(Below(v))
                   /\ Cardinality(Below(v)) \in Nat
                   /\ Cardinality(Below(v)) <= Cardinality(S)
                   /\ v \in Below(v)
  BY FS_Subset, FS_CardinalityType
<1>3. \A v \in S : Cardinality(Below(v)) # 0
  BY <1>2, FS_EmptySet
<1>4. ASSUME NEW v \in S, NEW w \in S, v < w PROVE Cardinality(Below(v)) # Cardinality(Below(w))
  <2>1. Below(v) \subseteq Below(w) /\ w \notin Below(v) /\ w \in Below(w)
    <3>1. v \in Int /\ w \in Int /\ \A u \in S : u \in Int
      OBVIOUS
    <3>2. (\A u \in S : u <= v => u <= w) /\ ~(w <= v) /\ w <= w
      BY <1>4, <3>1
    <3> QED
      BY <3>2, Zenon
  <2>2. IsFiniteSet(Below(w))
    BY <1>2
  <2> HIDE DEF Below
  <2> QED
    BY <2>1, <2>2, FS_Subset
<1>5. \A v, w \in S : v < w \/ w < v \/ v = w
  OBVIOUS
<1>6. \A v, w \in S : Cardinality(Below(v)) = Cardinality(Below(w)) => v = w
  BY <1>4, <1>5
<1>7. \A v \in S : Cardinality(Below(v)) \in 1 .. Cardinality(S)
  BY <1>1, <1>2, <1>3
<1> QED
  BY <1>1, <1>6, <1>7

\* clone_address_space gives every page a frame of its own, in the frames
\* above those handed out, and the copy is of that page.
LEMMA CloneFacts ==
  ASSUME AddressSpaceAssumption, SpaceInv, NEW p \in Procs
  PROVE  LET T == clone_address_space(p)
             n == Cardinality(Mapped(p))
         IN  /\ n \in Nat
             /\ \A v \in Mapped(p) : T[v] \in used + 1 .. used + n
             /\ \A v \in Pages \ Mapped(p) : T[v] = Unmapped
             /\ \A v, w \in Pages : T[v] > used /\ T[v] = T[w] => v = w
             /\ \A v \in Mapped(p) : CopyOf(p, T[v]) = IF v = Screen THEN 0 ELSE memory[pt[p][v]]
<1> DEFINE T == clone_address_space(p)
           n == Cardinality(Mapped(p))
           rank(v) == Cardinality({u \in Mapped(p) : u <= v})
<1>1. Mapped(p) \in SUBSET Int /\ Mapped(p) \subseteq Pages /\ IsFiniteSet(Mapped(p))
  <2>1. IsFiniteSet(Pages) /\ Pages \subseteq Int
    BY FS_Interval DEF Pages, AddressSpaceAssumption
  <2> QED
    BY <2>1, FS_Subset, Zenon DEF Mapped
<1>2. /\ n \in Nat
      /\ \A v \in Mapped(p) : rank(v) \in 1 .. n
      /\ \A v, w \in Mapped(p) : rank(v) = rank(w) => v = w
  BY <1>1, RankFacts
<1>3. used \in Int /\ used >= 1
  BY DEF SpaceInv, MemoryType, Frames, AddressSpaceAssumption
<1>4. \A v \in Pages : T[v] = IF v \in Mapped(p) THEN used + rank(v) ELSE Unmapped
  BY DEF clone_address_space
<1> HIDE DEF T, n, rank
<1>5. \A v \in Mapped(p) : T[v] \in used + 1 .. used + n
  BY <1>1, <1>2, <1>3, <1>4
<1>6. \A v \in Pages \ Mapped(p) : T[v] = Unmapped
  BY <1>4
<1>7. ~(Unmapped > used)
  BY <1>3 DEF Unmapped
<1>8. ASSUME NEW v \in Pages, NEW w \in Pages, T[v] > used, T[v] = T[w] PROVE v = w
  <2>1. v \in Mapped(p) /\ w \in Mapped(p)
    BY <1>6, <1>7, <1>8
  <2>2. used + rank(v) = used + rank(w) /\ rank(v) \in Int /\ rank(w) \in Int
    BY <1>1, <1>2, <1>4, <1>8, <2>1
  <2>3. rank(v) = rank(w)
    BY <1>3, <2>2
  <2> QED
    BY <1>2, <2>1, <2>3
<1>9. ASSUME NEW v \in Mapped(p)
      PROVE  CopyOf(p, T[v]) = IF v = Screen THEN 0 ELSE memory[pt[p][v]]
  <2>1. T[v] > used
    BY <1>2, <1>3, <1>5
  <2>2. \A u \in Pages : T[u] = T[v] <=> u = v
    BY <1>1, <1>8, <2>1
  <2> DEFINE w == CHOOSE u \in Pages : T[u] = T[v]
  <2>3. w = v
    BY <1>1, <2>2
  <2>4. CopyOf(p, T[v]) = IF w = Screen THEN 0 ELSE memory[pt[p][w]]
    BY DEF CopyOf, T
  <2> HIDE DEF w
  <2> QED
    BY <2>3, <2>4
<1> QED
  BY <1>2, <1>5, <1>6, <1>8, <1>9 DEF T, n

\* A page a program can touch is in memory.
LEMMA UserFrame ==
  ASSUME AddressSpaceAssumption, SpaceInv, NEW p \in Procs, NEW v \in Mapped(p), v # Screen
  PROVE  pt[p][v] \in Frames
<1>1. v \in Pages /\ pt[p][v] # Unmapped /\ pt[p][v] \in {Unmapped, Device} \cup Frames
  BY PageFacts DEF Mapped
<1>2. CASE Own(p, v)
  BY <1>1, <1>2 DEF SpaceInv, SharingInv, Exclusive
<1>3. CASE ~Own(p, v)
  <2>1. v \notin {Screen, Text, Stack}
    BY <1>3 DEF Own
  <2>2. v - 3 \in DOMAIN shm_pages[p] /\ pt[p][v] = shm_pages[p][v - 3]
    BY <1>3, <2>1 DEF SpaceInv, SharingInv
  <2>3. shm_pages[p] \in Seq(Frames)
    BY DEF SpaceInv, MemoryType
  <2> QED
    BY <2>2, <2>3
<1> QED
  BY <1>2, <1>3

\* The memory after a fork: the copies, and everything else as it was.
LEMMA ForkMemory ==
  ASSUME AddressSpaceAssumption, SpaceInv, NEW p \in Procs, Enough(Cardinality(Mapped(p))),
         memory' = [f \in Frames |->
           IF \E u \in Mapped(p) : clone_address_space(p)[u] = f THEN CopyOf(p, f) ELSE memory[f]]
  PROVE  /\ memory' \in [Frames -> Values]
         /\ \A f \in Frames : f <= used => memory'[f] = memory[f]
         /\ \A f \in Frames : f > used + Cardinality(Mapped(p)) => memory'[f] = memory[f]
         /\ \A v \in Mapped(p) : v # Screen => memory'[clone_address_space(p)[v]] = memory[pt[p][v]]
<1> DEFINE T == clone_address_space(p)
           n == Cardinality(Mapped(p))
<1>1. /\ n \in Nat
      /\ \A v \in Mapped(p) : T[v] \in used + 1 .. used + n
      /\ \A v \in Mapped(p) : CopyOf(p, T[v]) = IF v = Screen THEN 0 ELSE memory[pt[p][v]]
  BY CloneFacts
<1>2. used \in Int /\ used >= 1 /\ memory \in [Frames -> Values] /\ 0 \in Values
  BY DEF SpaceInv, MemoryType, Frames, AddressSpaceAssumption
<1>3. \A f \in Frames : f \in Int
  BY DEF Frames, AddressSpaceAssumption
<1>4. \A f \in Frames : memory'[f] = IF \E u \in Mapped(p) : T[u] = f THEN CopyOf(p, f) ELSE memory[f]
  OBVIOUS
<1>5. used + n <= NFrames
  BY DEF Enough
<1>6. \A v \in Mapped(p) : T[v] \in Frames
  BY <1>1, <1>2, <1>5 DEF Frames, AddressSpaceAssumption
<1>7. \A v \in Mapped(p) : v # Screen => memory[pt[p][v]] \in Values
  BY <1>2, UserFrame
<1> HIDE DEF T, n
<1>8. \A f \in Frames : (\E u \in Mapped(p) : T[u] = f) => CopyOf(p, f) \in Values
  BY <1>1, <1>2, <1>7
<1>9. memory' \in [Frames -> Values]
  BY <1>2, <1>8 DEF T
<1>10. \A f \in Frames : (\E u \in Mapped(p) : T[u] = f) => f > used /\ f <= used + n
  BY <1>1, <1>2
<1>11. \A f \in Frames : f <= used \/ f > used + n => memory'[f] = memory[f]
  BY <1>1, <1>2, <1>3, <1>4, <1>10
<1>12. \A v \in Mapped(p) : v # Screen => memory'[T[v]] = memory[pt[p][v]]
  BY <1>1, <1>4, <1>6
<1> QED
  BY <1>9, <1>11, <1>12 DEF T, n

LEMMA ForkStep ==
  ASSUME AddressSpaceAssumption, SpaceInv, NEW p \in live, NEW c \in Procs, c \notin live,
         Enough(Cardinality(Mapped(p))),
         live' = live \cup {c},
         pt' = [pt EXCEPT ![c] = clone_address_space(p)],
         shm_pages' = [shm_pages EXCEPT ![c] = shm_pages[p]],
         memory' = [f \in Frames |->
           IF \E u \in Mapped(p) : clone_address_space(p)[u] = f THEN CopyOf(p, f) ELSE memory[f]],
         used' = used + Cardinality(Mapped(p)),
         inherited' = inherited \cup {<<c, v>> : v \in Mapped(p)}
  PROVE  SpaceInv'
<1> DEFINE T == clone_address_space(p)
           n == Cardinality(Mapped(p))
<1>1. p \in Procs /\ used \in Int /\ used >= 1
  BY DEF SpaceInv, MemoryType, Frames, AddressSpaceAssumption
<1>2. /\ n \in Nat
      /\ \A v \in Mapped(p) : T[v] \in used + 1 .. used + n
      /\ \A v \in Pages \ Mapped(p) : T[v] = Unmapped
      /\ \A v, w \in Pages : T[v] > used /\ T[v] = T[w] => v = w
  BY <1>1, CloneFacts
<1>3. used + n <= NFrames /\ used + n \in Frames
  BY <1>1, <1>2 DEF Enough, Frames, AddressSpaceAssumption
<1>4. \A v \in Mapped(p) : T[v] \in Frames
  BY <1>1, <1>2, <1>3 DEF Frames, AddressSpaceAssumption
<1>5. T \in [Pages -> {Unmapped, Device} \cup Frames]
  <2>1. T = [v \in Pages |-> T[v]]
    BY DEF clone_address_space
  <2> HIDE DEF T
  <2> QED
    BY <1>2, <1>4, <2>1
<1>6. Renewed(c, p, n, T)
  <2>1. \A v \in Mapped(p) : <<c, v>> \in inherited'
    OBVIOUS
  <2>2. \A q \in Procs, v \in Pages : q # c => (<<q, v>> \in inherited' <=> <<q, v>> \in inherited)
    OBVIOUS
  <2>3. \A v \in Pages \ {Screen, Text, Stack} : v \in Mapped(p) => v - 3 \in DOMAIN shm_pages[p]
    BY <1>1 DEF SpaceInv, SharingInv
  <2> HIDE DEF T
  <2>4. \A v \in Pages : \/ T[v] = Unmapped
                         \/ T[v] \in used + 1 .. used + n /\ <<c, v>> \in inherited'
    BY <1>2, <2>1
  <2>5. \A v \in Pages : T[v] # Unmapped => v \in Mapped(p)
    BY <1>2
  <2>6. pt' = [pt EXCEPT ![c] = T] /\ used' = used + n
    BY DEF T
  <2> QED
    BY <1>2, <1>3, <2>2, <2>3, <2>4, <2>5, <2>6, Zenon DEF Renewed
<1>7. /\ pt' \in [Procs -> [Pages -> {Unmapped, Device} \cup Frames]]
      /\ shm_pages' \in [Procs -> Seq(Frames)]
      /\ \A q \in Procs, v \in Pages : pt'[q][v] <= used'
      /\ \A q \in Procs : \A i \in DOMAIN shm_pages'[q] : shm_pages'[q][i] <= used'
      /\ SharingInv'
  BY <1>1, <1>2, <1>5, <1>6, NewTable
<1>8. /\ memory' \in [Frames -> Values]
      /\ \A f \in Frames : f > used + n => memory'[f] = memory[f]
  BY <1>1, ForkMemory
<1>9. MemoryType'
  BY <1>3, <1>7, <1>8 DEF SpaceInv, MemoryType
<1>10. UnusedInv'
  <2>1. \A f \in Frames : f > used' => memory'[f] = 0
    BY <1>1, <1>2, <1>8 DEF SpaceInv, UnusedInv, Frames, AddressSpaceAssumption
  <2>2. \A q \in Procs \ live', v \in Pages : pt'[q][v] = Unmapped
    BY DEF SpaceInv, MemoryType, UnusedInv
  <2> QED
    BY <1>7, <2>1, <2>2 DEF UnusedInv
<1> QED
  BY <1>7, <1>9, <1>10 DEF SpaceInv
-----------------------------------------------------------------------------
LEMMA SpaceNext ==
  ASSUME AddressSpaceAssumption, SpaceInv, [Next]_vars
  PROVE  SpaceInv'
<1>1. ASSUME NEW p \in live, NEW v \in Pages, NEW x \in Values, Store(p, v, x) PROVE SpaceInv'
  BY <1>1, StoreStep DEF SpaceInv, MemoryType
<1>2. ASSUME panic PROVE SpaceInv'
  BY <1>2, IdleStep DEF panic
<1>3. ASSUME NEW p \in live, NEW v \in Pages, handle_page_fault(p, v) PROVE SpaceInv'
  BY <1>2, <1>3, FaultStep DEF handle_page_fault, OutOfMemory
<1>4. ASSUME NEW p \in live, NEW x \in Values, NEW path \in Pages, sys_execve(p, x, path) PROVE SpaceInv'
  <2> DEFINE n == IF path = Stack THEN 2 ELSE 1
             stack == IF n = 2 THEN used + 2 ELSE Unmapped
  <2>1. CASE Enough(n) /\ path \in {Text, Stack}
    <3>1. n \in {1, 2} /\ stack = (IF path = Stack THEN used + 2 ELSE Unmapped)
      OBVIOUS
    <3>2. /\ pt' = [pt EXCEPT ![p] = [Fresh(used + 1) EXCEPT ![Stack] = stack]]
          /\ memory' = [memory EXCEPT ![used + 1] = x]
          /\ used' = used + n
          /\ inherited' = {e \in inherited : e[1] # p}
          /\ UNCHANGED <<live, shm_pages>>
      BY <1>4, <2>1, <3>1 DEF sys_execve, OutOfMemory
    <3> QED
      BY <2>1, <3>1, <3>2, ExecStep, Zenon
  <2>2. CASE ~(Enough(n) /\ path \in {Text, Stack})
    BY <1>2, <1>4, <2>2 DEF sys_execve, OutOfMemory
  <2> QED
    BY <2>1, <2>2
<1>5. ASSUME NEW p \in live, NEW c \in Procs, sys_fork(p, c) PROVE SpaceInv'
  BY <1>2, <1>5, ForkStep DEF sys_fork, OutOfMemory
<1>6. ASSUME NEW p \in live, sys_shmget(p) PROVE SpaceInv'
  <2>1. p \in Procs
    BY DEF SpaceInv, MemoryType
  <2>2. CASE Enough(1)
    BY <1>6, <2>1, <2>2, ShmgetStep
  <2>3. CASE ~Enough(1)
    BY <1>2, <1>6, <2>3 DEF sys_shmget, OutOfMemory
  <2> QED
    BY <2>2, <2>3
<1>7. ASSUME NEW p \in live, NEW i \in 1 .. MAX_SHM_REGIONS, sys_shmat(p, i) PROVE SpaceInv'
  BY <1>7, ShmatStep
<1>8. CASE UNCHANGED vars
  BY <1>8, IdleStep DEF vars
<1> QED
  BY <1>1, <1>3, <1>4, <1>5, <1>6, <1>7, <1>8 DEF Next

\* Frames are handed out once and cleared, and every page that is not the
\* screen or a page mapped with sys_shmat has a frame nobody else reaches.
THEOREM SpaceInvariance == Spec => []SpaceInv
<1>1. Init => SpaceInv
  BY AddressSpaceAssumption, SpaceInit
<1>2. SpaceInv /\ [Next]_vars => SpaceInv'
  BY AddressSpaceAssumption, SpaceNext
<1> QED
  BY <1>1, <1>2, PTL DEF Spec

LEMMA SpaceImpliesUnshared ==
  ASSUME AddressSpaceAssumption, SpaceInv
  PROVE  ForkUnshares
<1> SUFFICES ASSUME NEW p \in live, NEW v \in Mapped(p) \ {Text, Stack}
             PROVE  LET shared == IF v = Screen THEN Device ELSE shm_pages[p][v - 3] IN
                      IF <<p, v>> \in inherited
                      THEN /\ pt[p][v] # shared
                           /\ \A q \in live, u \in Pages : pt[q][u] = pt[p][v] => <<q, u>> = <<p, v>>
                      ELSE pt[p][v] = shared
  BY Zenon DEF ForkUnshares
<1>1. live \subseteq Procs /\ p \in Procs
  BY DEF SpaceInv, MemoryType
<1>2. CASE <<p, v>> \in inherited
  <2>1. Exclusive(p, v)
    BY <1>1, <1>2 DEF SpaceInv, SharingInv, Own
  <2>2. v # Screen => v - 3 \in DOMAIN shm_pages[p]
    BY <1>1 DEF SpaceInv, SharingInv
  <2> QED
    BY <1>1, <1>2, <2>1, <2>2 DEF Exclusive
<1>3. CASE <<p, v>> \notin inherited
  BY <1>1, <1>3 DEF SpaceInv, SharingInv, Own
<1> QED
  BY <1>2, <1>3

\* A page from a fork is a copy only its process reaches, the screen and the
\* shared pages included, until the process maps it itself: for any number of
\* processes and generations of forks.
THEOREM ForkUnsharesCorrect == Spec => []ForkUnshares
<1>1. SpaceInv => ForkUnshares
  BY AddressSpaceAssumption, SpaceImpliesUnshared
<1> QED
  BY <1>1, SpaceInvariance, PTL
-----------------------------------------------------------------------------
(***************************************************************************)
(* ProcessMemory.  First what a step does to the text and the stack of     *)
(* every process; then the step of ProcessMemory that this is.             *)
(***************************************************************************)
Areas == {Text, Stack}

LEMMA AreaFacts ==
  ASSUME AddressSpaceAssumption, SpaceInv, NEW p \in Procs, NEW v \in Areas
  PROVE  /\ v \in Pages /\ v # Screen
         /\ v \in Mapped(p) => /\ pt[p][v] \in Frames /\ pt[p][v] <= used
                               /\ Exclusive(p, v)
                               /\ Area(p, v) = memory[pt[p][v]]
                               /\ Area(p, v) \in Values /\ Area(p, v) # Unmapped
         /\ v \notin Mapped(p) => pt[p][v] = Unmapped /\ Area(p, v) = Unmapped
<1>1. v \in Pages /\ v # Screen
  BY DEF Areas, Pages, Screen, Text, Stack, AddressSpaceAssumption
<1>2. v \notin Mapped(p) => pt[p][v] = Unmapped /\ Area(p, v) = Unmapped
  BY <1>1 DEF Mapped, Area
<1>3. ASSUME v \in Mapped(p)
      PROVE  /\ pt[p][v] \in Frames /\ pt[p][v] <= used
             /\ Exclusive(p, v)
             /\ Area(p, v) = memory[pt[p][v]]
             /\ Area(p, v) \in Values /\ Area(p, v) # Unmapped
  <2>1. pt[p][v] \in Frames /\ pt[p][v] <= used
    BY <1>1, <1>3, UserFrame, PageFacts
  <2>2. Exclusive(p, v)
    BY <1>3, Zenon DEF SpaceInv, SharingInv, Own, Areas
  <2>3. Area(p, v) = memory[pt[p][v]]
    BY <1>3 DEF Mapped, Area
  <2>4. memory[pt[p][v]] \in Values /\ Unmapped \notin Values
    BY <2>1 DEF SpaceInv, MemoryType, Unmapped, AddressSpaceAssumption
  <2> QED
    BY <2>1, <2>2, <2>3, <2>4
<1> QED
  BY <1>1, <1>2, <1>3

\* A process whose tables stay, and memory that stays where it is handed out.
LEMMA AreaKept ==
  ASSUME AddressSpaceAssumption, SpaceInv, NEW p \in Procs, NEW v \in Areas, pt'[p][v] = pt[p][v],
         \A f \in Frames : f <= used => memory'[f] = memory[f]
  PROVE  Area(p, v)' = Area(p, v)
<1>1. CASE v \in Mapped(p)
  BY <1>1, AreaFacts DEF Area, Mapped
<1>2. CASE v \notin Mapped(p)
  <2>1. pt[p][v] = Unmapped
    BY <1>2, AreaFacts
  <2> QED
    BY <2>1 DEF Area
<1> QED
  BY <1>1, <1>2

LEMMA StoreAreas ==
  ASSUME AddressSpaceAssumption, SpaceInv, NEW p \in Procs, NEW v \in Pages, NEW x \in Values,
         Store(p, v, x), NEW q \in Procs, NEW w \in Areas
  PROVE  Area(q, w)' = IF q = p /\ w = v THEN x ELSE Area(q, w)
<1>1. /\ memory' = [memory EXCEPT ![pt[p][v]] = x] /\ pt' = pt
      /\ v \in Mapped(p)
  BY DEF Store
<1>2. memory \in [Frames -> Values]
  BY DEF SpaceInv, MemoryType
<1>3. CASE w \notin Mapped(q)
  BY <1>1, <1>3, AreaFacts DEF Area
<1>4. CASE w \in Mapped(q)
  <2>1. pt[q][w] \in Frames /\ Exclusive(q, w) /\ Area(q, w) = memory[pt[q][w]] /\ pt[q][w] # Unmapped
    BY <1>4, AreaFacts DEF Mapped
  <2>2. Area(q, w)' = memory'[pt[q][w]]
    BY <1>1, <2>1 DEF Area
  <2>3. pt[p][v] = pt[q][w] <=> q = p /\ w = v
    BY <2>1 DEF Exclusive
  <2> QED
    BY <1>1, <1>2, <2>1, <2>2, <2>3
<1> QED
  BY <1>3, <1>4

LEMMA ForkAreas ==
  ASSUME AddressSpaceAssumption, SpaceInv, NEW p \in live, NEW c \in Procs, c \notin live,
         Enough(Cardinality(Mapped(p))),
         pt' = [pt EXCEPT ![c] = clone_address_space(p)],
         memory' = [f \in Frames |->
           IF \E u \in Mapped(p) : clone_address_space(p)[u] = f THEN CopyOf(p, f) ELSE memory[f]],
         NEW q \in Procs, NEW w \in Areas
  PROVE  Area(q, w)' = IF q = c THEN Area(p, w) ELSE Area(q, w)
<1>1. p \in Procs /\ pt \in [Procs -> [Pages -> {Unmapped, Device} \cup Frames]]
      /\ used \in Int /\ used >= 1
  BY DEF SpaceInv, MemoryType, Frames, AddressSpaceAssumption
<1>2. /\ \A f \in Frames : f <= used => memory'[f] = memory[f]
      /\ \A v \in Mapped(p) : v # Screen => memory'[clone_address_space(p)[v]] = memory[pt[p][v]]
  BY <1>1, ForkMemory
<1>3. CASE q # c
  <2>1. pt'[q][w] = pt[q][w]
    BY <1>1, <1>3
  <2> QED
    BY <1>2, <1>3, <2>1, AreaKept
<1>4. CASE q = c
  <2>1. pt'[c] = clone_address_space(p)
    BY <1>1
  <2>2. CASE w \in Mapped(p)
    <3>1. w # Screen /\ Area(p, w) = memory[pt[p][w]]
      BY <1>1, <2>2, AreaFacts
    <3>2. clone_address_space(p)[w] \in used + 1 .. used + Cardinality(Mapped(p)) /\ Cardinality(Mapped(p)) \in Nat
      BY <1>1, <2>2, CloneFacts
    <3>3. clone_address_space(p)[w] # Unmapped
      BY <1>1, <3>2 DEF Unmapped
    <3>4. memory'[clone_address_space(p)[w]] = memory[pt[p][w]]
      BY <1>2, <2>2, <3>1
    <3> QED
      BY <1>4, <2>1, <3>1, <3>3, <3>4 DEF Area
  <2>3. CASE w \notin Mapped(p)
    <3>1. w \in Pages /\ Area(p, w) = Unmapped
      BY <1>1, <2>3, AreaFacts
    <3>2. clone_address_space(p)[w] = Unmapped
      BY <1>1, <2>3, <3>1, CloneFacts
    <3> QED
      BY <1>4, <2>1, <3>1, <3>2 DEF Area
  <2> QED
    BY <2>2, <2>3
<1> QED
  BY <1>3, <1>4

LEMMA ExecAreas ==
  ASSUME AddressSpaceAssumption, SpaceInv, NEW p \in live, NEW x \in Values, NEW n \in {1, 2},
         NEW stack, stack = IF n = 2 THEN used + 2 ELSE Unmapped, Enough(n),
         pt' = [pt EXCEPT ![p] = [Fresh(used + 1) EXCEPT ![Stack] = stack]],
         memory' = [memory EXCEPT ![used + 1] = x]
  PROVE  /\ \A q \in Procs \ {p}, w \in Areas : Area(q, w)' = Area(q, w)
         /\ Area(p, Text)' = x
         /\ Area(p, Stack)' = IF n = 2 THEN 0 ELSE Unmapped
<1>1. p \in Procs /\ pt \in [Procs -> [Pages -> {Unmapped, Device} \cup Frames]]
      /\ memory \in [Frames -> Values]
  BY DEF SpaceInv, MemoryType
<1>2. /\ used \in Int /\ used >= 1 /\ used \in Frames /\ used + 1 \in Frames /\ used + n \in Frames
      /\ used + 1 # Unmapped
  BY DEF SpaceInv, MemoryType, Enough, Frames, Unmapped, AddressSpaceAssumption
<1>3. pt'[p][Text] = used + 1 /\ pt'[p][Stack] = stack
  <2>1. Text \in Pages /\ Stack \in Pages /\ Text # Stack
    BY DEF Pages, Text, Stack, AddressSpaceAssumption
  <2>2. pt'[p] = [Fresh(used + 1) EXCEPT ![Stack] = stack]
    BY <1>1
  <2> QED
    BY <2>1, <2>2 DEF Fresh, NoPages
<1>4. \A f \in Frames : f <= used => memory'[f] = memory[f]
  BY <1>1, <1>2 DEF Frames, AddressSpaceAssumption
<1>5. ASSUME NEW q \in Procs \ {p}, NEW w \in Areas PROVE Area(q, w)' = Area(q, w)
  <2>1. pt'[q][w] = pt[q][w]
    BY <1>1
  <2> QED
    BY <1>4, <2>1, AreaKept
<1>6. Area(p, Text)' = x
  BY <1>1, <1>2, <1>3 DEF Area
<1>7. Area(p, Stack)' = IF n = 2 THEN 0 ELSE Unmapped
  <2>1. CASE n = 1
    BY <1>3, <2>1 DEF Area
  <2>2. CASE n = 2
    <3>1. used + 2 \in Frames /\ used + 2 > used /\ used + 2 # used + 1 /\ used + 2 # Unmapped
      BY <1>2, <2>2 DEF Unmapped
    <3>2. memory[used + 2] = 0
      BY <3>1 DEF SpaceInv, UnusedInv
    <3>3. memory'[used + 2] = 0
      BY <1>1, <3>1, <3>2
    <3> QED
      BY <1>3, <2>2, <3>1, <3>3 DEF Area
  <2> QED
    BY <2>1, <2>2
<1> QED
  BY <1>5, <1>6, <1>7

\* The private memory of the refinement mapping.
Mem == [p \in Procs |-> [text |-> Area(p, Text), stack |-> Area(p, Stack)]]

LEMMA SameMem ==
  ASSUME \A q \in Procs, w \in Areas : Area(q, w)' = Area(q, w)
  PROVE  Mem' = Mem
BY DEF Mem, Areas

LEMMA TextMem ==
  ASSUME AddressSpaceAssumption, SpaceInv, NEW p \in Procs, NEW x,
         \A q \in Procs, w \in Areas : Area(q, w)' = IF q = p /\ w = Text THEN x ELSE Area(q, w)
  PROVE  Mem' = [Mem EXCEPT ![p]["text"] = x]
<1>1. \A q \in Procs : Mem'[q] = [text |-> IF q = p THEN x ELSE Area(q, Text), stack |-> Area(q, Stack)]
  BY DEF Mem, Areas, Text, Stack
<1>2. Mem[p] = [text |-> Area(p, Text), stack |-> Area(p, Stack)]
  BY DEF Mem
<1>3. [Mem[p] EXCEPT !["text"] = x] = [text |-> x, stack |-> Area(p, Stack)]
  BY <1>2
<1>4. \A q \in Procs : q # p => Mem'[q] = Mem[q]
  BY <1>1 DEF Mem
<1>5. Mem'[p] = [Mem[p] EXCEPT !["text"] = x]
  BY <1>1, <1>3
<1>6. Mem = [q \in Procs |-> Mem[q]] /\ Mem' = [q \in Procs |-> Mem'[q]]
  BY DEF Mem
<1> QED
  BY <1>4, <1>5, <1>6

LEMMA StackMem ==
  ASSUME AddressSpaceAssumption, SpaceInv, NEW p \in Procs, NEW x,
         \A q \in Procs, w \in Areas : Area(q, w)' = IF q = p /\ w = Stack THEN x ELSE Area(q, w)
  PROVE  Mem' = [Mem EXCEPT ![p]["stack"] = x]
<1>1. \A q \in Procs : Mem'[q] = [text |-> Area(q, Text), stack |-> IF q = p THEN x ELSE Area(q, Stack)]
  BY DEF Mem, Areas, Text, Stack
<1>2. Mem[p] = [text |-> Area(p, Text), stack |-> Area(p, Stack)]
  BY DEF Mem
<1>3. [Mem[p] EXCEPT !["stack"] = x] = [text |-> Area(p, Text), stack |-> x]
  BY <1>2
<1>4. \A q \in Procs : q # p => Mem'[q] = Mem[q]
  BY <1>1 DEF Mem
<1>5. Mem'[p] = [Mem[p] EXCEPT !["stack"] = x]
  BY <1>1, <1>3
<1>6. Mem = [q \in Procs |-> Mem[q]] /\ Mem' = [q \in Procs |-> Mem'[q]]
  BY DEF Mem
<1> QED
  BY <1>4, <1>5, <1>6

LEMMA WholeMem ==
  ASSUME AddressSpaceAssumption, SpaceInv, NEW p \in Procs, NEW r,
         \A q \in Procs \ {p}, w \in Areas : Area(q, w)' = Area(q, w),
         [text |-> Area(p, Text)', stack |-> Area(p, Stack)'] = r
  PROVE  Mem' = [Mem EXCEPT ![p] = r]
<1>1. Mem'[p] = r
  BY DEF Mem
<1>2. \A q \in Procs : q # p => Mem'[q] = Mem[q]
  BY DEF Mem, Areas
<1>3. Mem = [q \in Procs |-> Mem[q]] /\ Mem' = [q \in Procs |-> Mem'[q]]
  BY DEF Mem
<1> QED
  BY <1>1, <1>2, <1>3

LEMMA MemInit ==
  ASSUME AddressSpaceAssumption, Init
  PROVE  Private!Init
<1> USE DEF Screen, Text, Stack, Pages, Unmapped, Device, Frames
<1>1. PICK x \in Values : memory = [f \in Frames |-> IF f = 1 THEN x ELSE 0]
  BY DEF Init
<1>2. \A v \in Pages : Fresh(1)[v] = IF v = Screen THEN Device ELSE IF v = Text THEN 1 ELSE Unmapped
  BY DEF Fresh, NoPages, AddressSpaceAssumption
<1>3. memory[1] = x
  BY <1>1 DEF AddressSpaceAssumption
<1>4. Text \in Pages /\ Stack \in Pages
  BY DEF AddressSpaceAssumption
<1>5. \A p \in Procs : /\ Area(p, Text) = IF p = First THEN x ELSE Unmapped
                       /\ Area(p, Stack) = Unmapped
  BY <1>2, <1>3, <1>4 DEF Init, Area, NoPages
<1>6. Mem = [p \in Procs |-> IF p = First THEN [text |-> x, stack |-> Unmapped]
                             ELSE [text |-> Unmapped, stack |-> Unmapped]]
  BY <1>5 DEF Mem
<1> QED
  BY <1>6 DEF Init, Private!Init, Private!Nothing, Mem

LEMMA StoreMem ==
  ASSUME AddressSpaceAssumption, SpaceInv, NEW p \in live, NEW v \in Pages, NEW x \in Values,
         Store(p, v, x)
  PROVE  Private!Next \/ (UNCHANGED live /\ Mem' = Mem)
<1>1. p \in Procs /\ UNCHANGED live /\ v \in Mapped(p)
  BY DEF SpaceInv, MemoryType, Store
<1>2. \A q \in Procs, w \in Areas : Area(q, w)' = IF q = p /\ w = v THEN x ELSE Area(q, w)
  BY <1>1, StoreAreas
<1>3. CASE v = Text
  <2>1. Mem' = [Mem EXCEPT ![p]["text"] = x]
    BY <1>1, <1>2, <1>3, TextMem
  <2>2. Mem[p]["text"] # Unmapped
    BY <1>1, <1>3, AreaFacts DEF Mem, Areas
  <2>3. Private!Store(p, "text", x)
    BY <1>1, <2>1, <2>2 DEF Private!Store, Mem
  <2> QED
    BY <2>3 DEF Private!Next
<1>4. CASE v = Stack
  <2>1. Mem' = [Mem EXCEPT ![p]["stack"] = x]
    BY <1>1, <1>2, <1>4, StackMem
  <2>2. Mem[p]["stack"] # Unmapped
    BY <1>1, <1>4, AreaFacts DEF Mem, Areas
  <2>3. Private!Store(p, "stack", x)
    BY <1>1, <2>1, <2>2 DEF Private!Store, Mem
  <2> QED
    BY <2>3 DEF Private!Next
<1>5. CASE v \notin Areas
  BY <1>1, <1>2, <1>5, SameMem
<1> QED
  BY <1>3, <1>4, <1>5 DEF Areas

LEMMA FaultMem ==
  ASSUME AddressSpaceAssumption, SpaceInv, NEW p \in live, Stack \notin Mapped(p), Enough(1),
         MapFresh(p, Stack), UNCHANGED <<live, memory>>
  PROVE  Private!Next
<1>1. p \in Procs /\ pt \in [Procs -> [Pages -> {Unmapped, Device} \cup Frames]] /\ Stack \in Areas
      /\ used \in Int /\ used + 1 \in Frames /\ used + 1 # Unmapped /\ used + 1 > used
  BY DEF SpaceInv, MemoryType, Enough, Frames, Unmapped, Areas, AddressSpaceAssumption
<1>2. \A w \in Areas : w \in Pages
  BY <1>1, AreaFacts
<1>3. ASSUME NEW q \in Procs, NEW w \in Areas
      PROVE  Area(q, w)' = IF q = p /\ w = Stack THEN 0 ELSE Area(q, w)
  <2>1. CASE q = p /\ w = Stack
    <3>1. pt'[p][Stack] = used + 1
      BY <1>1, <1>2 DEF MapFresh
    <3>2. memory'[used + 1] = 0
      BY <1>1 DEF SpaceInv, UnusedInv
    <3> QED
      BY <1>1, <2>1, <3>1, <3>2 DEF Area
  <2>2. CASE ~(q = p /\ w = Stack)
    <3>1. pt'[q][w] = pt[q][w]
      BY <1>1, <1>2, <2>2 DEF MapFresh
    <3> QED
      BY <2>2, <3>1 DEF Area
  <2> QED
    BY <2>1, <2>2
<1>4. Mem' = [Mem EXCEPT ![p]["stack"] = 0]
  BY <1>1, <1>3, StackMem, Zenon
<1>5. Mem[p]["stack"] = Unmapped
  BY <1>1, AreaFacts DEF Mem
<1>6. Private!GrowStack(p)
  BY <1>4, <1>5, Zenon DEF Private!GrowStack, Mem
<1> QED
  BY <1>6 DEF Private!Next

LEMMA ExecMem ==
  ASSUME AddressSpaceAssumption, SpaceInv, NEW p \in live, NEW x \in Values, NEW n \in {1, 2},
         NEW stack, stack = IF n = 2 THEN used + 2 ELSE Unmapped, Enough(n),
         pt' = [pt EXCEPT ![p] = [Fresh(used + 1) EXCEPT ![Stack] = stack]],
         memory' = [memory EXCEPT ![used + 1] = x],
         UNCHANGED live
  PROVE  Private!Next
<1> DEFINE s == IF n = 2 THEN 0 ELSE Unmapped
<1>1. /\ \A q \in Procs \ {p}, w \in Areas : Area(q, w)' = Area(q, w)
      /\ Area(p, Text)' = x
      /\ Area(p, Stack)' = s
  BY ExecAreas, Zenon
<1>2. p \in Procs /\ s \in {Unmapped, 0}
  BY DEF SpaceInv, MemoryType
<1> HIDE DEF s
<1>3. Mem' = [Mem EXCEPT ![p] = [text |-> x, stack |-> s]]
  BY <1>1, <1>2, WholeMem, Zenon
<1>4. Private!Load(p, x, s)
  BY <1>3 DEF Private!Load, Mem
<1> QED
  BY <1>2, <1>4 DEF Private!Next

LEMMA ForkMem ==
  ASSUME AddressSpaceAssumption, SpaceInv, NEW p \in live, NEW c \in Procs, c \notin live,
         Enough(Cardinality(Mapped(p))),
         live' = live \cup {c},
         pt' = [pt EXCEPT ![c] = clone_address_space(p)],
         memory' = [f \in Frames |->
           IF \E u \in Mapped(p) : clone_address_space(p)[u] = f THEN CopyOf(p, f) ELSE memory[f]]
  PROVE  Private!Next
<1>1. \A q \in Procs, w \in Areas : Area(q, w)' = IF q = c THEN Area(p, w) ELSE Area(q, w)
  BY ForkAreas, Zenon
<1>2. p \in Procs /\ Mem[p] = [text |-> Area(p, Text), stack |-> Area(p, Stack)]
  BY DEF SpaceInv, MemoryType, Mem
<1>3. [text |-> Area(c, Text)', stack |-> Area(c, Stack)'] = Mem[p]
  BY <1>1, <1>2, Zenon DEF Areas
<1>4. \A q \in Procs \ {c}, w \in Areas : Area(q, w)' = Area(q, w)
  BY <1>1
<1>5. Mem' = [Mem EXCEPT ![c] = Mem[p]]
  BY <1>3, <1>4, WholeMem
<1>6. Private!Fork(p, c)
  BY <1>5 DEF Private!Fork, Mem
<1> QED
  BY <1>6 DEF Private!Next

LEMMA MemStep ==
  ASSUME AddressSpaceAssumption, SpaceInv, [Next]_vars
  PROVE  Private!Next \/ (UNCHANGED live /\ Mem' = Mem)
<1> DEFINE Goal == Private!Next \/ (UNCHANGED live /\ Mem' = Mem)
<1>1. ASSUME UNCHANGED <<live, pt, memory>> PROVE Goal
  BY <1>1 DEF Mem, Area
<1>2. ASSUME panic PROVE Goal
  BY <1>1, <1>2 DEF panic
<1>3. ASSUME NEW p \in live, NEW v \in Pages, NEW x \in Values, Store(p, v, x) PROVE Goal
  BY <1>3, StoreMem
<1> HIDE DEF Goal
<1>4. ASSUME NEW p \in live, NEW v \in Pages, handle_page_fault(p, v) PROVE Goal
  BY <1>2, <1>4, FaultMem DEF handle_page_fault, OutOfMemory, Goal
<1>5. ASSUME NEW p \in live, NEW x \in Values, NEW path \in Pages, sys_execve(p, x, path) PROVE Goal
  <2> DEFINE n == IF path = Stack THEN 2 ELSE 1
             stack == IF n = 2 THEN used + 2 ELSE Unmapped
  <2>1. CASE Enough(n) /\ path \in {Text, Stack}
    <3>1. n \in {1, 2} /\ stack = (IF path = Stack THEN used + 2 ELSE Unmapped)
      OBVIOUS
    <3>2. /\ pt' = [pt EXCEPT ![p] = [Fresh(used + 1) EXCEPT ![Stack] = stack]]
          /\ memory' = [memory EXCEPT ![used + 1] = x]
          /\ UNCHANGED live
      BY <1>5, <2>1, <3>1 DEF sys_execve, OutOfMemory
    <3> QED
      BY <2>1, <3>1, <3>2, ExecMem, Zenon DEF Goal
  <2>2. CASE ~(Enough(n) /\ path \in {Text, Stack})
    BY <1>2, <1>5, <2>2 DEF sys_execve, OutOfMemory
  <2> QED
    BY <2>1, <2>2
<1>6. ASSUME NEW p \in live, NEW c \in Procs, sys_fork(p, c) PROVE Goal
  BY <1>2, <1>6, ForkMem DEF sys_fork, OutOfMemory, Goal
<1>7. ASSUME NEW p \in live, sys_shmget(p) PROVE Goal
  BY <1>1, <1>2, <1>7 DEF sys_shmget, OutOfMemory
<1>8. ASSUME NEW p \in live, NEW i \in 1 .. MAX_SHM_REGIONS, sys_shmat(p, i) PROVE Goal
  <2>1. p \in Procs /\ Shm(i) \notin Areas
    BY DEF SpaceInv, MemoryType, Shm, Areas, Text, Stack, AddressSpaceAssumption
  <2>2. /\ pt' = [pt EXCEPT ![p][Shm(i)] = shm_pages[p][i]]
        /\ UNCHANGED <<live, memory>>
    BY <1>8 DEF sys_shmat
  <2>3. \A q \in Procs, w \in Areas : pt'[q][w] = pt[q][w]
    BY <2>1, <2>2, AreaFacts DEF SpaceInv, MemoryType
  <2>4. \A q \in Procs, w \in Areas : Area(q, w)' = Area(q, w)
    BY <2>2, <2>3 DEF Area
  <2> QED
    BY <2>2, <2>4, SameMem DEF Goal
<1>9. ASSUME UNCHANGED vars PROVE Goal
  BY <1>1, <1>9 DEF vars
<1>10. Goal
  BY <1>3, <1>4, <1>5, <1>6, <1>7, <1>8, <1>9 DEF Next
<1> QED
  BY <1>10 DEF Goal

\* Text and stack of every process are a memory of its own, whatever the
\* others store, fork, load, map or share: for any number of processes and
\* frames, and through the copies clone_address_space makes.
THEOREM MemoryRefinement == Spec => ImplementsMemory
<1>1. Init => Private!Init
  BY AddressSpaceAssumption, MemInit
<1>2. SpaceInv /\ [Next]_vars => [Private!Next]_(Private!vars)
  <2>1. SpaceInv /\ [Next]_vars => Private!Next \/ (UNCHANGED live /\ Mem' = Mem)
    BY AddressSpaceAssumption, MemStep
  <2> QED
    BY <2>1 DEF Private!vars, Mem
<1> QED
  BY <1>1, <1>2, SpaceInvariance, PTL DEF Spec, ImplementsMemory, Private!Spec
=============================================================================
