---------------------------- MODULE FilesProofs ----------------------------
(***************************************************************************)
(* Proofs about Files for every number of processes and descriptors, every *)
(* heap, and pipes and texts of every size.                                *)
(***************************************************************************)
EXTENDS Files, SequenceTheorems, WellFoundedInduction, TLAPS

\* The loops of alloc_fd and sys_pipe find the first free descriptor.
LEMMA LowestIn ==
  ASSUME NEW S \in SUBSET Fds, S # {}
  PROVE  Lowest(S) \in S
<1>1. S \subseteq Nat
  BY FilesAssumption DEF Fds
<1> DEFINE less == {p \in Nat \X Nat : p[1] < p[2]}
<1>2. IsWellFoundedOn(less, Nat)
  BY NatLessThanWellFounded, Zenon DEF OpToRel
<1>3. PICK m \in S : \A n \in S : ~(<<n, m>> \in less)
  <2> HIDE DEF less
  <2> QED
    BY <1>1, <1>2, WFMin, Zenon
<1>4. \A n \in S : m <= n
  <2>1. ASSUME NEW n \in S, n < m PROVE FALSE
    <3>1. <<n, m>> \in Nat \X Nat /\ <<n, m>>[1] < <<n, m>>[2]
      BY <1>1, <2>1
    <3>2. <<n, m>> \in less
      BY <3>1
    <3> QED
      BY <1>3, <3>2
  <2> QED
    BY <1>1, <2>1
<1> QED
  BY <1>3, <1>4 DEF Lowest
-----------------------------------------------------------------------------
\* The bytes m + 1 .. m + k of a pipe or of a text.
Bytes(m, k) == [j \in 1 .. k |-> m + j]

LEMMA BytesSeq ==
  ASSUME NEW m \in Nat, NEW k \in Nat
  PROVE  /\ Bytes(m, k) \in Seq(Nat) /\ Len(Bytes(m, k)) = k
         /\ \A j \in 1 .. k : Bytes(m, k)[j] = m + j
  BY DEF Bytes

LEMMA BytesAppend ==
  ASSUME NEW m \in Nat, NEW k \in Nat
  PROVE  Bytes(0, m) \o Bytes(m, k) = Bytes(0, m + k)
<1> DEFINE s == Bytes(0, m)
           t == Bytes(m, k)
           u == Bytes(0, m + k)
<1>1. /\ s \in Seq(Nat) /\ Len(s) = m /\ \A j \in 1 .. m : s[j] = j
      /\ t \in Seq(Nat) /\ Len(t) = k /\ \A j \in 1 .. k : t[j] = m + j
      /\ u \in Seq(Nat) /\ Len(u) = m + k /\ \A j \in 1 .. m + k : u[j] = j
  BY DEF Bytes
<1> HIDE DEF s, t, u
<1>2. /\ s \o t \in Seq(Nat) /\ Len(s \o t) = m + k
      /\ \A j \in 1 .. m + k : (s \o t)[j] = IF j <= m THEN s[j] ELSE t[j - m]
  BY <1>1, ConcatProperties
<1>3. \A j \in 1 .. m + k : (s \o t)[j] = u[j]
  BY <1>1, <1>2
<1> QED
  BY <1>1, <1>2, <1>3, SeqEqual, Zenon DEF s, t, u

LEMMA BytesPart ==
  ASSUME NEW n \in Nat, NEW a \in 0 .. n, NEW b \in a .. n
  PROVE  SubSeq(Bytes(0, n), a + 1, b) = Bytes(a, b - a)
<1> DEFINE s == Bytes(0, n)
           t == Bytes(a, b - a)
           u == SubSeq(s, a + 1, b)
<1>1. /\ s \in Seq(Nat) /\ Len(s) = n /\ \A j \in 1 .. n : s[j] = j
      /\ t \in Seq(Nat) /\ Len(t) = b - a /\ \A j \in 1 .. b - a : t[j] = a + j
  BY DEF Bytes
<1> HIDE DEF s, t
<1>2. /\ u \in Seq(Nat) /\ Len(u) = b - a
      /\ \A j \in 1 .. b - a : u[j] = s[a + j]
  <2>1. \A j \in a + 1 .. b : s[j] \in Nat
    BY <1>1
  <2> QED
    BY <1>1, <2>1, SubSeqProperties
<1> HIDE DEF u
<1>3. \A j \in 1 .. b - a : u[j] = t[j]
  BY <1>1, <1>2
<1> QED
  BY <1>1, <1>2, <1>3, SeqEqual DEF s, t, u
-----------------------------------------------------------------------------
OnHeap  == {"proc", "cpuinfo", "read", "write"} \X Places
FileSet == {None, Stdin, Stdout(1), Stdout(2)} \cup OnHeap

\* A place of the heap holds one struct file, or a pipe with its two ends.
Agree(f, g) == f[2] = g[2] => f[1] = g[1] \/ {f[1], g[1]} \subseteq {"read", "write"}

\* The inductive invariant of the descriptor tables.  That a new file is not
\* in any table yet needs the bound by heap_ptr: kfree never lowers it.
TableInv ==
  /\ procs \subseteq Procs
  /\ heap_ptr \in 0 .. HeapSize
  /\ files \in [Procs -> [Fds -> FileSet]]
  /\ \A t \in Procs, fd \in Fds : files[t][fd] \in OnHeap => files[t][fd][2] <= heap_ptr
  /\ \A t, u \in Procs, fd, gd \in Fds :
       files[t][fd] # None /\ files[t][fd] = files[u][gd] => fd = gd
  /\ \A t, u \in Procs, fd, gd \in Fds :
       files[t][fd] \in OnHeap /\ files[u][gd] \in OnHeap => Agree(files[t][fd], files[u][gd])

LEMMA TableFacts ==
  ASSUME TableInv
  PROVE  /\ procs \subseteq Procs
         /\ HeapSize \in Nat /\ heap_ptr \in Nat /\ heap_ptr <= HeapSize
         /\ files \in [Procs -> [Fds -> FileSet]]
<1>1. HeapSize \in Nat
  BY FilesAssumption
<1>2. heap_ptr \in 0 .. HeapSize
  BY DEF TableInv
<1> QED
  BY <1>1, <1>2 DEF TableInv

Fresh(f) == f \in OnHeap /\ f[2] > heap_ptr

\* Every entry after a step was there before, or is new.
OldOrNew ==
  /\ heap_ptr <= heap_ptr'
  /\ \A u \in Procs, fd \in Fds : \/ files'[u][fd] = None
                                  \/ \E v \in Procs : files'[u][fd] = files[v][fd]
                                  \/ Fresh(files'[u][fd])

\* One table is replaced: its entries are free, were there in the same place
\* of some table, or are new.
LEMMA RowStep ==
  ASSUME TableInv, NEW t \in Procs, NEW row \in [Fds -> FileSet],
         files' = [files EXCEPT ![t] = row],
         procs' \subseteq Procs, heap_ptr' \in heap_ptr .. HeapSize,
         \A fd \in Fds : \/ row[fd] = None
                         \/ \E u \in Procs : row[fd] = files[u][fd]
                         \/ Fresh(row[fd]) /\ row[fd][2] <= heap_ptr',
         \A fd, gd \in Fds : Fresh(row[fd]) /\ Fresh(row[gd]) =>
                               /\ Agree(row[fd], row[gd])
                               /\ row[fd] = row[gd] => fd = gd
  PROVE  TableInv' /\ OldOrNew
<1>1. heap_ptr \in Nat /\ heap_ptr' \in Nat /\ heap_ptr' \in 0 .. HeapSize /\ heap_ptr <= heap_ptr'
  BY FilesAssumption DEF TableInv
<1>2. /\ files' \in [Procs -> [Fds -> FileSet]]
      /\ \A u \in Procs, fd \in Fds : files'[u][fd] = IF u = t THEN row[fd] ELSE files[u][fd]
  BY DEF TableInv
<1>3. \A f \in OnHeap : f[2] \in Nat
  BY FilesAssumption DEF OnHeap, Places
<1>4. None \notin OnHeap
  BY DEF None, OnHeap
\* An entry of the new tables is an old one of the same descriptor, or new.
<1>5. ASSUME NEW u \in Procs, NEW fd \in Fds
      PROVE  \/ files'[u][fd] = None
             \/ \E v \in Procs : files'[u][fd] = files[v][fd]
             \/ u = t /\ files'[u][fd] = row[fd] /\ Fresh(row[fd]) /\ row[fd][2] <= heap_ptr'
  BY <1>2
<1>6. \A v \in Procs, fd \in Fds : ~Fresh(files[v][fd])
  BY <1>1, <1>3 DEF TableInv, Fresh
<1>7. ASSUME NEW u \in Procs, NEW fd \in Fds, files'[u][fd] \in OnHeap
      PROVE  files'[u][fd][2] <= heap_ptr'
  BY <1>1, <1>3, <1>4, <1>5, <1>7 DEF TableInv
<1>8. ASSUME NEW u \in Procs, NEW v \in Procs, NEW fd \in Fds, NEW gd \in Fds,
             files'[u][fd] # None, files'[u][fd] = files'[v][gd]
      PROVE  fd = gd
  BY <1>5, <1>6, <1>8 DEF TableInv
<1>9. ASSUME NEW u \in Procs, NEW v \in Procs, NEW fd \in Fds, NEW gd \in Fds,
             files'[u][fd] \in OnHeap, files'[v][gd] \in OnHeap
      PROVE  Agree(files'[u][fd], files'[v][gd])
  <2>1. CASE Fresh(files'[u][fd]) /\ Fresh(files'[v][gd])
    BY <1>5, <1>6, <2>1, <1>4
  <2>2. CASE ~Fresh(files'[u][fd]) /\ ~Fresh(files'[v][gd])
    BY <1>4, <1>5, <1>9, <2>2 DEF TableInv
  <2>3. CASE Fresh(files'[u][fd]) # Fresh(files'[v][gd])
    BY <1>1, <1>3, <1>9, <2>3 DEF Fresh, Agree
  <2> QED
    BY <2>1, <2>2, <2>3 DEF Fresh
<1> QED
  BY <1>1, <1>2, <1>5, <1>7, <1>8, <1>9 DEF TableInv, OldOrNew

LEMMA TableInit == Init => TableInv
<1> SUFFICES ASSUME Init PROVE TableInv
  OBVIOUS
<1>1. /\ procs = {First} /\ heap_ptr = 0 /\ 0 \in 0 .. HeapSize
      /\ files = [t \in Procs |-> task_setup_stdio]
  BY FilesAssumption DEF Init
<1>2. /\ task_setup_stdio \in [Fds -> FileSet]
      /\ \A fd \in Fds : task_setup_stdio[fd] \notin OnHeap
      /\ \A fd, gd \in Fds : task_setup_stdio[fd] # None /\ task_setup_stdio[fd] = task_setup_stdio[gd]
                               => fd = gd
  BY FilesAssumption DEF task_setup_stdio, FileSet, OnHeap, None, Stdin, Stdout, Fds
<1> QED
  BY <1>1, <1>2, FilesAssumption DEF TableInv

\* What a system call of the process t does to the tables.
LEMMA OpenTable ==
  ASSUME TableInv, NEW t \in procs, NEW kind \in {"proc", "cpuinfo"}, NEW ok, SysOpen(t, kind, ok)
  PROVE  TableInv' /\ OldOrNew
<1>1. t \in Procs /\ heap_ptr \in Nat /\ HeapSize \in Nat
  BY TableFacts
<1>2. CASE panic
  BY <1>2 DEF panic, TableInv, Agree, OldOrNew
<1>3. CASE ~Exhausted(1) /\ heap_ptr' = heap_ptr + 1 /\ procs' = procs
  <2> DEFINE f == <<kind, heap_ptr + 1>>
             row == [files[t] EXCEPT ![Lowest(FreeFds(t))] = f]
  <2>1. heap_ptr' \in heap_ptr .. HeapSize
    BY <1>1, <1>3 DEF Exhausted
  <2>2. f \in FileSet /\ f \in OnHeap /\ f[2] = heap_ptr + 1 /\ Fresh(f)
    BY <1>1, <1>3, <2>1 DEF FileSet, OnHeap, Places, Fresh
  <2>3. \A u \in Procs, fd \in Fds : ~Fresh(files[u][fd])
    BY <1>1 DEF TableInv, Fresh, OnHeap, Places
  <2>4. CASE files' = files
    <3>1. files' = [files EXCEPT ![t] = files[t]] /\ files[t] \in [Fds -> FileSet]
      BY <1>1, <2>4 DEF TableInv
    <3>2. procs' \subseteq Procs
      BY <1>3 DEF TableInv
    <3> QED
      BY <1>1, <2>1, <2>3, <3>1, <3>2, RowStep, Zenon
  <2>5. CASE FreeFds(t) # {} /\ alloc_fd(t, f)
    <3>1. Lowest(FreeFds(t)) \in Fds
      BY <2>5, LowestIn DEF FreeFds
    <3>2. files' = [files EXCEPT ![t] = row] /\ row \in [Fds -> FileSet]
      BY <1>1, <2>2, <2>5, <3>1 DEF alloc_fd, TableInv
    <3>3. \A fd \in Fds : row[fd] = IF fd = Lowest(FreeFds(t)) THEN f ELSE files[t][fd]
      BY <1>1, <3>1 DEF TableInv
    <3>4. procs' \subseteq Procs
      BY <1>3 DEF TableInv
    <3> HIDE DEF row, f
    <3>5. \A fd, gd \in Fds : Fresh(row[fd]) /\ Fresh(row[gd]) => fd = gd
      BY <1>1, <2>3, <3>3
    <3>6. \A fd \in Fds : (\E u \in Procs : row[fd] = files[u][fd])
                            \/ (Fresh(row[fd]) /\ row[fd][2] <= heap_ptr')
      BY <1>1, <1>3, <2>2, <3>3
    <3>7. \A fd, gd \in Fds : fd = gd => Agree(row[fd], row[gd])
      BY DEF Agree
    <3> QED
      BY <1>1, <2>1, <3>2, <3>4, <3>5, <3>6, <3>7, RowStep, Zenon
  <2> QED
    BY <1>2, <1>3, <2>4, <2>5 DEF SysOpen, panic
<1> QED
  BY <1>2, <1>3 DEF SysOpen

LEMMA CloseTable ==
  ASSUME TableInv, NEW t \in procs, NEW fd \in Fds, SysClose(t, fd)
  PROVE  TableInv' /\ OldOrNew
<1> DEFINE row == [files[t] EXCEPT ![fd] = None]
<1>1. /\ t \in Procs /\ heap_ptr' \in heap_ptr .. HeapSize /\ procs' \subseteq Procs
      /\ files' = [files EXCEPT ![t] = row] /\ row \in [Fds -> FileSet]
      /\ \A gd \in Fds : row[gd] = None \/ row[gd] = files[t][gd]
      /\ \A gd \in Fds : ~Fresh(row[gd])
  <2>1. t \in Procs /\ heap_ptr' = heap_ptr /\ procs' = procs
    BY DEF SysClose, TableInv
  <2>2. heap_ptr' \in heap_ptr .. HeapSize
    BY <2>1, FilesAssumption DEF TableInv
  <2>3. files' = [files EXCEPT ![t] = row] /\ row \in [Fds -> FileSet]
    BY <2>1 DEF SysClose, TableInv, FileSet
  <2>4. \A gd \in Fds : row[gd] = None \/ row[gd] = files[t][gd]
    BY <2>1 DEF TableInv
  <2>5. \A gd \in Fds : ~Fresh(files[t][gd]) /\ ~Fresh(None)
    BY <2>1, FilesAssumption DEF TableInv, Fresh, OnHeap, Places, None
  <2> QED
    BY <2>1, <2>2, <2>3, <2>4, <2>5 DEF TableInv
<1> HIDE DEF row
<1> QED
  BY <1>1, RowStep, Zenon

\* sys_pipe: which entries of the caller's table are new, and which they are.
LEMMA InstalledRow ==
  ASSUME TableInv, NEW t \in procs, NEW p \in Places
  PROVE  /\ Installed(t, p) \in [Fds -> FileSet]
         /\ \A fd \in Fds : \/ Installed(t, p)[fd] = files[t][fd]
                            \/ files[t][fd] = None /\ Installed(t, p)[fd] \in {ReadEnd(p), WriteEnd(p)}
         /\ \A fd, gd \in Fds :
              /\ Installed(t, p)[fd] \in {ReadEnd(p), WriteEnd(p)} \ {files[t][fd]}
              /\ Installed(t, p)[gd] = Installed(t, p)[fd]
              /\ Installed(t, p)[gd] # files[t][gd]
              => fd = gd
         /\ \/ \A fd \in Fds : Installed(t, p)[fd] # None
            \/ Installed(t, p) = files[t]
            \/ \E fd \in Fds : Installed(t, p)[fd] = WriteEnd(p)
<1> DEFINE free == FreeFds(t)
           rfd  == Lowest(free)
           wfd  == Lowest(free \ {rfd})
           row  == files[t]
           new  == Installed(t, p)
<1>1. t \in Procs /\ row \in [Fds -> FileSet] /\ free \in SUBSET Fds
  BY DEF TableInv, FreeFds
<1>2. /\ \A fd \in free : row[fd] = None
      /\ \A fd \in Fds \ free : row[fd] # None
  BY DEF FreeFds
<1>3. /\ ReadEnd(p) \in FileSet /\ WriteEnd(p) \in FileSet
      /\ ReadEnd(p) # WriteEnd(p) /\ ReadEnd(p) # None /\ WriteEnd(p) # None
  BY DEF ReadEnd, WriteEnd, FileSet, OnHeap, None
<1>4. CASE free = {}
  <2>1. new = row
    BY <1>4 DEF Installed
  <2> HIDE DEF new, row
  <2> QED
    BY <1>1, <2>1 DEF new, row
<1>5. CASE free # {} /\ free = {rfd}
  <2>1. rfd \in free /\ rfd \in Fds
    BY <1>1, <1>5, LowestIn
  <2>2. new = [row EXCEPT ![rfd] = ReadEnd(p)]
    BY <1>5 DEF Installed
  <2> HIDE DEF new, row, rfd, free
  <2>3. new \in [Fds -> FileSet] /\ \A fd \in Fds : new[fd] = IF fd = rfd THEN ReadEnd(p) ELSE row[fd]
    BY <1>1, <1>3, <2>1, <2>2
  <2>4. \A fd \in Fds : new[fd] # None
    BY <1>2, <1>3, <1>5, <2>3
  <2> QED
    BY <1>2, <1>3, <2>1, <2>3, <2>4 DEF new, row
<1>6. CASE free # {} /\ free # {rfd}
  <2>1. rfd \in free /\ rfd \in Fds
    BY <1>1, <1>6, LowestIn
  <2>2. wfd \in free /\ wfd \in Fds /\ wfd # rfd
    <3>1. free \ {rfd} # {} /\ free \ {rfd} \in SUBSET Fds
      BY <1>1, <1>6, <2>1
    <3> HIDE DEF rfd
    <3> QED
      BY <1>1, <3>1, LowestIn
  <2>3. new = [row EXCEPT ![rfd] = ReadEnd(p), ![wfd] = WriteEnd(p)]
    BY <1>6 DEF Installed
  <2> HIDE DEF new, row, rfd, wfd, free
  <2>4. new \in [Fds -> FileSet]
        /\ \A fd \in Fds : new[fd] = IF fd = rfd THEN ReadEnd(p)
                                     ELSE IF fd = wfd THEN WriteEnd(p) ELSE row[fd]
    BY <1>1, <1>3, <2>1, <2>2, <2>3
  <2> QED
    BY <1>2, <1>3, <2>1, <2>2, <2>4 DEF new, row
<1> QED
  BY <1>4, <1>5, <1>6

LEMMA PipeTable ==
  ASSUME TableInv, NEW t \in procs, NEW ok, SysPipe(t, ok)
  PROVE  TableInv' /\ OldOrNew
<1>1. t \in Procs /\ heap_ptr \in Nat /\ HeapSize \in Nat
  BY TableFacts
<1>2. CASE panic
  BY <1>2 DEF panic, TableInv, Agree, OldOrNew
<1>3. CASE ~panic
  <2> DEFINE p == heap_ptr + 1
             row == Installed(t, p)
  <2>1. /\ heap_ptr' = heap_ptr + 2 /\ heap_ptr' \in heap_ptr .. HeapSize /\ procs' = procs
        /\ files' = [files EXCEPT ![t] = row]
    BY <1>1, <1>3 DEF SysPipe, Exhausted
  <2>2. p \in Places
    BY <1>1, <2>1 DEF Places
  <2>3. /\ ReadEnd(p)[2] = p /\ WriteEnd(p)[2] = p /\ ReadEnd(p) \in OnHeap /\ WriteEnd(p) \in OnHeap
        /\ Fresh(ReadEnd(p)) /\ Fresh(WriteEnd(p))
    BY <1>1, <2>2 DEF ReadEnd, WriteEnd, OnHeap, Fresh
  <2>4. \A u \in Procs, fd \in Fds : ~Fresh(files[u][fd])
    BY <1>1 DEF TableInv, Fresh, OnHeap, Places
  <2>5. \A f, g \in {ReadEnd(p), WriteEnd(p)} : Agree(f, g)
    BY DEF ReadEnd, WriteEnd, Agree
  <2>6. /\ row \in [Fds -> FileSet]
        /\ \A fd \in Fds : row[fd] = files[t][fd] \/ row[fd] \in {ReadEnd(p), WriteEnd(p)}
        /\ \A fd, gd \in Fds :
             /\ row[fd] \in {ReadEnd(p), WriteEnd(p)} \ {files[t][fd]}
             /\ row[gd] = row[fd]
             /\ row[gd] # files[t][gd]
             => fd = gd
    BY <2>2, InstalledRow
  <2>7. procs' \subseteq Procs
    BY <2>1 DEF TableInv
  <2> HIDE DEF row
  <2>8. \A fd, gd \in Fds : Fresh(row[fd]) /\ Fresh(row[gd]) =>
                              Agree(row[fd], row[gd]) /\ (row[fd] = row[gd] => fd = gd)
    BY <1>1, <2>4, <2>5, <2>6
  <2>9. \A fd \in Fds : \/ \E u \in Procs : row[fd] = files[u][fd]
                        \/ Fresh(row[fd]) /\ row[fd][2] <= heap_ptr'
    BY <1>1, <2>1, <2>3, <2>6
  <2> QED
    BY <1>1, <2>1, <2>6, <2>7, <2>8, <2>9, RowStep, Zenon
<1> QED
  BY <1>2, <1>3

LEMMA ForkTable ==
  ASSUME TableInv, NEW t \in procs, NEW child \in Procs, SysFork(t, child)
  PROVE  TableInv' /\ OldOrNew
<1>1. CASE panic
  BY <1>1 DEF panic, TableInv, Agree, OldOrNew
<1>2. CASE ~panic
  <2>1. /\ t \in Procs /\ heap_ptr \in Nat /\ HeapSize \in Nat
        /\ heap_ptr' \in heap_ptr .. HeapSize /\ procs' \subseteq Procs
        /\ files' = [files EXCEPT ![child] = files[t]] /\ files[t] \in [Fds -> FileSet]
    BY <1>2, FilesAssumption DEF SysFork, Exhausted, TableInv
  <2>2. \A u \in Procs, fd \in Fds : ~Fresh(files[u][fd])
    BY <2>1 DEF TableInv, Fresh, OnHeap, Places
  <2> QED
    BY <2>1, <2>2, RowStep, Zenon
<1> QED
  BY <1>1, <1>2

SystemCall(t) == OtherCall(t) \/ \E ok \in BOOLEAN : PointerCall(t, ok)

\* What the other calls leave alone.
LEMMA ReadWriteTable ==
  ASSUME NEW t, NEW fd, NEW count, NEW ok, SysWrite(t, fd, count, ok) \/ SysRead(t, fd, count, ok)
  PROVE  UNCHANGED <<procs, files, heap_ptr>>
  BY Zenon DEF SysWrite, SysRead, NoInode, TerminalFaults, panic, pipe_write, pipe_read, proc_cpuinfo_read

LEMMA PageTable ==
  ASSUME NEW t, TakePage(t)
  PROVE  UNCHANGED <<procs, files, heap_ptr, pipeVars, f_pos, waiting, sent, received>>
  BY Zenon DEF TakePage, panic

LEMMA TableNext == TableInv /\ [Next]_vars => TableInv' /\ OldOrNew
<1> SUFFICES ASSUME TableInv, [Next]_vars PROVE TableInv' /\ OldOrNew
  OBVIOUS
<1>1. ASSUME UNCHANGED <<procs, files, heap_ptr>> PROVE TableInv' /\ OldOrNew
  BY <1>1, FilesAssumption DEF TableInv, Agree, OldOrNew
<1>2. CASE UNCHANGED vars
  BY <1>1, <1>2 DEF vars
<1>3. ASSUME NEW t \in procs, Waits(t), WaitingRead(t) PROVE TableInv' /\ OldOrNew
  BY <1>1, <1>3, Zenon DEF WaitingRead, pipe_read, panic
<1>4. ASSUME NEW t \in procs, SystemCall(t) PROVE TableInv' /\ OldOrNew
  <2>1. ASSUME NEW kind \in {"proc", "cpuinfo"}, NEW ok \in BOOLEAN, SysOpen(t, kind, ok)
        PROVE  TableInv' /\ OldOrNew
    BY <2>1, OpenTable
  <2>2. ASSUME NEW ok \in BOOLEAN, SysPipe(t, ok) PROVE TableInv' /\ OldOrNew
    BY <2>2, PipeTable
  <2>3. ASSUME NEW child \in Procs, SysFork(t, child) PROVE TableInv' /\ OldOrNew
    BY <2>3, ForkTable
  <2>4. ASSUME NEW fd \in Fds, SysClose(t, fd) PROVE TableInv' /\ OldOrNew
    BY <2>4, CloseTable
  <2>5. ASSUME NEW fd \in Fds, NEW count \in 0 .. MaxCount, NEW ok \in BOOLEAN,
               SysWrite(t, fd, count, ok) \/ SysRead(t, fd, count, ok)
        PROVE  TableInv' /\ OldOrNew
    BY <1>1, <2>5, ReadWriteTable
  <2>6. CASE TakePage(t)
    BY <1>1, <2>6, PageTable
  <2> QED
    BY <1>4, <2>1, <2>2, <2>3, <2>4, <2>5, <2>6, Zenon DEF SystemCall, OtherCall, PointerCall
<1> QED
  BY <1>2, <1>3, <1>4, Zenon DEF Next, SystemCall

\* Two descriptors name one file only through fork, for any number of
\* processes, descriptors, opens, closes and pipes.
THEOREM SharingCorrect == Spec => []SharedByForkOnly
<1>1. TableInv => SharedByForkOnly
  BY DEF TableInv, SharedByForkOnly
<1>2. TableInv /\ [Next]_vars => TableInv'
  BY TableNext
<1> QED
  BY <1>1, <1>2, TableInit, PTL DEF Spec

\* A kernel panic has one of the four causes: no order of calls of any number of
\* processes makes a call with a good pointer panic while the heap and the pages
\* last and nobody has /proc open.
THEOREM PanicsCorrect == Spec => []PanicCause
<1>1. Init => PanicCause
  BY DEF Init, PanicCause
<1>2. TableInv /\ PanicCause /\ [Next]_vars => PanicCause'
  <2> SUFFICES ASSUME TableInv, PanicCause, [Next]_vars, halted' PROVE PanicCause'
    BY DEF PanicCause
  <2>1. heap_ptr \in Nat /\ HeapSize \in Nat
    BY TableFacts
  <2>2. CASE UNCHANGED vars
    BY <2>2, Zenon DEF vars, machine, PanicCause
  <2>3. ASSUME panic, Exhausted(1) \/ Exhausted(2) PROVE PanicCause'
    BY <2>1, <2>3 DEF panic, Exhausted, PanicCause
  <2>4. ASSUME NEW t \in procs, NEW fd \in Fds, NoInode(t, fd) PROVE PanicCause'
    BY <2>4 DEF NoInode, panic, PanicCause
  <2>5. ASSUME ~halted, UNCHANGED machine PROVE FALSE
    BY <2>5 DEF machine
  <2>6. ASSUME NEW t \in procs, ~halted, OtherCall(t) PROVE PanicCause'
    <3>1. ASSUME frames = 0, panic PROVE PanicCause'
      BY <3>1 DEF panic, PanicCause
    <3>2. ASSUME halted' = halted PROVE FALSE
      BY <2>6, <3>2
    <3> QED
      BY <2>5, <2>6, <3>1, <3>2, Zenon DEF OtherCall, SysFork, SysClose, TakePage
  <2>7. ASSUME NEW t \in procs, NEW ok \in BOOLEAN, ~halted, PointerCall(t, ok)
        PROVE  PanicCause'
    <3>1. ASSUME ~ok PROVE PanicCause'
      BY <2>7, <3>1, Zenon DEF PointerCall, PanicCause
    <3> QED
      BY <2>3, <2>4, <2>5, <2>7, <3>1, Zenon
      DEF PointerCall, SysOpen, SysPipe, SysWrite, SysRead, TerminalFaults, Faults,
          pipe_write, pipe_read, proc_cpuinfo_read
  <2>8. ASSUME NEW t \in procs, ~halted, WaitingRead(t) PROVE PanicCause'
    BY <2>5, <2>8, Zenon DEF WaitingRead, pipe_read, Faults, PanicCause
  <2> QED
    BY <2>2, <2>6, <2>7, <2>8, Zenon DEF Next
<1> QED
  BY <1>1, <1>2, TableInit, TableNext, PTL DEF Spec
-----------------------------------------------------------------------------
\* What each place of the heap holds: all bytes up to write_pos, of which those
\* up to read_pos have been read, or a text read up to f_pos.
Contents(n) ==
  /\ read_pos[n] <= write_pos[n]
  /\ write_pos[n] = 0 \/ f_pos[n] = 0
  /\ buffer[n] = Bytes(0, write_pos[n])
  /\ sent[n] = Bytes(0, write_pos[n])
  /\ received[n] = Bytes(0, read_pos[n] + f_pos[n])

ContentInv ==
  /\ read_pos \in [Places -> Nat]
  /\ write_pos \in [Places -> 0 .. PipeSize]
  /\ f_pos \in [Places -> 0 .. InfoSize]
  /\ {buffer, sent, received} \subseteq [Places -> Seq(Nat)]
  /\ \A n \in Places : Contents(n)

\* A place is used as one or the other, as the descriptors that name it say.
UseInv ==
  /\ \A n \in Places : n > heap_ptr => write_pos[n] = 0 /\ f_pos[n] = 0
  /\ \A t \in Procs, fd \in Fds, n \in Places :
       /\ files[t][fd] = WriteEnd(n) => f_pos[n] = 0
       /\ files[t][fd] = Cpuinfo(n) => write_pos[n] = 0

LEMMA ContentFacts ==
  ASSUME ContentInv, NEW n \in Places
  PROVE  /\ read_pos[n] \in Nat /\ write_pos[n] \in Nat /\ f_pos[n] \in Nat
         /\ PipeSize \in Nat /\ write_pos[n] <= PipeSize
         /\ InfoSize \in Nat /\ f_pos[n] <= InfoSize
         /\ read_pos[n] <= write_pos[n] /\ (write_pos[n] = 0 \/ f_pos[n] = 0)
         /\ buffer[n] = Bytes(0, write_pos[n]) /\ sent[n] = Bytes(0, write_pos[n])
         /\ received[n] = Bytes(0, read_pos[n] + f_pos[n])
<1>1. PipeSize \in Nat /\ InfoSize \in Nat
  BY FilesAssumption
<1>2. read_pos[n] \in Nat /\ write_pos[n] \in 0 .. PipeSize /\ f_pos[n] \in 0 .. InfoSize
  BY DEF ContentInv
<1>3. Contents(n)
  BY DEF ContentInv
<1> QED
  BY <1>1, <1>2, <1>3 DEF Contents

LEMMA SmallerFits ==
  ASSUME NEW m \in Nat, NEW n \in Nat
  PROVE  Smaller(m, n) \in Nat /\ Smaller(m, n) <= n
  BY DEF Smaller

LEMMA ContentsIntact == ContentInv => StreamIntact
<1> SUFFICES ASSUME ContentInv, NEW n \in Places
             PROVE  \/ received[n] \o SubSeq(buffer[n], read_pos[n] + 1, write_pos[n]) = sent[n]
                    \/ sent[n] = << >> /\ received[n] = [j \in 1 .. f_pos[n] |-> j]
  BY Zenon DEF StreamIntact
<1> DEFINE r == read_pos[n]
           w == write_pos[n]
           f == f_pos[n]
<1>1. /\ r \in Nat /\ w \in Nat /\ f \in Nat /\ r <= w /\ (w = 0 \/ f = 0)
      /\ buffer[n] = Bytes(0, w) /\ sent[n] = Bytes(0, w) /\ received[n] = Bytes(0, r + f)
  BY ContentFacts
<1> HIDE DEF r, w, f
<1>2. CASE f = 0
  <2>1. r + f = r /\ r \in 0 .. w /\ w \in r .. w /\ w - r \in Nat /\ r + (w - r) = w
    BY <1>1, <1>2
  <2>2. SubSeq(Bytes(0, w), r + 1, w) = Bytes(r, w - r)
    BY <1>1, <2>1, BytesPart
  <2>3. Bytes(0, r) \o Bytes(r, w - r) = Bytes(0, w)
    BY <1>1, <2>1, BytesAppend, Zenon
  <2> QED
    BY <1>1, <2>1, <2>2, <2>3, Zenon DEF r, w, f
<1>3. CASE w = 0
  <2>1. r + f = f
    BY <1>1, <1>3
  <2>2. Bytes(0, 0) = << >>
    BY DEF Bytes
  <2>3. Bytes(0, f) = [j \in 1 .. f |-> j]
    BY <1>1 DEF Bytes
  <2> QED
    BY <1>1, <1>3, <2>1, <2>2, <2>3 DEF r, w, f
<1> QED
  BY <1>1, <1>2, <1>3, Zenon

LEMMA ContentInit == Init => ContentInv /\ UseInv
<1> SUFFICES ASSUME Init PROVE ContentInv /\ UseInv
  OBVIOUS
<1>1. Bytes(0, 0) = << >> /\ << >> \in Seq(Nat) /\ 0 \in 0 .. PipeSize /\ 0 \in 0 .. InfoSize
  BY FilesAssumption DEF Bytes
<1>2. ContentInv
  BY <1>1 DEF Init, ContentInv, Contents
<1>3. UseInv
  BY DEF Init, UseInv
<1> QED
  BY <1>2, <1>3

\* A call that changes tables only.
LEMMA TableOnly ==
  ASSUME TableInv, ContentInv, UseInv, OldOrNew, TableInv',
         UNCHANGED <<pipeVars, f_pos, sent, received>>
  PROVE  ContentInv' /\ UseInv'
<1>1. UNCHANGED <<buffer, read_pos, write_pos, f_pos, sent, received>>
  BY DEF pipeVars
<1>2. ContentInv'
  BY <1>1 DEF ContentInv, Contents
<1>3. ASSUME NEW n \in Places, n > heap_ptr' PROVE write_pos'[n] = 0 /\ f_pos'[n] = 0
  BY <1>1, <1>3, FilesAssumption DEF UseInv, OldOrNew, TableInv, Places
<1>4. ASSUME NEW t \in Procs, NEW fd \in Fds, NEW n \in Places
      PROVE  /\ files'[t][fd] = WriteEnd(n) => f_pos'[n] = 0
             /\ files'[t][fd] = Cpuinfo(n) => write_pos'[n] = 0
  <2>1. WriteEnd(n) # None /\ Cpuinfo(n) # None /\ WriteEnd(n)[2] = n /\ Cpuinfo(n)[2] = n
    BY DEF WriteEnd, Cpuinfo, None
  <2> QED
    BY <1>1, <2>1 DEF UseInv, OldOrNew, Fresh
<1> QED
  BY <1>2, <1>3, <1>4 DEF UseInv

LEMMA WriteContent ==
  ASSUME TableInv, ContentInv, UseInv, NEW t \in procs, NEW fd \in Fds, NEW p \in Places,
         NEW count \in 0 .. MaxCount, NEW ok, files[t][fd] = WriteEnd(p), pipe_write(p, count, ok), ~panic
  PROVE  ContentInv' /\ UseInv'
<1> DEFINE w == write_pos[p]
           k == Smaller(count, Room(p))
           b == [j \in 1 .. k |-> Len(sent[p]) + j]
<1>1. /\ w \in Nat /\ w <= PipeSize /\ PipeSize \in Nat /\ read_pos[p] \in Nat /\ count \in Nat
      /\ read_pos[p] <= w /\ f_pos[p] = 0 /\ t \in Procs /\ heap_ptr \in Nat
      /\ buffer[p] = Bytes(0, w) /\ sent[p] = Bytes(0, w)
      /\ received[p] = Bytes(0, read_pos[p] + f_pos[p])
  <2>1. f_pos[p] = 0 /\ t \in Procs /\ heap_ptr \in Nat /\ count \in Nat
    BY TableFacts, FilesAssumption DEF UseInv
  <2> QED
    BY <2>1, ContentFacts
<1>2. k \in Nat /\ w + k \in 0 .. PipeSize
  <2>1. Room(p) = PipeSize - w /\ Room(p) \in Nat
    BY <1>1 DEF Room
  <2>2. k \in Nat /\ k <= Room(p)
    BY <1>1, <2>1, SmallerFits, Zenon
  <2> HIDE DEF k
  <2> QED
    BY <1>1, <2>1, <2>2
<1>3. /\ buffer' = [buffer EXCEPT ![p] = SubSeq(buffer[p], 1, w) \o b]
      /\ write_pos' = [write_pos EXCEPT ![p] = w + k]
      /\ sent' = [sent EXCEPT ![p] = sent[p] \o b]
      /\ UNCHANGED <<files, heap_ptr, read_pos, f_pos, received>>
  BY DEF pipe_write
<1> HIDE DEF w, k, b
<1>4. b = Bytes(w, k)
  <2>1. Len(sent[p]) = w
    BY <1>1, BytesSeq
  <2> QED
    BY <2>1 DEF Bytes, b
<1>5. SubSeq(buffer[p], 1, w) = Bytes(0, w)
  <2>0. w \in 0 .. w /\ 0 \in 0 .. w
    BY <1>1
  <2>1. SubSeq(Bytes(0, w), 0 + 1, w) = Bytes(0, w - 0)
    BY <1>1, <2>0, BytesPart, Zenon
  <2> QED
    BY <1>1, <2>1
<1>6. Bytes(0, w) \o Bytes(w, k) = Bytes(0, w + k) /\ Bytes(0, w + k) \in Seq(Nat)
  <2>1. w + k \in Nat /\ 0 \in Nat
    BY <1>1, <1>2
  <2> QED
    BY <1>1, <1>2, <2>1, BytesAppend, BytesSeq, Zenon
<1>7. /\ buffer' = [buffer EXCEPT ![p] = Bytes(0, w + k)]
      /\ sent' = [sent EXCEPT ![p] = Bytes(0, w + k)]
  BY <1>1, <1>4, <1>5, <1>6, <1>3, Zenon
<1>8. /\ write_pos' \in [Places -> 0 .. PipeSize]
      /\ buffer' \in [Places -> Seq(Nat)] /\ sent' \in [Places -> Seq(Nat)]
      /\ write_pos'[p] = w + k /\ buffer'[p] = Bytes(0, w + k) /\ sent'[p] = Bytes(0, w + k)
      /\ \A n \in Places : n # p => /\ write_pos'[n] = write_pos[n]
                                    /\ buffer'[n] = buffer[n] /\ sent'[n] = sent[n]
  BY <1>2, <1>6, <1>3, <1>7, Zenon DEF ContentInv
<1>9. \A n \in Places : Contents(n)'
  <2>1. Contents(p)'
    <3>1. /\ read_pos'[p] = read_pos[p] /\ f_pos'[p] = 0 /\ received'[p] = received[p]
          /\ read_pos[p] <= w + k
      BY <1>1, <1>2, <1>3
    <3> QED
      BY <1>1, <1>8, <3>1 DEF Contents
  <2>2. ASSUME NEW n \in Places, n # p PROVE Contents(n)'
    BY <1>3, <1>8, <2>2 DEF ContentInv, Contents
  <2> QED
    BY <2>1, <2>2
<1>10. ContentInv'
  BY <1>3, <1>8, <1>9 DEF ContentInv
<1>11. UseInv'
  <2>1. WriteEnd(p) \in OnHeap /\ WriteEnd(p)[2] = p /\ p <= heap_ptr
    <3>1. WriteEnd(p) \in OnHeap /\ WriteEnd(p)[2] = p
      BY DEF WriteEnd, OnHeap
    <3> QED
      BY <1>1, <3>1 DEF TableInv
  <2>2. \A u \in Procs, gd \in Fds : files[u][gd] # Cpuinfo(p)
    <3> SUFFICES ASSUME NEW u \in Procs, NEW gd \in Fds, files[u][gd] = Cpuinfo(p) PROVE FALSE
      OBVIOUS
    <3>1. Cpuinfo(p) \in OnHeap /\ ~Agree(Cpuinfo(p), WriteEnd(p))
      BY DEF Cpuinfo, WriteEnd, OnHeap, Agree
    <3> QED
      BY <1>1, <2>1, <3>1 DEF TableInv
  <2> QED
    <3>1. \A n \in Places : n > heap_ptr => n # p
      BY <1>1, <2>1 DEF Places
    <3>2. \A n \in Places : n # p => write_pos'[n] = write_pos[n]
      BY <1>8
    <3> QED
      BY <1>3, <2>2, <3>1, <3>2 DEF UseInv
<1> QED
  BY <1>10, <1>11

LEMMA ReadContent ==
  ASSUME ContentInv, UseInv, NEW t \in procs, NEW p \in Places, NEW count \in 0 .. MaxCount,
         NEW ok, pipe_read(t, p, count, ok), ~panic
  PROVE  ContentInv' /\ UseInv'
<1>1. CASE read_pos[p] = write_pos[p]
  <2>1. UNCHANGED <<files, heap_ptr, buffer, read_pos, write_pos, f_pos, sent, received>>
    BY <1>1 DEF pipe_read, pipeVars
  <2> QED
    BY <2>1 DEF ContentInv, Contents, UseInv
<1>2. CASE read_pos[p] # write_pos[p]
  <2> DEFINE r == read_pos[p]
             w == write_pos[p]
             k == Smaller(count, w - r)
  <2>1. /\ r \in Nat /\ w \in Nat /\ r <= w /\ count \in Nat /\ f_pos[p] = 0
        /\ buffer[p] = Bytes(0, w) /\ received[p] = Bytes(0, r)
    <3>1. /\ r \in Nat /\ w \in Nat /\ r <= w /\ (w = 0 \/ f_pos[p] = 0)
          /\ buffer[p] = Bytes(0, w) /\ received[p] = Bytes(0, r + f_pos[p])
      BY ContentFacts
    <3>2. f_pos[p] = 0 /\ r + 0 = r
      BY <1>2, <3>1
    <3>3. count \in Nat
      BY FilesAssumption
    <3> QED
      BY <3>1, <3>2, <3>3
  <2>2. k \in Nat /\ r + k <= w /\ r + k \in r .. w /\ r \in 0 .. w /\ r + k \in Nat
    <3>1. w - r \in Nat
      BY <2>1
    <3>2. k \in Nat /\ k <= w - r
      BY <2>1, <3>1, SmallerFits
    <3> HIDE DEF k
    <3> QED
      BY <2>1, <3>2
  <2>3. /\ received' = [received EXCEPT ![p] = received[p] \o Copied(p, count)]
        /\ read_pos' = [read_pos EXCEPT ![p] = r + Len(Copied(p, count))]
        /\ Copied(p, count) = SubSeq(buffer[p], r + 1, r + k)
        /\ UNCHANGED <<files, heap_ptr, buffer, write_pos, f_pos, sent>>
    BY <1>2, Zenon DEF pipe_read, Copied
  <2> HIDE DEF r, w, k
  <2>4. Copied(p, count) = Bytes(r, k)
    <3>1. SubSeq(Bytes(0, w), r + 1, r + k) = Bytes(r, (r + k) - r)
      BY <2>1, <2>2, BytesPart, Zenon
    <3>2. (r + k) - r = k
      BY <2>1, <2>2
    <3> QED
      BY <2>1, <2>3, <3>1, <3>2
  <2>5. Bytes(0, r) \o Bytes(r, k) = Bytes(0, r + k) /\ Bytes(0, r + k) \in Seq(Nat)
        /\ Len(Bytes(r, k)) = k
    <3>1. Bytes(0, r) \o Bytes(r, k) = Bytes(0, r + k)
      BY <2>1, <2>2, BytesAppend, Zenon
    <3>2. Bytes(0, r + k) \in Seq(Nat)
      BY <2>2, BytesSeq
    <3>3. Len(Bytes(r, k)) = k
      BY <2>1, <2>2, BytesSeq
    <3> QED
      BY <3>1, <3>2, <3>3
  <2>6. /\ received' = [received EXCEPT ![p] = Bytes(0, r + k)]
        /\ read_pos' = [read_pos EXCEPT ![p] = r + k]
    BY <2>1, <2>3, <2>4, <2>5, Zenon
  <2>7. /\ received' \in [Places -> Seq(Nat)] /\ read_pos' \in [Places -> Nat]
        /\ received'[p] = Bytes(0, r + k) /\ read_pos'[p] = r + k
        /\ \A n \in Places : n # p => received'[n] = received[n] /\ read_pos'[n] = read_pos[n]
    BY <2>2, <2>5, <2>6 DEF ContentInv
  <2>8. Contents(p)'
    <3>1. write_pos'[p] = w /\ f_pos'[p] = 0 /\ (r + k) + 0 = r + k
      BY <2>1, <2>2, <2>3 DEF w
    <3> QED
      BY <2>1, <2>2, <2>3, <2>7, <3>1, Zenon DEF Contents, ContentInv
  <2>9. ASSUME NEW n \in Places, n # p PROVE Contents(n)'
    BY <2>3, <2>7, <2>9 DEF ContentInv, Contents
  <2>10. ContentInv'
    BY <2>3, <2>7, <2>8, <2>9 DEF ContentInv
  <2> QED
    BY <2>3, <2>10 DEF UseInv
<1> QED
  BY <1>1, <1>2

LEMMA TextContent ==
  ASSUME TableInv, ContentInv, UseInv, NEW t \in procs, NEW fd \in Fds, NEW g \in Places,
         NEW count \in 0 .. MaxCount, NEW ok, files[t][fd] = Cpuinfo(g),
         proc_cpuinfo_read(g, count, ok), ~panic
  PROVE  ContentInv' /\ UseInv'
<1> DEFINE f == f_pos[g]
           k == Smaller(count, InfoSize - f)
           b == [j \in 1 .. k |-> f + j]
<1>1. /\ f \in Nat /\ f <= InfoSize /\ InfoSize \in Nat /\ count \in Nat
      /\ write_pos[g] = 0 /\ read_pos[g] = 0 /\ t \in Procs /\ heap_ptr \in Nat
      /\ received[g] = Bytes(0, read_pos[g] + f) /\ buffer[g] = Bytes(0, 0) /\ sent[g] = Bytes(0, 0)
  <2>1. write_pos[g] = 0 /\ t \in Procs /\ heap_ptr \in Nat /\ count \in Nat
    BY TableFacts, FilesAssumption DEF UseInv
  <2>2. /\ f \in Nat /\ f <= InfoSize /\ InfoSize \in Nat /\ read_pos[g] \in Nat
        /\ read_pos[g] <= write_pos[g] /\ received[g] = Bytes(0, read_pos[g] + f)
        /\ buffer[g] = Bytes(0, write_pos[g]) /\ sent[g] = Bytes(0, write_pos[g])
    BY ContentFacts
  <2>3. read_pos[g] = 0
    BY <2>1, <2>2
  <2> QED
    BY <2>1, <2>2, <2>3
<1>2. k \in Nat /\ f + k \in 0 .. InfoSize /\ f + k \in Nat /\ read_pos[g] + f = f
      /\ read_pos[g] + (f + k) = f + k
  <2>1. InfoSize - f \in Nat
    BY <1>1
  <2>2. k \in Nat /\ k <= InfoSize - f
    BY <1>1, <2>1, SmallerFits, Zenon
  <2> HIDE DEF k, f
  <2> QED
    BY <1>1, <2>2
<1>3. /\ f_pos' = [f_pos EXCEPT ![g] = f + k]
      /\ received' = [received EXCEPT ![g] = received[g] \o b]
      /\ UNCHANGED <<files, heap_ptr, buffer, read_pos, write_pos, sent>>
  BY DEF proc_cpuinfo_read, pipeVars
<1>4. b = Bytes(f, k)
  BY DEF Bytes
<1> HIDE DEF f, k, b
<1>5. Bytes(0, f) \o Bytes(f, k) = Bytes(0, f + k) /\ Bytes(0, f + k) \in Seq(Nat)
  BY <1>1, <1>2, BytesAppend, BytesSeq, Zenon
<1>6. received' = [received EXCEPT ![g] = Bytes(0, f + k)]
  BY <1>1, <1>2, <1>3, <1>4, <1>5, Zenon
<1>7. /\ received' \in [Places -> Seq(Nat)] /\ f_pos' \in [Places -> 0 .. InfoSize]
      /\ received'[g] = Bytes(0, f + k) /\ f_pos'[g] = f + k
      /\ \A n \in Places : n # g => received'[n] = received[n] /\ f_pos'[n] = f_pos[n]
  BY <1>2, <1>3, <1>5, <1>6, Zenon DEF ContentInv
<1>8. Contents(g)'
  <2>1. /\ write_pos'[g] = 0 /\ read_pos'[g] = 0 /\ buffer'[g] = Bytes(0, 0) /\ sent'[g] = Bytes(0, 0)
        /\ 0 + (f + k) = f + k /\ 0 <= 0
    BY <1>1, <1>2, <1>3
  <2> QED
    BY <1>7, <2>1 DEF Contents
<1>9. ASSUME NEW n \in Places, n # g PROVE Contents(n)'
  BY <1>3, <1>7, <1>9 DEF ContentInv, Contents
<1>10. ContentInv'
  BY <1>3, <1>7, <1>8, <1>9 DEF ContentInv
<1>11. UseInv'
  <2>1. Cpuinfo(g) \in OnHeap /\ Cpuinfo(g)[2] = g
    BY DEF Cpuinfo, OnHeap
  <2>2. g <= heap_ptr
    BY <1>1, <2>1 DEF TableInv
  <2>3. \A u \in Procs, gd \in Fds : files[u][gd] # WriteEnd(g)
    <3> SUFFICES ASSUME NEW u \in Procs, NEW gd \in Fds, files[u][gd] = WriteEnd(g) PROVE FALSE
      OBVIOUS
    <3>1. WriteEnd(g) \in OnHeap /\ ~Agree(Cpuinfo(g), WriteEnd(g))
      BY DEF Cpuinfo, WriteEnd, OnHeap, Agree
    <3> QED
      BY <1>1, <2>1, <3>1 DEF TableInv
  <2> QED
    <3>1. \A n \in Places : n > heap_ptr => n # g
      BY <1>1, <2>2 DEF Places
    <3>2. \A n \in Places : n # g => f_pos'[n] = f_pos[n]
      BY <1>7
    <3> QED
      BY <1>3, <2>3, <3>1, <3>2 DEF UseInv
<1> QED
  BY <1>10, <1>11

Calls == [pipe : {0} \cup Places, count : 0 .. MaxCount, ok : BOOLEAN]

\* The pipe and the arguments of a read that waits.
WaitInv ==
  /\ waiting \in [Procs -> Calls]
  /\ \A t \in Procs : waiting[t].pipe <= heap_ptr
  /\ \A t \in Procs \ procs : waiting[t] = NotWaiting

LEMMA WaitInit == Init => WaitInv
<1>1. NotWaiting \in Calls /\ NotWaiting.pipe <= 0
  BY FilesAssumption DEF NotWaiting, Calls
<1> QED
  BY <1>1 DEF Init, WaitInv

LEMMA ReadWaits ==
  ASSUME TableInv, WaitInv, NEW t \in procs, NEW p \in Places, NEW count \in 0 .. MaxCount,
         NEW ok \in BOOLEAN, p <= heap_ptr, pipe_read(t, p, count, ok), ~panic
  PROVE  WaitInv'
<1>1. /\ NotWaiting \in Calls
      /\ [pipe |-> p, count |-> count, ok |-> ok] \in Calls
  BY FilesAssumption DEF NotWaiting, Calls
<1>2. t \in Procs /\ procs' = procs /\ heap_ptr' = heap_ptr /\ heap_ptr \in Nat
  BY FilesAssumption DEF TableInv, pipe_read
<1>3. PICK w \in {NotWaiting, [pipe |-> p, count |-> count, ok |-> ok]} :
        waiting' = [waiting EXCEPT ![t] = w]
  BY DEF pipe_read
<1>4. w \in Calls /\ w.pipe <= heap_ptr
  <2>1. NotWaiting.pipe = 0 /\ [pipe |-> p, count |-> count, ok |-> ok].pipe = p
    BY DEF NotWaiting
  <2>2. 0 <= heap_ptr
    BY <1>2
  <2> QED
    BY <1>1, <1>3, <2>1, <2>2, Zenon
<1> QED
  BY <1>2, <1>3, <1>4 DEF WaitInv

StreamInv == TableInv /\ ContentInv /\ UseInv /\ WaitInv

LEMMA StreamNext == StreamInv /\ [Next]_vars => StreamInv'
<1> SUFFICES ASSUME StreamInv, [Next]_vars PROVE StreamInv'
  OBVIOUS
<1>0. TableInv /\ ContentInv /\ UseInv /\ WaitInv /\ TableInv' /\ OldOrNew
  BY TableNext DEF StreamInv
<1>1. ASSUME UNCHANGED <<pipeVars, f_pos, sent, received, waiting>>, procs \subseteq procs'
      PROVE  StreamInv'
  <2>1. ContentInv' /\ UseInv'
    BY <1>0, <1>1, TableOnly
  <2>2. WaitInv'
    <3>1. \A t \in Procs : waiting[t].pipe \in Nat
      BY <1>0 DEF WaitInv, Places, Calls
    <3>2. heap_ptr \in Nat /\ heap_ptr' \in Nat /\ heap_ptr <= heap_ptr'
      BY <1>0, FilesAssumption DEF TableInv, OldOrNew
    <3> QED
      BY <1>0, <1>1, <3>1, <3>2 DEF WaitInv
  <2> QED
    BY <1>0, <2>1, <2>2 DEF StreamInv
<1>2. CASE UNCHANGED vars
  BY <1>1, <1>2 DEF vars
<1>3. ASSUME NEW t \in procs, NEW p \in Places, NEW count \in 0 .. MaxCount,
             NEW ok \in BOOLEAN, p <= heap_ptr, pipe_read(t, p, count, ok)
      PROVE  StreamInv'
  <2>1. CASE panic
    BY <1>1, <2>1, Zenon DEF panic
  <2>2. CASE ~panic
    BY <1>0, <1>3, <2>2, ReadContent, ReadWaits, Zenon DEF StreamInv
  <2> QED
    BY <2>1, <2>2
<1>4. ASSUME NEW t \in procs, Waits(t), WaitingRead(t) PROVE StreamInv'
  <2>1. /\ waiting[t].pipe \in Places /\ waiting[t].count \in 0 .. MaxCount
        /\ waiting[t].pipe <= heap_ptr /\ waiting[t].ok \in BOOLEAN
    BY <1>0, <1>4 DEF WaitInv, Waits, TableInv, Calls
  <2> QED
    BY <1>3, <1>4, <2>1 DEF WaitingRead
<1>5. ASSUME NEW t \in procs, SystemCall(t) PROVE StreamInv'
  <2>1. ASSUME panic PROVE StreamInv'
    BY <1>1, <2>1 DEF panic
  <2>2. ASSUME NEW kind \in {"proc", "cpuinfo"}, NEW ok \in BOOLEAN, SysOpen(t, kind, ok)
        PROVE  StreamInv'
    BY <1>1, <2>1, <2>2 DEF SysOpen
  <2>3. ASSUME NEW ok \in BOOLEAN, SysPipe(t, ok) PROVE StreamInv'
    BY <1>1, <2>1, <2>3 DEF SysPipe
  <2>4. ASSUME NEW child \in Procs, SysFork(t, child) PROVE StreamInv'
    BY <1>1, <2>1, <2>4 DEF SysFork
  <2>5. ASSUME NEW fd \in Fds, SysClose(t, fd) PROVE StreamInv'
    BY <1>1, <2>5 DEF SysClose
  <2>6. ASSUME NEW fd \in Fds, NEW count \in 0 .. MaxCount, NEW ok \in BOOLEAN,
               SysWrite(t, fd, count, ok)
        PROVE  StreamInv'
    <3>1. ASSUME NEW p \in Places, files[t][fd] = WriteEnd(p), pipe_write(p, count, ok), ~panic
          PROVE  StreamInv'
      <4>1. ContentInv' /\ UseInv'
        BY <1>0, <3>1, WriteContent
      <4>2. WaitInv'
        BY <1>0, <3>1 DEF pipe_write, WaitInv
      <4> QED
        BY <1>0, <4>1, <4>2 DEF StreamInv
    <3> QED
      BY <2>1, <2>6, <3>1 DEF SysWrite, NoInode, TerminalFaults
  <2>7. ASSUME NEW fd \in Fds, NEW count \in 0 .. MaxCount, NEW ok \in BOOLEAN,
               SysRead(t, fd, count, ok)
        PROVE  StreamInv'
    <3>1. ASSUME NEW g \in Places, files[t][fd] = Cpuinfo(g), proc_cpuinfo_read(g, count, ok), ~panic
          PROVE  StreamInv'
      <4>1. ContentInv' /\ UseInv'
        BY <1>0, <3>1, TextContent
      <4>2. WaitInv'
        BY <1>0, <3>1 DEF proc_cpuinfo_read, WaitInv
      <4> QED
        BY <1>0, <4>1, <4>2 DEF StreamInv
    <3>2. ASSUME NEW p \in Places, files[t][fd] = ReadEnd(p), pipe_read(t, p, count, ok)
          PROVE  StreamInv'
      <4>1. ReadEnd(p) \in OnHeap /\ ReadEnd(p)[2] = p
        BY DEF ReadEnd, OnHeap
      <4>2. p <= heap_ptr
        BY <1>0, <3>2, <4>1 DEF TableInv
      <4> QED
        BY <1>3, <3>2, <4>2
    <3> QED
      BY <2>1, <2>7, <3>1, <3>2 DEF SysRead, NoInode, TerminalFaults
  <2>8. CASE TakePage(t)
    BY <1>1, <2>8, PageTable, Zenon
  <2> QED
    BY <1>5, <2>2, <2>3, <2>4, <2>5, <2>6, <2>7, <2>8, Zenon DEF SystemCall, OtherCall, PointerCall
<1> QED
  BY <1>2, <1>4, <1>5, Zenon DEF Next, SystemCall

LEMMA StreamInvariance == Spec => []StreamInv
<1>1. Init => StreamInv
  BY TableInit, ContentInit, WaitInit DEF StreamInv
<1> QED
  BY <1>1, StreamNext, PTL DEF Spec

\* No byte of a pipe or of a text is lost, repeated or reordered, for pipes and
\* counts of every size and any number of processes at both ends.
THEOREM StreamsCorrect == Spec => []StreamIntact
<1>1. StreamInv => StreamIntact
  BY ContentsIntact DEF StreamInv
<1> QED
  BY <1>1, StreamInvariance, PTL
-----------------------------------------------------------------------------
\* The only tables a call of u changes are its own and its child's, and what is
\* in them afterwards was in the caller's table, or is new.
LEMMA CallTables ==
  ASSUME TableInv, NEW u \in procs, SystemCall(u),
         NEW v \in procs', NEW fd \in Fds
  PROVE  \/ v \in procs /\ files'[v][fd] = files[v][fd]
         \/ files'[v][fd] \in {None, files[u][fd]}
         \/ Fresh(files'[v][fd])
<1>0. u \in Procs /\ heap_ptr \in Nat /\ HeapSize \in Nat /\ files \in [Procs -> [Fds -> FileSet]]
  BY TableFacts
<1>1. CASE procs' = procs /\ files' = files
  BY <1>1
<1>2. ASSUME NEW kind \in {"proc", "cpuinfo"}, ~Exhausted(1), procs' = procs,
             FreeFds(u) # {}, alloc_fd(u, <<kind, heap_ptr + 1>>)
      PROVE  (v \in procs /\ files'[v][fd] = files[v][fd]) \/ Fresh(files'[v][fd])
  <2> DEFINE f == <<kind, heap_ptr + 1>>
  <2>1. Lowest(FreeFds(u)) \in Fds
    BY <1>2, LowestIn DEF FreeFds
  <2>2. Fresh(f)
    BY <1>0, <1>2 DEF Fresh, OnHeap, Places, Exhausted
  <2>3. files' = [files EXCEPT ![u] = [files[u] EXCEPT ![Lowest(FreeFds(u))] = f]]
    BY <1>0, <1>2 DEF alloc_fd
  <2> HIDE DEF f
  <2>4. files'[v][fd] = files[v][fd] \/ files'[v][fd] = f
    BY <1>0, <1>2, <2>1, <2>3 DEF TableInv
  <2> QED
    BY <1>2, <2>2, <2>4
<1>3. ASSUME ~Exhausted(2), procs' = procs, files' = [files EXCEPT ![u] = Installed(u, heap_ptr + 1)]
      PROVE  (v \in procs /\ files'[v][fd] = files[v][fd]) \/ Fresh(files'[v][fd])
  <2> DEFINE p == heap_ptr + 1
  <2>1. p \in Places
    BY <1>0, <1>3 DEF Exhausted, Places
  <2>2. Fresh(ReadEnd(p)) /\ Fresh(WriteEnd(p))
    BY <1>0, <2>1 DEF Fresh, OnHeap, ReadEnd, WriteEnd
  <2>3. \/ Installed(u, p)[fd] = files[u][fd]
        \/ Installed(u, p)[fd] \in {ReadEnd(p), WriteEnd(p)}
    BY <2>1, InstalledRow
  <2>4. files'[v][fd] = IF v = u THEN Installed(u, p)[fd] ELSE files[v][fd]
    BY <1>0, <1>3 DEF TableInv
  <2> QED
    BY <1>3, <2>2, <2>3, <2>4
<1>4. ASSUME NEW child \in Procs, SysFork(u, child)
      PROVE  (v \in procs /\ files'[v][fd] = files[v][fd]) \/ files'[v][fd] = files[u][fd]
  BY <1>0, <1>4 DEF SysFork, TableInv, panic
<1>5. ASSUME NEW gd \in Fds, SysClose(u, gd)
      PROVE  (v \in procs /\ files'[v][fd] = files[v][fd]) \/ files'[v][fd] = None
  BY <1>0, <1>5 DEF SysClose, TableInv
<1>6. ASSUME NEW kind \in {"proc", "cpuinfo"}, NEW ok \in BOOLEAN, SysOpen(u, kind, ok) PROVE
        \/ procs' = procs /\ files' = files
        \/ ~Exhausted(1) /\ procs' = procs /\ FreeFds(u) # {} /\ alloc_fd(u, <<kind, heap_ptr + 1>>)
  BY <1>6 DEF SysOpen, panic
<1>7. ASSUME NEW ok \in BOOLEAN, SysPipe(u, ok) PROVE
        \/ procs' = procs /\ files' = files
        \/ /\ ~Exhausted(2) /\ procs' = procs
           /\ files' = [files EXCEPT ![u] = Installed(u, heap_ptr + 1)]
  BY <1>7 DEF SysPipe, panic
<1>8. ASSUME NEW gd \in Fds, NEW count \in 0 .. MaxCount, NEW ok \in BOOLEAN,
             SysWrite(u, gd, count, ok) \/ SysRead(u, gd, count, ok)
      PROVE  procs' = procs /\ files' = files
  BY <1>8, ReadWriteTable
<1>9. ASSUME TakePage(u) PROVE procs' = procs /\ files' = files
  BY <1>9, PageTable
<1> QED
  BY <1>1, <1>2, <1>3, <1>4, <1>5, <1>6, <1>7, <1>8, <1>9, Zenon
  DEF SystemCall, OtherCall, PointerCall

\* What a call of u does to the pipes and to the reads that wait.
LEMMA CallPipes ==
  ASSUME StreamInv, NEW u \in procs, SystemCall(u),
         NEW p \in Places, ~Holds(u, WriteEnd(p)), read_pos[p] = write_pos[p]
  PROVE  /\ read_pos'[p] = write_pos'[p]
         /\ \A v \in Procs : v # u => waiting'[v] = waiting[v]
<1>0. u \in Procs /\ ContentInv /\ WaitInv
  BY Zenon DEF StreamInv, TableInv
<1>1. ASSUME UNCHANGED <<pipeVars, waiting>> PROVE read_pos'[p] = write_pos'[p] /\ waiting' = waiting
  BY <1>1 DEF pipeVars
<1>2. ASSUME NEW q \in Places, NEW count \in 0 .. MaxCount, NEW ok, q # p, pipe_write(q, count, ok)
      PROVE  read_pos'[p] = write_pos'[p] /\ waiting' = waiting
  BY <1>0, <1>1, <1>2 DEF pipe_write, ContentInv, panic
<1>3. ASSUME NEW q \in Places, NEW count \in 0 .. MaxCount, NEW ok, pipe_read(u, q, count, ok)
      PROVE  /\ read_pos'[p] = write_pos'[p]
             /\ \A v \in Procs : v # u => waiting'[v] = waiting[v]
  <2>1. write_pos' = write_pos /\ (waiting' = waiting \/ \E w : waiting' = [waiting EXCEPT ![u] = w])
    BY <1>3, Zenon DEF pipe_read, panic, pipeVars
  <2>2. \A v \in Procs : v # u => waiting'[v] = waiting[v]
    <3>1. \E C : waiting \in [Procs -> C]
      BY <1>0, Zenon DEF WaitInv
    <3> QED
      BY <1>0, <2>1, <3>1
  <2>3. read_pos' = read_pos \/ (q # p /\ \E m : read_pos' = [read_pos EXCEPT ![q] = m])
    BY <1>3, Zenon DEF pipe_read, panic, pipeVars
  <2>4. read_pos'[p] = read_pos[p]
    <3>1. read_pos \in [Places -> Nat]
      BY <1>0, Zenon DEF ContentInv
    <3> QED
      BY <2>3, <3>1
  <2> QED
    BY <2>1, <2>2, <2>4
<1>4. ASSUME NEW fd \in Fds, NEW count \in 0 .. MaxCount, NEW ok, SysWrite(u, fd, count, ok)
      PROVE  read_pos'[p] = write_pos'[p] /\ waiting' = waiting
  <2>1. ASSUME NEW q \in Places, files[u][fd] = WriteEnd(q) PROVE q # p
    BY <2>1 DEF Holds
  <2> QED
    BY <1>1, <1>2, <1>4, <2>1, Zenon DEF SysWrite, NoInode, TerminalFaults, panic
<1>5. ASSUME NEW fd \in Fds, NEW count \in 0 .. MaxCount, NEW ok, SysRead(u, fd, count, ok)
      PROVE  /\ read_pos'[p] = write_pos'[p]
             /\ \A v \in Procs : v # u => waiting'[v] = waiting[v]
  BY <1>1, <1>3, <1>5, Zenon DEF SysRead, NoInode, TerminalFaults, panic, proc_cpuinfo_read
<1>6. ASSUME \/ \E kind \in {"proc", "cpuinfo"}, ok \in BOOLEAN : SysOpen(u, kind, ok)
             \/ \E ok \in BOOLEAN : SysPipe(u, ok)
             \/ TakePage(u)
             \/ \E child \in Procs : SysFork(u, child)
             \/ \E fd \in Fds : SysClose(u, fd)
      PROVE  UNCHANGED <<pipeVars, waiting>>
  BY <1>6 DEF SysOpen, SysPipe, SysFork, SysClose, TakePage, panic
<1> QED
  BY <1>1, <1>4, <1>5, <1>6, Zenon DEF SystemCall, OtherCall, PointerCall

\* A step leaves a drained pipe drained and its readers waiting: nobody who
\* runs holds its write end, and what they create is another pipe.
LEMMA WaitStep ==
  ASSUME StreamInv, [Next]_vars, NEW t \in procs, NEW p, p = waiting[t].pipe, Waits(t), Drained(p)
  PROVE  waiting'[t] = waiting[t] /\ Drained(p)'
<1>0. /\ TableInv /\ ContentInv /\ WaitInv /\ t \in Procs /\ procs \subseteq Procs
      /\ p \in Places /\ p # 0 /\ p <= heap_ptr /\ heap_ptr \in Nat /\ p \in Nat
  <2>1. TableInv /\ ContentInv /\ WaitInv
    BY DEF StreamInv
  <2>2. t \in Procs /\ procs \subseteq Procs /\ heap_ptr \in Nat
    BY <2>1, TableFacts
  <2>3. p \in {0} \cup Places /\ p # 0 /\ p <= heap_ptr
    BY <2>1, <2>2 DEF WaitInv, Waits, Calls
  <2> QED
    BY <2>1, <2>2, <2>3 DEF Places
<1>1. CASE UNCHANGED vars
  BY <1>1 DEF vars, pipeVars, Drained, Holds
<1>2. ASSUME NEW u \in procs, Waits(u), WaitingRead(u)
      PROVE  waiting'[t] = waiting[t] /\ Drained(p)'
  <2> DEFINE q == waiting[u].pipe
  <2>1. u \in Procs /\ q \in Places /\ UNCHANGED <<procs, files, write_pos>>
    <3>1. u \in Procs /\ q \in Places
      BY <1>0, <1>2 DEF WaitInv, Waits, Calls
    <3> QED
      BY <1>2, <3>1, Zenon DEF WaitingRead, pipe_read, pipeVars, panic
  <2>2. CASE read_pos[q] = write_pos[q]
    <3>1. /\ waiting' = [waiting EXCEPT ![u] = [pipe |-> q, count |-> waiting[u].count,
                                                ok |-> waiting[u].ok]]
          /\ read_pos' = read_pos
      BY <1>2, <2>2 DEF WaitingRead, pipe_read, pipeVars
    <3>2. waiting[u] = [pipe |-> q, count |-> waiting[u].count, ok |-> waiting[u].ok]
      BY <1>0, <2>1 DEF WaitInv, Calls
    <3>3. waiting' = waiting
      <4>1. waiting \in [Procs -> Calls]
        BY <1>0 DEF WaitInv
      <4> QED
        BY <2>1, <3>1, <3>2, <4>1
    <3> QED
      BY <2>1, <3>1, <3>3 DEF Drained, Holds
  <2>3. CASE read_pos[q] # write_pos[q]
    <3>1. q # p
      BY <2>3 DEF Drained
    <3>2. /\ \A v \in Procs : v # u => waiting'[v] = waiting[v]
          /\ read_pos'[p] = read_pos[p] /\ u # t
      <4>1. u # t
        BY <3>1
      <4>2. \/ waiting' = waiting /\ read_pos' = read_pos
            \/ /\ waiting' = [waiting EXCEPT ![u] = NotWaiting]
               /\ \E m : read_pos' = [read_pos EXCEPT ![q] = m]
        BY <1>2, <2>3, Zenon DEF WaitingRead, pipe_read, panic, pipeVars
      <4> QED
        BY <1>0, <2>1, <3>1, <4>1, <4>2 DEF WaitInv, ContentInv
    <3>3. ~Holds(u, WriteEnd(p))
      BY <1>2, <3>1 DEF Drained
    <3> QED
      BY <1>0, <2>1, <3>2, <3>3 DEF Drained, Holds
  <2> QED
    BY <2>2, <2>3
<1>3. ASSUME NEW u \in procs, ~Waits(u), SystemCall(u)
      PROVE  waiting'[t] = waiting[t] /\ Drained(p)'
  <2>1. u # t /\ ~Holds(u, WriteEnd(p)) /\ read_pos[p] = write_pos[p] /\ waiting[u].pipe # p
    BY <1>0, <1>3 DEF Waits, Drained
  <2>2. /\ read_pos'[p] = write_pos'[p]
        /\ \A v \in Procs : v # u => waiting'[v] = waiting[v]
    BY <1>0, <1>3, <2>1, CallPipes, Zenon
  <2>3. WriteEnd(p) # None /\ ~Fresh(WriteEnd(p))
    BY <1>0 DEF WriteEnd, None, Fresh
  <2>4. ASSUME NEW v \in procs', Holds(v, WriteEnd(p))' PROVE v \in procs /\ Holds(v, WriteEnd(p))
    <3>1. PICK fd \in Fds : files'[v][fd] = WriteEnd(p)
      BY <2>4 DEF Holds, WriteEnd
    <3>2. files[u][fd] # WriteEnd(p)
      BY <2>1 DEF Holds
    <3>3. v \in procs /\ files[v][fd] = WriteEnd(p)
      BY <1>0, <1>3, <2>3, <3>1, <3>2, CallTables
    <3> QED
      BY <3>3 DEF Holds
  <2>5. ASSUME NEW v \in procs', Holds(v, WriteEnd(p))' PROVE waiting'[v].pipe = p
    <3>1. v \in procs /\ Holds(v, WriteEnd(p)) /\ v # u /\ v \in Procs
      BY <1>0, <2>1, <2>4, <2>5
    <3> QED
      BY <2>2, <3>1 DEF Drained
  <2>6. Drained(p)'
    BY <2>2, <2>5 DEF Drained
  <2> QED
    BY <1>0, <2>1, <2>2, <2>6
<1> QED
  BY <1>1, <1>2, <1>3, Zenon DEF Next, SystemCall

\* A read of a drained pipe never returns, whatever the other processes do.
THEOREM WaitsCorrect == Spec => WaitsForever
<1>1. StreamInv /\ [Next]_vars =>
        [\A t \in procs : Waits(t) /\ Drained(waiting[t].pipe) =>
           waiting'[t] = waiting[t] /\ Drained(waiting[t].pipe)']_vars
  <2> SUFFICES ASSUME StreamInv, [Next]_vars, NEW t \in procs, Waits(t), Drained(waiting[t].pipe)
               PROVE  waiting'[t] = waiting[t] /\ Drained(waiting[t].pipe)'
    OBVIOUS
  <2>1. PICK p : p = waiting[t].pipe
    OBVIOUS
  <2>2. waiting'[t] = waiting[t] /\ Drained(p)'
    BY <2>1, WaitStep
  <2> QED
    BY <2>1, <2>2 DEF Drained
<1> QED
  BY <1>1, StreamInvariance, PTL DEF Spec, WaitsForever

\* A process never gets a read end alone, unless its table is full then.
THEOREM PipesCorrect == Spec => PipeWhole
<1>1. StreamInv /\ [Next]_vars =>
        [\A t \in procs, p \in Places :
           Holds(t, ReadEnd(p))' /\ ~Holds(t, ReadEnd(p)) =>
             Holds(t, WriteEnd(p))' \/ FreeFds(t)' = {}]_vars
  <2> SUFFICES ASSUME StreamInv, [Next]_vars, NEW t \in procs, NEW p \in Places,
                      Holds(t, ReadEnd(p))', ~Holds(t, ReadEnd(p))
               PROVE  Holds(t, WriteEnd(p))' \/ FreeFds(t)' = {}
    OBVIOUS
  <2>0. /\ TableInv /\ t \in Procs /\ heap_ptr \in Nat /\ HeapSize \in Nat
        /\ files \in [Procs -> [Fds -> FileSet]]
    BY TableFacts DEF StreamInv
  <2>1. PICK fd \in Fds : files'[t][fd] = ReadEnd(p) /\ files[t][fd] # ReadEnd(p)
    BY DEF Holds, ReadEnd
  <2>2. files'[t][fd] # files[t][fd] /\ ReadEnd(p) # None /\ ReadEnd(p)[1] = "read" /\ ReadEnd(p)[2] = p
    BY <2>1 DEF ReadEnd, None
  <2>3. ASSUME files' = files PROVE FALSE
    BY <2>2, <2>3
  <2>4. ASSUME NEW u \in procs, NEW ok \in BOOLEAN, SysPipe(u, ok)
        PROVE  Holds(t, WriteEnd(p))' \/ FreeFds(t)' = {}
    <3> DEFINE q == heap_ptr + 1
               row == Installed(u, q)
    <3>1. ~Exhausted(2) /\ files' = [files EXCEPT ![u] = row]
      BY <2>3, <2>4 DEF SysPipe, panic
    <3>2. u = t /\ files'[t] = row
      BY <2>0, <2>2, <3>1
    <3>3. q \in Places
      BY <2>0, <3>1 DEF Exhausted, Places
    <3>4. /\ row[fd] = files[t][fd] \/ row[fd] \in {ReadEnd(q), WriteEnd(q)}
          /\ \/ \A gd \in Fds : row[gd] # None
             \/ row = files[t]
             \/ \E gd \in Fds : row[gd] = WriteEnd(q)
      BY <3>2, <3>3, <2>0, InstalledRow
    <3> HIDE DEF row
    <3>5. p = q
      BY <2>1, <2>2, <3>2, <3>4 DEF ReadEnd, WriteEnd
    <3>6. row # files[t]
      BY <2>2, <3>2
    <3>7. (\A gd \in Fds : files'[t][gd] # None) \/ (\E gd \in Fds : files'[t][gd] = WriteEnd(p))
      BY <3>2, <3>4, <3>5, <3>6
    <3> QED
      BY <3>7 DEF Holds, FreeFds, WriteEnd, None
  <2>5. ASSUME NEW u \in procs, NEW kind \in {"proc", "cpuinfo"}, NEW ok \in BOOLEAN,
               SysOpen(u, kind, ok)
        PROVE  FALSE
    <3> DEFINE f == <<kind, heap_ptr + 1>>
    <3>1. FreeFds(u) # {} /\ files' = [files EXCEPT ![u][Lowest(FreeFds(u))] = f]
      BY <2>3, <2>5 DEF SysOpen, panic, alloc_fd
    <3>2. Lowest(FreeFds(u)) \in Fds /\ u \in Procs
      <4>1. FreeFds(u) \in SUBSET Fds /\ u \in Procs
        BY <2>0 DEF FreeFds, TableInv
      <4> QED
        BY <3>1, <4>1, LowestIn
    <3>3. files'[t][fd] \in {f, files[t][fd]}
      BY <2>0, <3>1, <3>2
    <3> QED
      BY <2>1, <2>2, <3>3 DEF ReadEnd
  <2>6. ASSUME NEW u \in procs, NEW child \in Procs, SysFork(u, child) PROVE FALSE
    <3>1. files' = [files EXCEPT ![child] = files[u]] /\ child # t
      BY <2>3, <2>6 DEF SysFork, panic
    <3> QED
      BY <2>0, <2>2, <3>1
  <2>7. ASSUME NEW u \in procs, NEW gd \in Fds, SysClose(u, gd) PROVE FALSE
    BY <2>0, <2>1, <2>2, <2>7 DEF SysClose, TableInv
  <2>8. ASSUME NEW u \in procs, NEW gd \in Fds, NEW count \in 0 .. MaxCount, NEW ok \in BOOLEAN,
               SysWrite(u, gd, count, ok) \/ SysRead(u, gd, count, ok)
        PROVE  FALSE
    BY <2>3, <2>8, ReadWriteTable
  <2>9. ASSUME NEW u \in procs, WaitingRead(u) \/ TakePage(u) PROVE FALSE
    BY <2>3, <2>9, PageTable, Zenon DEF WaitingRead, pipe_read, panic
  <2>10. CASE UNCHANGED vars
    BY <2>3, <2>10 DEF vars
  <2> QED
    BY <2>4, <2>5, <2>6, <2>7, <2>8, <2>9, <2>10, Zenon DEF Next, OtherCall, PointerCall
<1> QED
  BY <1>1, StreamInvariance, PTL DEF Spec, PipeWhole
=============================================================================
