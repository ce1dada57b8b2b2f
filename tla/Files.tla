------------------------------- MODULE Files -------------------------------
(***************************************************************************)
(* Descriptor tables, pipes and procfs: the descriptor system calls of     *)
(* src/kernel/entry/syscall.c, sys_pipe, pipe_read and pipe_write of       *)
(* src/kernel/ipc.c, vfs_open, proc_cpuinfo_read, and the table fork       *)
(* copies.  A system call runs with interrupts off and without preemption, *)
(* except that a read of an empty pipe lets others run: each part is one   *)
(* step.  The pointer a call is given is used as it is: ok says whether    *)
(* what it points to is mapped, or on the stack, where TakePage stands for *)
(* the page the call may need.  A file is <<kind, n>>, where n is its      *)
(* place in the kernel heap, whose kfree does nothing.  Files on disk are  *)
(* in RelisFs.  The n-th byte of a pipe or of cpuinfo is the number n.     *)
(* Operators named ..._bug are seeded faults for the mutation runs.        *)
(***************************************************************************)
EXTENDS Integers, Sequences

CONSTANTS
  Procs,          \* processes
  First,          \* the process that exists first
  MAX_FDS,
  PipeSize,       \* the size of relis_pipe_t.buffer
  InfoSize,       \* the length of the text of cpuinfo
  HeapSize,       \* places left in the kernel heap: a file or a task takes
                  \* one, a pipe with its two ends two
  Frames,         \* free physical pages, a copied address space counting as one
  MaxCount        \* bound on the count argument of read and write

ASSUME FilesAssumption ==
  /\ First \in Procs
  /\ MAX_FDS \in Nat /\ MAX_FDS >= 3
  /\ {PipeSize, InfoSize, HeapSize, Frames, MaxCount} \subseteq Nat

VARIABLES
  procs,          \* the processes forked so far
  files,          \* task_struct.files
  heap_ptr,       \* places of the heap in use
  buffer, read_pos, write_pos,
  f_pos,          \* the position of each cpuinfo file
  waiting,        \* the arguments of a read that has called schedule()
  frames,         \* pages left
  halted,         \* the kernel has panicked
  wild,           \* history: the last call was given a pointer that is not ok
  sent, received  \* history: bytes written to and read from each file

pipeVars == <<buffer, read_pos, write_pos>>
machine  == <<frames, halted>>
vars     ==
  <<procs, files, heap_ptr, pipeVars, f_pos, waiting, machine, wild, sent, received>>

Fds    == 0 .. MAX_FDS - 1
Places == 1 .. HeapSize
None   == <<"none", 0>>
Stdin  == <<"stdin", 0>>
Stdout(n)   == <<"stdout", n>>
ReadEnd(p)  == <<"read", p>>
WriteEnd(p) == <<"write", p>>
Cpuinfo(f)  == <<"cpuinfo", f>>

task_setup_stdio ==
  [fd \in Fds |-> IF fd = 0 THEN Stdin ELSE IF fd \in {1, 2} THEN Stdout(fd) ELSE None]

NotWaiting == [pipe |-> 0, count |-> 0, ok |-> TRUE]

Init ==
  /\ procs = {First}
  /\ files = [t \in Procs |-> task_setup_stdio]
  /\ heap_ptr = 0
  /\ buffer = [p \in Places |-> << >>]
  /\ read_pos = [p \in Places |-> 0]
  /\ write_pos = [p \in Places |-> 0]
  /\ f_pos = [f \in Places |-> 0]
  /\ waiting = [t \in Procs |-> NotWaiting]
  /\ frames = Frames
  /\ halted = FALSE
  /\ wild = FALSE
  /\ sent = [p \in Places |-> << >>]
  /\ received = [p \in Places |-> << >>]
-----------------------------------------------------------------------------
\* kmalloc returns a null pointer.
Exhausted_bug(n) == heap_ptr + n >= HeapSize

Exhausted(n) == heap_ptr + n > HeapSize

\* The fatal page fault of handle_page_fault, or the end of alloc_page.
panic ==
  /\ halted' = TRUE
  /\ UNCHANGED <<procs, files, heap_ptr, pipeVars, f_pos, waiting, frames, sent, received>>

FreeFds(t)   == {fd \in Fds : files[t][fd] = None}
Lowest(S)    == CHOOSE i \in S : \A j \in S : i <= j

alloc_fd(t, f) == files' = [files EXCEPT ![t][Lowest(FreeFds(t))] = f]

\* Without a free descriptor the call fails, and the struct file is lost; when
\* the heap is exhausted vfs_open stores through a null pointer.
SysOpen(t, kind, ok) ==
  \/ (~ok \/ Exhausted(1)) /\ panic
  \/ /\ ok /\ ~Exhausted(1)
     /\ heap_ptr' = heap_ptr + 1
     /\ IF FreeFds(t) = {} THEN UNCHANGED files ELSE alloc_fd(t, <<kind, heap_ptr + 1>>)
     /\ UNCHANGED <<procs, pipeVars, f_pos, waiting, machine, sent, received>>

SysClose_bug(t, fd) ==
  /\ files[t][fd] # None
  /\ files' = [files EXCEPT ![t][fd] = None]
  /\ heap_ptr' = IF files[t][fd][1] = "cpuinfo" THEN files[t][fd][2] - 1 ELSE heap_ptr
  /\ UNCHANGED <<procs, pipeVars, f_pos, waiting, machine, sent, received>>

SysClose(t, fd) ==
  /\ files[t][fd] # None
  /\ files' = [files EXCEPT ![t][fd] = None]
  /\ UNCHANGED <<procs, heap_ptr, pipeVars, f_pos, waiting, machine, sent, received>>

\* Two passes over one loop: the first free descriptor gets the read end, the
\* next one the write end.  With a single free one the read end stays behind.
Installed_bug(t, p) ==
  LET free == FreeFds(t)
      rfd  == Lowest(free)
  IN  IF free = {} THEN files[t] ELSE [files[t] EXCEPT ![rfd] = ReadEnd(p)]

Installed(t, p) ==
  LET free == FreeFds(t)
      rfd  == Lowest(free)
      wfd  == Lowest(free \ {rfd})
  IN  IF free = {} THEN files[t]
      ELSE IF free = {rfd} THEN [files[t] EXCEPT ![rfd] = ReadEnd(p)]
      ELSE [files[t] EXCEPT ![rfd] = ReadEnd(p), ![wfd] = WriteEnd(p)]

TwoFree(t) == \E fd, gd \in FreeFds(t) : fd # gd

\* None of the five results of kmalloc is checked.  Only a call that got both
\* descriptors stores them.
SysPipe(t, ok) ==
  \/ (Exhausted(2) \/ (~ok /\ TwoFree(t))) /\ panic
  \/ /\ ~Exhausted(2) /\ (ok \/ ~TwoFree(t))
     /\ heap_ptr' = heap_ptr + 2
     /\ files' = [files EXCEPT ![t] = Installed(t, heap_ptr + 1)]
     /\ UNCHANGED <<procs, pipeVars, f_pos, waiting, machine, sent, received>>

\* Fork does check its kmalloc, and fails; clone_address_space needs pages.
SysFork(t, child) ==
  /\ child \notin procs
  /\ ~Exhausted(1)
  /\ \/ frames = 0 /\ panic
     \/ /\ frames > 0 /\ frames' = frames - 1
        /\ heap_ptr' = heap_ptr + 1
        /\ procs' = procs \cup {child}
        /\ files' = [files EXCEPT ![child] = files[t]]
        /\ UNCHANGED <<pipeVars, f_pos, waiting, halted, sent, received>>

\* A page for the stack in handle_page_fault, or for sys_shmget.
TakePage(t) ==
  \/ frames = 0 /\ panic
  \/ /\ frames > 0 /\ frames' = frames - 1
     /\ UNCHANGED <<procs, files, heap_ptr, pipeVars, f_pos, waiting, halted, sent, received>>
-----------------------------------------------------------------------------
Smaller(m, n) == IF m < n THEN m ELSE n

\* The buffer is never rewound: what has been read is not used again.
Room(p) == PipeSize - write_pos[p]

\* kmemcpy of n bytes to or from the caller's memory.
Faults(n, ok) == n > 0 /\ ~ok

\* Bytes go to write_pos and after it; what is beyond is not initialised.
pipe_write(p, count, ok) ==
  LET to_copy == Smaller(count, Room(p))
      bytes   == [i \in 1 .. to_copy |-> Len(sent[p]) + i]
  IN
  \/ Faults(to_copy, ok) /\ panic
  \/ /\ ~Faults(to_copy, ok)
     /\ buffer' = [buffer EXCEPT ![p] = SubSeq(@, 1, write_pos[p]) \o bytes]
     /\ write_pos' = [write_pos EXCEPT ![p] = @ + to_copy]
     /\ sent' = [sent EXCEPT ![p] = @ \o bytes]
     /\ UNCHANGED <<procs, files, heap_ptr, read_pos, f_pos, waiting, machine, received>>

Copied_bug(p, count) == SubSeq(buffer[p], 1, Smaller(count, write_pos[p] - read_pos[p]))

Copied(p, count) ==
  SubSeq(buffer[p], read_pos[p] + 1,
         read_pos[p] + Smaller(count, write_pos[p] - read_pos[p]))

\* An empty pipe makes the reader yield, however few bytes it asked for.
pipe_read(t, p, count, ok) ==
  \/ /\ read_pos[p] = write_pos[p]
     /\ waiting' = [waiting EXCEPT ![t] = [pipe |-> p, count |-> count, ok |-> ok]]
     /\ UNCHANGED <<procs, files, heap_ptr, pipeVars, f_pos, machine, sent, received>>
  \/ read_pos[p] # write_pos[p] /\ Faults(count, ok) /\ panic
  \/ /\ read_pos[p] # write_pos[p] /\ ~Faults(count, ok)
     /\ received' = [received EXCEPT ![p] = @ \o Copied(p, count)]
     /\ read_pos' = [read_pos EXCEPT ![p] = @ + Len(Copied(p, count))]
     /\ waiting' = [waiting EXCEPT ![t] = NotWaiting]
     /\ UNCHANGED <<procs, files, heap_ptr, buffer, write_pos, f_pos, machine, sent>>

\* At the end of the text the count is 0.
proc_cpuinfo_read(f, count, ok) ==
  LET to_copy == Smaller(count, InfoSize - f_pos[f]) IN
  \/ Faults(to_copy, ok) /\ panic
  \/ /\ ~Faults(to_copy, ok)
     /\ f_pos' = [f_pos EXCEPT ![f] = @ + to_copy]
     /\ received' = [received EXCEPT ![f] = @ \o [i \in 1 .. to_copy |-> f_pos[f] + i]]
     /\ UNCHANGED <<procs, files, heap_ptr, pipeVars, waiting, machine, sent>>

\* The directory /proc has no inode: SYS_READ and SYS_WRITE follow the pointer.
NoInode(t, fd) == files[t][fd][1] = "proc" /\ panic

\* stdin_read stores a character when a key comes, stdout_write prints from the
\* memory of the caller (see Keyboard and Terminal).
TerminalFaults(t, fd, kind, count, ok) ==
  files[t][fd][1] = kind /\ Faults(count, ok) /\ panic

SysWrite_bug(t, fd, count, ok) ==
  \/ NoInode(t, fd)
  \/ TerminalFaults(t, fd, "stdout", count, ok)
  \/ \E p \in Places : files[t][fd] \in {ReadEnd(p), WriteEnd(p)} /\ pipe_write(p, count, ok)

SysWrite(t, fd, count, ok) ==
  \/ NoInode(t, fd)
  \/ TerminalFaults(t, fd, "stdout", count, ok)
  \/ \E p \in Places : files[t][fd] = WriteEnd(p) /\ pipe_write(p, count, ok)

SysRead(t, fd, count, ok) ==
  \/ NoInode(t, fd)
  \/ TerminalFaults(t, fd, "stdin", count, ok)
  \/ \E p \in Places : files[t][fd] = ReadEnd(p) /\ pipe_read(t, p, count, ok)
  \/ \E f \in Places : files[t][fd] = Cpuinfo(f) /\ proc_cpuinfo_read(f, count, ok)

\* A waiting read looks again when its process is scheduled.
WaitingRead(t) ==
  /\ pipe_read(t, waiting[t].pipe, waiting[t].count, waiting[t].ok)
  /\ wild' = ~waiting[t].ok

Waits(t) == waiting[t].pipe # 0

\* The calls that take a pointer, and the others.
PointerCall(t, ok) ==
  /\ \/ \E kind \in {"proc", "cpuinfo"} : SysOpen(t, kind, ok)
     \/ SysPipe(t, ok)
     \/ \E fd \in Fds, count \in 0 .. MaxCount :
          SysWrite(t, fd, count, ok) \/ SysRead(t, fd, count, ok)
  /\ wild' = ~ok

OtherCall(t) ==
  /\ \/ \E child \in Procs : SysFork(t, child)
     \/ \E fd \in Fds : SysClose(t, fd)
     \/ TakePage(t)
  /\ wild' = FALSE

Next ==
  /\ ~halted
  /\ \E t \in procs :
       \/ Waits(t) /\ WaitingRead(t)
       \/ ~Waits(t) /\ (OtherCall(t) \/ \E ok \in BOOLEAN : PointerCall(t, ok))

Spec == Init /\ [][Next]_vars
-----------------------------------------------------------------------------
\* What readers got, followed by what is still in the buffer, is what writers
\* were told was written: no byte is lost, repeated or reordered, whichever
\* processes share the two ends and however they cut their reads and writes.
\* Readers that share a cpuinfo file get its text once between them.
StreamIntact ==
  \A n \in Places :
    \/ received[n] \o SubSeq(buffer[n], read_pos[n] + 1, write_pos[n]) = sent[n]
    \/ sent[n] = << >> /\ received[n] = [i \in 1 .. f_pos[n] |-> i]

\* Two descriptors name the same file only if fork copied one from the other, so
\* they have the same number: close releases a file that others still use, and
\* this is harmless only because kfree does nothing.
SharedByForkOnly ==
  \A t, u \in procs, fd, gd \in Fds :
    files[t][fd] # None /\ files[t][fd] = files[u][gd] => fd = gd

Holds(t, f) == \E fd \in Fds : files[t][fd] = f

\* A sys_pipe that fails half way leaves a read end without its write end only
\* in a table that is then full; otherwise the caller has both ends.
PipeWhole ==
  [][\A t \in procs, p \in Places :
       Holds(t, ReadEnd(p))' /\ ~Holds(t, ReadEnd(p)) =>
         Holds(t, WriteEnd(p))' \/ FreeFds(t)' = {}]_vars

\* Nobody who could write to the empty pipe p is left running.
Drained(p) ==
  /\ read_pos[p] = write_pos[p]
  /\ \A t \in procs : Holds(t, WriteEnd(p)) => waiting[t].pipe = p

\* There is no end of file: a process that reads an empty pipe which only waiting
\* readers, or nobody, can write to waits for ever, even for 0 bytes, and no
\* close or fork of the others ends its wait.
WaitsForever ==
  [][\A t \in procs : Waits(t) /\ Drained(waiting[t].pipe) =>
       waiting'[t] = waiting[t] /\ Drained(waiting[t].pipe)']_vars

\* The kernel panics in these calls only when the heap cannot hold another pipe,
\* when the pages are used up, when somebody has opened /proc, which has no inode,
\* or when the very call that panics, be it a read that waited, was given a bad
\* pointer: no call with a good pointer is turned into a panic by what other
\* processes close, fork, read or write meanwhile.
PanicCause ==
  halted => \/ heap_ptr + 2 > HeapSize
            \/ frames = 0
            \/ \E t \in procs, fd \in Fds : files[t][fd][1] = "proc"
            \/ wild
=============================================================================
