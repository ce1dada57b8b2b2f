---------------------------- MODULE AddressSpace ----------------------------
(***************************************************************************)
(* Address spaces of user processes: src/arch/mm/init.c, the page fault    *)
(* handler of src/mm/memory.c, program loading in src/fs/exec.c and the    *)
(* shared pages of src/kernel/ipc.c.  System calls and faults enter by     *)
(* interrupt gates and run to the end with interrupts off: each is a step. *)
(* The process that takes it runs on its own tables (schedule switches cr3 *)
(* and current_pgd together; CR4.PGE is off, so the switch flushes global  *)
(* entries too).  No user page is ever freed, so alloc_page hands frames   *)
(* out in order, cleared.  Frames that hold page tables are left out, and  *)
(* a page has one value.  Low pages, by address: the text screen, which    *)
(* only the kernel touches, the text and the stack of the program, and one *)
(* page for every shared memory identifier.                                *)
(* The copy-on-write branch of handle_page_fault is left out: nothing sets *)
(* PTE_COW.  Operators named ..._bug are seeded faults for mutation runs.  *)
(***************************************************************************)
EXTENDS Integers, Sequences, FiniteSets

CONSTANTS
  Procs,
  First,              \* the process that runs init_task
  Values,             \* contents of a page, 0 among them
  NFrames,            \* free frames
  MAX_SHM_REGIONS

ASSUME AddressSpaceAssumption ==
  /\ First \in Procs
  /\ 0 \in Values /\ -1 \notin Values      \* -1 stands for a page that is not there
  /\ NFrames \in Nat \ {0} /\ MAX_SHM_REGIONS \in Nat

VARIABLES
  live,               \* processes that exist
  pt,                 \* pt[p][v]: the frame of page v, or Unmapped
  shm_pages,          \* task_struct.shm_pages[0 .. shm_count - 1]
  memory,             \* contents of the frames
  used,               \* frames handed out
  halted,             \* FALSE, or TRUE after a panic
  inherited           \* history: pages <<p, v>> that p has from a fork

vars == <<live, pt, shm_pages, memory, used, halted, inherited>>

Screen == 1
Text   == 2
Stack  == 3
Shm(i) == 3 + i
Pages  == 1 .. 3 + MAX_SHM_REGIONS

Device   == 0         \* the frame at 0xB8000
Unmapped == -1
Frames   == 1 .. NFrames

NoPages   == [v \in Pages |-> Unmapped]
Mapped(p) == {v \in Pages : pt[p][v] # Unmapped}

\* The tables exec_user_program and sys_execve build: the screen and the text.
Fresh(frame) == [NoPages EXCEPT ![Screen] = Device, ![Text] = frame]

\* init_task has run exec_user_program.
Init ==
  /\ live = {First}
  /\ pt = [p \in Procs |-> IF p = First THEN Fresh(1) ELSE NoPages]
  /\ shm_pages = [p \in Procs |-> << >>]
  /\ \E x \in Values : memory = [f \in Frames |-> IF f = 1 THEN x ELSE 0]
  /\ used = 1
  /\ halted = FALSE
  /\ inherited = {}
-----------------------------------------------------------------------------
Enough(n) == used + n <= NFrames

panic ==
  /\ halted' = TRUE
  /\ UNCHANGED <<live, pt, shm_pages, memory, used, inherited>>

\* A call that takes n frames stops the machine when they run out.
OutOfMemory(n) == ~Enough(n) /\ panic

\* arch_map_page with a frame from alloc_page.
MapFresh(p, v) ==
  /\ pt' = [pt EXCEPT ![p][v] = used + 1]
  /\ used' = used + 1

\* A user program stores to a page it has.
Store(p, v, x) ==
  /\ v \in Mapped(p) \ {Screen}
  /\ memory' = [memory EXCEPT ![pt[p][v]] = x]
  /\ UNCHANGED <<live, pt, shm_pages, used, halted, inherited>>

\* handle_page_fault: a fault on the stack maps a page, any other is fatal.
handle_page_fault(p, v) ==
  /\ v \notin Mapped(p)
  /\ \/ /\ v = Stack /\ Enough(1)
        /\ MapFresh(p, v)
        /\ UNCHANGED <<live, shm_pages, memory, halted, inherited>>
     \/ v = Stack /\ OutOfMemory(1)
     \/ v # Stack /\ panic

\* sys_execve from a file with image x.  It reads the path again, to name the
\* task, when the new tables are in place: in the new text; on the new stack,
\* which faults a page in; or in a page that is gone, which is fatal.  The
\* array shm_pages is kept.
sys_execve(p, x, path) ==
  /\ path \in Mapped(p) \ {Screen}
  /\ LET n == IF path = Stack THEN 2 ELSE 1 IN
       \/ /\ path \in {Text, Stack} /\ Enough(n)
          /\ pt' = [pt EXCEPT ![p] =
               [Fresh(used + 1) EXCEPT ![Stack] = IF path = Stack THEN used + 2 ELSE Unmapped]]
          /\ memory' = [memory EXCEPT ![used + 1] = x]
          /\ used' = used + n
          /\ inherited' = {e \in inherited : e[1] # p}
          /\ UNCHANGED <<live, shm_pages, halted>>
       \/ path \in {Text, Stack} /\ OutOfMemory(n)
       \/ path \notin {Text, Stack} /\ panic

clone_address_space_bug(p) == pt[p]

\* clone_address_space: a frame of its own for every page there is.
clone_address_space(p) ==
  [v \in Pages |-> IF v \in Mapped(p)
                   THEN used + Cardinality({u \in Mapped(p) : u <= v})
                   ELSE Unmapped]

\* What a copied frame holds; the contents of the screen do not matter.
CopyOf(p, f) ==
  LET v == CHOOSE u \in Pages : clone_address_space(p)[u] = f
  IN  IF v = Screen THEN 0 ELSE memory[pt[p][v]]

sys_fork(p, c) ==
  /\ c \in Procs \ live
  /\ LET n == Cardinality(Mapped(p)) IN
       \/ /\ Enough(n)
          /\ live' = live \cup {c}
          /\ pt' = [pt EXCEPT ![c] = clone_address_space(p)]
          /\ shm_pages' = [shm_pages EXCEPT ![c] = shm_pages[p]]
          /\ memory' = [f \in Frames |->
               IF \E u \in Mapped(p) : clone_address_space(p)[u] = f THEN CopyOf(p, f) ELSE memory[f]]
          /\ used' = used + n
          /\ inherited' = inherited \cup {<<c, v>> : v \in Mapped(p)}
          /\ UNCHANGED halted
       \/ OutOfMemory(n)
-----------------------------------------------------------------------------
sys_shmget(p) ==
  /\ Len(shm_pages[p]) < MAX_SHM_REGIONS
  /\ \/ /\ Enough(1)
        /\ shm_pages' = [shm_pages EXCEPT ![p] = Append(@, used + 1)]
        /\ used' = used + 1
        /\ UNCHANGED <<live, pt, memory, halted, inherited>>
     \/ OutOfMemory(1)

\* Identifiers count from 1 here.
sys_shmat(p, i) ==
  /\ i \in DOMAIN shm_pages[p]
  /\ pt' = [pt EXCEPT ![p][Shm(i)] = shm_pages[p][i]]
  /\ inherited' = inherited \ {<<p, Shm(i)>>}
  /\ UNCHANGED <<live, shm_pages, memory, used, halted>>
-----------------------------------------------------------------------------
Next ==
  /\ ~halted
  /\ \E p \in live :
       \/ \E v \in Pages, x \in Values : Store(p, v, x)
       \/ \E v \in Pages : handle_page_fault(p, v)
       \/ \E x \in Values, path \in Pages : sys_execve(p, x, path)
       \/ \E c \in Procs : sys_fork(p, c)
       \/ sys_shmget(p)
       \/ \E i \in 1 .. MAX_SHM_REGIONS : sys_shmat(p, i)

Spec == Init /\ [][Next]_vars
-----------------------------------------------------------------------------
\* The text and the stack of every process are a private memory, whatever
\* forks, faults, loads and shared pages come in between: clone_address_space
\* copies eagerly, and no frame is handed out twice.
Area(p, v) == IF pt[p][v] = Unmapped THEN Unmapped ELSE memory[pt[p][v]]

Private == INSTANCE ProcessMemory WITH
  Zero <- 0, None <- Unmapped,
  mem <- [p \in Procs |-> [text |-> Area(p, Text), stack |-> Area(p, Stack)]]

ImplementsMemory == Private!Spec

\* A process shares a frame, the screen or a shared page, exactly if it mapped
\* that page itself since its program was loaded.  What it has from a fork is
\* a copy only it can reach: the output of a forked child goes to a copy of
\* the screen, and its shared pages are shared again only after sys_shmat.
ForkUnshares ==
  \A p \in live : \A v \in Mapped(p) \ {Text, Stack} :
    LET shared == IF v = Screen THEN Device ELSE shm_pages[p][v - 3] IN
      IF <<p, v>> \in inherited
      THEN /\ pt[p][v] # shared
           /\ \A q \in live, u \in Pages : pt[q][u] = pt[p][v] => <<q, u>> = <<p, v>>
      ELSE pt[p][v] = shared
=============================================================================
