--------------------------- MODULE ProcessMemory ---------------------------
(***************************************************************************)
(* What user programs are promised of their text and stack: a memory of    *)
(* their own.  Nobody else's store changes it, a fork copies it, and a new *)
(* program starts from its image and an empty stack.                       *)
(***************************************************************************)
CONSTANTS Procs, First, Values, Zero, None

VARIABLES
  live,           \* processes that exist
  mem             \* mem[p].text and mem[p].stack; None where there is no page

vars == <<live, mem>>

Nothing == [text |-> None, stack |-> None]

Init ==
  /\ live = {First}
  /\ \E x \in Values : mem = [p \in Procs |->
       IF p = First THEN [text |-> x, stack |-> None] ELSE Nothing]

Store(p, area, x) ==
  /\ mem[p][area] # None
  /\ mem' = [mem EXCEPT ![p][area] = x]
  /\ UNCHANGED live

GrowStack(p) ==
  /\ mem[p].stack = None
  /\ mem' = [mem EXCEPT ![p].stack = Zero]
  /\ UNCHANGED live

Load(p, image, stack) ==
  /\ mem' = [mem EXCEPT ![p] = [text |-> image, stack |-> stack]]
  /\ UNCHANGED live

Fork(p, c) ==
  /\ c \notin live
  /\ live' = live \cup {c}
  /\ mem' = [mem EXCEPT ![c] = mem[p]]

Next ==
  \E p \in live :
    \/ \E area \in {"text", "stack"}, x \in Values : Store(p, area, x)
    \/ GrowStack(p)
    \/ \E x \in Values, s \in {None, Zero} : Load(p, x, s)
    \/ \E c \in Procs : Fork(p, c)

Spec == Init /\ [][Next]_vars
=============================================================================
