------------------------------ MODULE PageSet ------------------------------
(***************************************************************************)
(* What the physical page allocator promises its callers: a set of free    *)
(* pages from which an allocation takes the lowest one, to which a release *)
(* returns one, and which halts the machine only when it is empty.         *)
(***************************************************************************)
EXTENDS Integers

CONSTANTS Pages,          \* the page frames the allocator manages
          Reserved        \* those it never hands out: the kernel image

VARIABLES free, panicked

vars == <<free, panicked>>

Init ==
  /\ free = Pages \ Reserved
  /\ panicked = FALSE

Lowest(S) == CHOOSE i \in S : \A j \in S : i <= j

Allocate ==
  /\ ~panicked
  /\ free # {}
  /\ free' = free \ {Lowest(free)}
  /\ UNCHANGED panicked

Exhausted ==
  /\ ~panicked
  /\ free = {}
  /\ panicked' = TRUE
  /\ UNCHANGED free

Release(i) ==
  /\ ~panicked
  /\ free' = free \cup {i}
  /\ UNCHANGED panicked

Next ==
  \/ Allocate
  \/ Exhausted
  \/ \E i \in Pages \ Reserved : Release(i)

Spec == Init /\ [][Next]_vars
=============================================================================
