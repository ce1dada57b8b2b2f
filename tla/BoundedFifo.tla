---------------------------- MODULE BoundedFifo ----------------------------
(***************************************************************************)
(* What a character device promises its reader: a first-in first-out queue *)
(* that discards what arrives when it is full, and keeps what it accepted. *)
(***************************************************************************)
EXTENDS Naturals, Sequences

CONSTANTS
  Chars,
  Capacity,
  Nothing,       \* taken before the first character
  MaxBurst       \* how many characters one event may bring

VARIABLES
  queue,
  taken          \* the last character given to the reader

Init ==
  /\ queue = << >>
  /\ taken = Nothing

\* Each character of a burst is accepted if there is room for it.
Arrive ==
  \E n \in 1 .. MaxBurst : \E cs \in [1 .. n -> Chars] :
    LET room == Capacity - Len(queue) IN
    /\ queue' = queue \o SubSeq(cs, 1, IF n < room THEN n ELSE room)
    /\ UNCHANGED taken

Take ==
  /\ queue # << >>
  /\ taken' = Head(queue)
  /\ queue' = Tail(queue)

Next == Arrive \/ Take

Spec == Init /\ [][Next]_<<queue, taken>>
=============================================================================
