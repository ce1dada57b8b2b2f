-------------------------------- MODULE Loops -------------------------------
(***************************************************************************)
(* The loops of the algorithms, on sequences: SequencesExt has the same    *)
(* operators, but the modules it extends burden every step of a proof.     *)
(***************************************************************************)
EXTENDS Integers, Sequences, FiniteSetsExt

\* A loop that carries one value over the elements of s, first to last.
FoldLeft(body(_, _), start, s) ==
  MapThenFoldSet(LAMBDA e, value : body(value, e), start, LAMBDA i : s[i], Max, DOMAIN s)

\* A loop that stops at the first element that passes a test: its place, or 0.
SelectInSeq(s, Test(_)) ==
  LET places == {i \in 1 .. Len(s) : Test(s[i])}
  IN  IF places = {} THEN 0 ELSE Min(places)

Reverse(s) == [i \in 1 .. Len(s) |-> s[Len(s) + 1 - i]]
=============================================================================
