----------------------------- MODULE RingProofs ----------------------------
(***************************************************************************)
(* The two rings, the characters of the keyboard and the packets of the    *)
(* network card, for every size: both are the bounded queue of BoundedFifo *)
(* however producer and consumer interleave.                               *)
(***************************************************************************)
EXTENDS Keyboard, Nic, SequenceTheorems, TLAPS

\* Steps from f to w around a ring of n slots; n entries of a ring from f on.
Dist(f, w, size) == (w - f) % size
Entries(a, f, n, size) == [k \in 1 .. n |-> a[(f + k - 1) % size]]
Filled(a, f, n, size, T) == \A k \in 1 .. n : a[(f + k - 1) % size] \in T

LEMMA DistFacts ==
  ASSUME NEW N \in Nat \ {0, 1}, NEW f \in 0 .. N - 1, NEW w \in 0 .. N - 1
  PROVE  /\ Dist(f, w, N) \in 0 .. N - 1
         /\ Dist(f, w, N) = 0 <=> f = w
         /\ (f + Dist(f, w, N)) % N = w
         /\ (w + 1) % N \in 0 .. N - 1
         /\ (w + 1) % N # w
         /\ (w + 1) % N = f <=> Dist(f, w, N) = N - 1
         /\ (w + 1) % N # f => Dist(f, (w + 1) % N, N) = Dist(f, w, N) + 1
         /\ f # w => Dist((f + 1) % N, w, N) = Dist(f, w, N) - 1
         /\ f = w => Dist((f + 1) % N, w, N) = N - 1
<1>1. Dist(f, w, N) = IF w >= f THEN w - f ELSE w - f + N
  BY DEF Dist
<1>2. (w + 1) % N = (IF w = N - 1 THEN 0 ELSE w + 1) /\ (f + 1) % N = (IF f = N - 1 THEN 0 ELSE f + 1)
  OBVIOUS
<1>3. \A g, x \in 0 .. N - 1 : Dist(g, x, N) = IF x >= g THEN x - g ELSE x - g + N
  BY DEF Dist
<1>4. (f + Dist(f, w, N)) % N = w
  <2>1. CASE w >= f
    <3>1. f + Dist(f, w, N) = w
      BY <1>1, <2>1
    <3> QED
      BY <3>1
  <2>2. CASE w < f
    <3>1. f + Dist(f, w, N) = w + N
      BY <1>1, <2>2
    <3>2. (w + N) % N = w
      OBVIOUS
    <3> QED
      BY <3>1, <3>2
  <2> QED
    BY <2>1, <2>2
<1>5. Dist(f, w, N) \in 0 .. N - 1 /\ (Dist(f, w, N) = 0 <=> f = w)
  BY <1>1
<1>6. (w + 1) % N \in 0 .. N - 1 /\ (w + 1) % N # w /\ ((w + 1) % N = f <=> Dist(f, w, N) = N - 1)
  BY <1>1, <1>2
<1>7. ASSUME (w + 1) % N # f PROVE Dist(f, (w + 1) % N, N) = Dist(f, w, N) + 1
  <2> DEFINE x == (w + 1) % N
  <2>1. x \in 0 .. N - 1 /\ x = (IF w = N - 1 THEN 0 ELSE w + 1) /\ x # f
    BY <1>2, <1>6, <1>7
  <2> HIDE DEF x
  <2>2. Dist(f, x, N) = IF x >= f THEN x - f ELSE x - f + N
    BY <1>3, <2>1
  <2>3. Dist(f, x, N) = Dist(f, w, N) + 1
    BY <1>1, <2>1, <2>2
  <2> QED
    BY <2>3 DEF x
<1>8. /\ f # w => Dist((f + 1) % N, w, N) = Dist(f, w, N) - 1
      /\ f = w => Dist((f + 1) % N, w, N) = N - 1
  <2> DEFINE g == (f + 1) % N
  <2>1. g \in 0 .. N - 1 /\ g = (IF f = N - 1 THEN 0 ELSE f + 1)
    BY <1>2
  <2> HIDE DEF g
  <2>2. Dist(g, w, N) = IF w >= g THEN w - g ELSE w - g + N
    BY <1>3, <2>1
  <2>3. /\ f # w => Dist(g, w, N) = Dist(f, w, N) - 1
        /\ f = w => Dist(g, w, N) = N - 1
    BY <1>1, <2>1, <2>2
  <2> QED
    BY <2>3 DEF g
<1> QED
  BY <1>4, <1>5, <1>6, <1>7, <1>8

\* The slots of a ring, counted from f, are different.
LEMMA SlotFacts ==
  ASSUME NEW N \in Nat \ {0, 1}, NEW f \in 0 .. N - 1
  PROVE  /\ \A k \in 1 .. N : (f + k - 1) % N \in 0 .. N - 1
         /\ \A k \in 1 .. N, m \in 0 .. N - 1 : (f + k - 1) % N = (f + m) % N => k = m + 1
         /\ \A m \in 0 .. N - 1 : (f + m) % N \in 0 .. N - 1
         /\ f % N = f
<1>1. \A m \in 0 .. N - 1 : (f + m) % N = IF f + m < N THEN f + m ELSE f + m - N
  OBVIOUS
<1>2. \A k \in 1 .. N : (f + k - 1) % N = IF f + k - 1 < N THEN f + k - 1 ELSE f + k - 1 - N
  OBVIOUS
<1>3. \A m \in 0 .. N - 1 : (f + m) % N \in 0 .. N - 1
  BY <1>1
<1>4. \A k \in 1 .. N : (f + k - 1) % N \in 0 .. N - 1
  BY <1>2
<1>5. ASSUME NEW k \in 1 .. N, NEW m \in 0 .. N - 1, (f + k - 1) % N = (f + m) % N PROVE k = m + 1
  <2>1. (IF f + k - 1 < N THEN f + k - 1 ELSE f + k - 1 - N) = (IF f + m < N THEN f + m ELSE f + m - N)
    BY <1>1, <1>2, <1>5
  <2> QED
    BY <2>1
<1>6. f % N = f
  OBVIOUS
<1> QED
  BY <1>3, <1>4, <1>5, <1>6

LEMMA SlotShift ==
  ASSUME NEW N \in Nat \ {0, 1}, NEW f \in 0 .. N - 1, NEW g, g = (f + 1) % N, NEW k \in 1 .. N - 1
  PROVE  (g + k - 1) % N = (f + k) % N
<1>1. g = (IF f = N - 1 THEN 0 ELSE f + 1) /\ g \in 0 .. N - 1
  OBVIOUS
<1>2. (f + k) % N = IF f + k < N THEN f + k ELSE f + k - N
  OBVIOUS
<1>3. (g + k - 1) % N = IF g + k - 1 < N THEN g + k - 1 ELSE g + k - 1 - N
  BY <1>1
<1> QED
  BY <1>1, <1>2, <1>3

LEMMA EntriesSeq ==
  ASSUME NEW n \in Nat, NEW f, NEW size, NEW a, NEW T,
         Filled(a, f, n, size, T)
  PROVE  /\ Entries(a, f, n, size) \in Seq(T)
         /\ Len(Entries(a, f, n, size)) = n
         /\ \A k \in 1 .. n : Entries(a, f, n, size)[k] = a[(f + k - 1) % size]
<1> DEFINE e == Entries(a, f, n, size)
<1>1. e \in [1 .. n -> T] /\ \A k \in 1 .. n : e[k] = a[(f + k - 1) % size]
  BY DEF Entries, Filled
<1> HIDE DEF e
<1>2. e \in Seq(T) /\ Len(e) = n
  BY <1>1
<1> QED
  BY <1>1, <1>2 DEF e

\* Writing the slot after the last entry adds an entry.
LEMMA EntriesAppend ==
  ASSUME NEW N \in Nat \ {0, 1}, NEW f \in 0 .. N - 1, NEW n \in 0 .. N - 1,
         NEW S, NEW a \in [0 .. N - 1 -> S], NEW x \in S, NEW T,
         Filled(a, f, n, N, T), x \in T
  PROVE  LET b == [a EXCEPT ![(f + n) % N] = x] IN
         /\ Entries(b, f, n + 1, N) = Append(Entries(a, f, n, N), x)
         /\ Filled(b, f, n + 1, N, T)
<1> DEFINE w == (f + n) % N
           b == [a EXCEPT ![w] = x]
           e == Entries(a, f, n, N)
           d == Entries(b, f, n + 1, N)
<1>0. /\ \A k \in 1 .. N : (f + k - 1) % N \in 0 .. N - 1
      /\ \A k \in 1 .. N, m \in 0 .. N - 1 : (f + k - 1) % N = (f + m) % N => k = m + 1
  BY SlotFacts, Zenon
<1>1. w \in 0 .. N - 1 /\ (f + (n + 1) - 1) % N = w
  BY SlotFacts
<1>2. \A k \in 1 .. n : (f + k - 1) % N \in 0 .. N - 1 /\ (f + k - 1) % N # w
  <2> TAKE k \in 1 .. n
  <2>1. k \in 1 .. N /\ k # n + 1
    OBVIOUS
  <2> QED
    BY <1>0, <2>1, Zenon
<1> HIDE DEF w
<1>3. \A k \in 1 .. n : b[(f + k - 1) % N] = a[(f + k - 1) % N]
  BY <1>2, Zenon
<1>4. b[(f + (n + 1) - 1) % N] = x
  BY <1>1
<1> HIDE DEF b
<1>5. \A k \in 1 .. n + 1 : k \in 1 .. n \/ k = n + 1
  OBVIOUS
<1>6. Filled(b, f, n + 1, N, T)
  BY <1>3, <1>4, <1>5, Zenon DEF Filled
<1>7. n \in Nat /\ n + 1 \in Nat
  OBVIOUS
<1>8. /\ e \in Seq(T) /\ Len(e) = n /\ \A k \in 1 .. n : e[k] = a[(f + k - 1) % N]
      /\ d \in Seq(T) /\ Len(d) = n + 1 /\ \A k \in 1 .. n + 1 : d[k] = b[(f + k - 1) % N]
  <2> DEFINE m == n + 1
  <2>1. m \in Nat /\ Filled(b, f, m, N, T)
    BY <1>6, <1>7
  <2> HIDE DEF m
  <2>2. /\ Entries(b, f, m, N) \in Seq(T) /\ Len(Entries(b, f, m, N)) = m
        /\ \A k \in 1 .. m : Entries(b, f, m, N)[k] = b[(f + k - 1) % N]
    BY <2>1, EntriesSeq
  <2>3. e \in Seq(T) /\ Len(e) = n /\ \A k \in 1 .. n : e[k] = a[(f + k - 1) % N]
    BY <1>7, EntriesSeq
  <2> QED
    BY <2>2, <2>3 DEF m
<1> HIDE DEF d, e
<1>9. /\ Append(e, x) \in Seq(T) /\ Len(Append(e, x)) = n + 1
      /\ \A k \in 1 .. n : Append(e, x)[k] = e[k]
      /\ Append(e, x)[n + 1] = x
  BY <1>8, AppendProperties
<1>10. \A k \in 1 .. n + 1 : d[k] = Append(e, x)[k]
  <2>1. \A k \in 1 .. n : d[k] = Append(e, x)[k]
    <3> TAKE k \in 1 .. n
    <3>1. k \in 1 .. n + 1
      OBVIOUS
    <3> QED
      BY <1>3, <1>8, <1>9, <3>1, Zenon
  <2>2. d[n + 1] = Append(e, x)[n + 1]
    <3>1. n + 1 \in 1 .. n + 1
      OBVIOUS
    <3>2. d[n + 1] = b[(f + (n + 1) - 1) % N]
      BY <1>8, <3>1
    <3> QED
      BY <1>4, <1>9, <3>2
  <2> QED
    BY <1>5, <2>1, <2>2
<1>11. d = Append(e, x)
  BY <1>8, <1>9, <1>10, SeqEqual
<1> QED
  BY <1>6, <1>11, Zenon DEF b, d, e, w

\* Moving the start over an entry removes the entry.
LEMMA EntriesTail ==
  ASSUME NEW N \in Nat \ {0, 1}, NEW f \in 0 .. N - 1, NEW n \in 1 .. N - 1, NEW a, NEW T,
         Filled(a, f, n, N, T)
  PROVE  /\ Entries(a, f, n, N) # << >>
         /\ Entries(a, (f + 1) % N, n - 1, N) = Tail(Entries(a, f, n, N))
         /\ a[f] = Head(Entries(a, f, n, N))
         /\ Filled(a, (f + 1) % N, n - 1, N, T)
<1> DEFINE e == Entries(a, f, n, N)
           g == (f + 1) % N
           d == Entries(a, g, n - 1, N)
<1>0. n \in Nat /\ n - 1 \in Nat /\ \A k \in 1 .. n - 1 : k \in 1 .. N - 1
  OBVIOUS
<1>1. e \in Seq(T) /\ Len(e) = n /\ \A k \in 1 .. n : e[k] = a[(f + k - 1) % N]
  BY <1>0, EntriesSeq
<1>2. ASSUME NEW k \in 1 .. n - 1 PROVE (g + k - 1) % N = (f + k) % N
  <2>1. k \in 1 .. N - 1
    OBVIOUS
  <2> QED
    BY <2>1, SlotShift, Zenon
<1>3. \A k \in 1 .. n - 1 : e[k + 1] = a[(f + k) % N]
  <2> TAKE k \in 1 .. n - 1
  <2>1. k + 1 \in 1 .. n /\ f + (k + 1) - 1 = f + k
    OBVIOUS
  <2>2. e[k + 1] = a[(f + (k + 1) - 1) % N]
    BY <1>1, <2>1
  <2> QED
    BY <2>1, <2>2
<1>4. e[1] = a[f]
  <2>1. 1 \in 1 .. n /\ f + 1 - 1 = f /\ f % N = f
    OBVIOUS
  <2>2. e[1] = a[(f + 1 - 1) % N]
    BY <1>1, <2>1
  <2> QED
    BY <2>1, <2>2
<1>5. \A k \in 1 .. n - 1 : e[k + 1] \in T
  <2> TAKE k \in 1 .. n - 1
  <2>1. k + 1 \in 1 .. Len(e)
    BY <1>1
  <2> QED
    BY <1>1, <2>1, ElementOfSeq
<1> HIDE DEF e, g
<1>6. Filled(a, g, n - 1, N, T)
  BY <1>2, <1>3, <1>5, Zenon DEF Filled
<1>7. d \in Seq(T) /\ Len(d) = n - 1 /\ \A k \in 1 .. n - 1 : d[k] = a[(g + k - 1) % N]
  <2> DEFINE m == n - 1
  <2>1. m \in Nat /\ Filled(a, g, m, N, T)
    BY <1>0, <1>6
  <2> HIDE DEF m
  <2>2. /\ Entries(a, g, m, N) \in Seq(T) /\ Len(Entries(a, g, m, N)) = m
        /\ \A k \in 1 .. m : Entries(a, g, m, N)[k] = a[(g + k - 1) % N]
    BY <2>1, EntriesSeq
  <2> QED
    BY <2>2 DEF m
<1>8. \A k \in 1 .. n - 1 : d[k] = e[k + 1]
  BY <1>2, <1>3, <1>7
<1> HIDE DEF d
<1>9. e # << >> /\ Head(e) = e[1]
  BY <1>1
<1>10. Tail(e) \in Seq(T) /\ Len(Tail(e)) = n - 1 /\ \A k \in 1 .. n - 1 : Tail(e)[k] = e[k + 1]
  BY <1>1, <1>9, HeadTailProperties
<1>11. d = Tail(e)
  BY <1>7, <1>8, <1>10, SeqEqual
<1> QED
  BY <1>4, <1>6, <1>9, <1>11 DEF d, e, g

\* The same with the start f and the end w of the entries.
Held(a, f, w, size) == Entries(a, f, Dist(f, w, size), size)
Good(a, f, w, size, T) == Filled(a, f, Dist(f, w, size), size, T)

LEMMA HeldFacts ==
  ASSUME NEW N \in Nat \ {0, 1}, NEW f \in 0 .. N - 1, NEW w \in 0 .. N - 1, NEW a, NEW T,
         Good(a, f, w, N, T)
  PROVE  /\ Held(a, f, w, N) \in Seq(T)
         /\ Len(Held(a, f, w, N)) = Dist(f, w, N)
         /\ Len(Held(a, f, w, N)) \in 0 .. N - 1
<1>1. Dist(f, w, N) \in 0 .. N - 1
  BY DistFacts
<1>2. Dist(f, w, N) \in Nat
  BY <1>1
<1> QED
  BY <1>1, <1>2, EntriesSeq DEF Held, Good

LEMMA RingPush ==
  ASSUME NEW N \in Nat \ {0, 1}, NEW f \in 0 .. N - 1, NEW w \in 0 .. N - 1,
         NEW S, NEW a \in [0 .. N - 1 -> S], NEW x \in S, NEW T, x \in T,
         Good(a, f, w, N, T), (w + 1) % N # f
  PROVE  /\ Held([a EXCEPT ![w] = x], f, (w + 1) % N, N) = Append(Held(a, f, w, N), x)
         /\ Good([a EXCEPT ![w] = x], f, (w + 1) % N, N, T)
         /\ Len(Held(a, f, w, N)) < N - 1
<1> DEFINE n == Dist(f, w, N)
           v == (w + 1) % N
<1>1. n \in 0 .. N - 1 /\ n # N - 1 /\ (f + n) % N = w /\ Dist(f, v, N) = n + 1
  BY DistFacts
<1>2. Filled(a, f, n, N, T)
  BY DEF Good
<1> HIDE DEF n, v
<1>3. LET b == [a EXCEPT ![(f + n) % N] = x] IN
         /\ Entries(b, f, n + 1, N) = Append(Entries(a, f, n, N), x)
         /\ Filled(b, f, n + 1, N, T)
  BY <1>1, <1>2, EntriesAppend, Zenon
<1>4. /\ Entries([a EXCEPT ![w] = x], f, n + 1, N) = Append(Entries(a, f, n, N), x)
      /\ Filled([a EXCEPT ![w] = x], f, n + 1, N, T)
  BY <1>1, <1>3, Zenon
<1>5. Len(Held(a, f, w, N)) = n
  BY HeldFacts DEF n
<1>6. Len(Held(a, f, w, N)) < N - 1
  BY <1>1, <1>5
<1>7. /\ Held([a EXCEPT ![w] = x], f, v, N) = Append(Held(a, f, w, N), x)
      /\ Good([a EXCEPT ![w] = x], f, v, N, T)
  BY <1>1, <1>4, Zenon DEF Held, Good, n
<1> QED
  BY <1>6, <1>7, Zenon DEF v

LEMMA RingPop ==
  ASSUME NEW N \in Nat \ {0, 1}, NEW f \in 0 .. N - 1, NEW w \in 0 .. N - 1, f # w,
         NEW a, NEW T, Good(a, f, w, N, T)
  PROVE  /\ Held(a, f, w, N) # << >>
         /\ Held(a, (f + 1) % N, w, N) = Tail(Held(a, f, w, N))
         /\ a[f] = Head(Held(a, f, w, N))
         /\ Good(a, (f + 1) % N, w, N, T)
<1> DEFINE n == Dist(f, w, N)
           g == (f + 1) % N
<1>1. n \in 1 .. N - 1 /\ Dist(g, w, N) = n - 1
  <2>1. n \in 0 .. N - 1 /\ n # 0 /\ Dist(g, w, N) = n - 1
    BY DistFacts
  <2> QED
    BY <2>1
<1>2. Filled(a, f, n, N, T)
  BY DEF Good
<1> HIDE DEF n
<1>3. /\ Entries(a, f, n, N) # << >>
      /\ Entries(a, g, n - 1, N) = Tail(Entries(a, f, n, N))
      /\ a[f] = Head(Entries(a, f, n, N))
      /\ Filled(a, g, n - 1, N, T)
  BY <1>1, <1>2, EntriesTail
<1> QED
  BY <1>1, <1>3 DEF Held, Good, n
-----------------------------------------------------------------------------
\* A burst of at most M makes r of queue q.
Accepted(T, q, r, Cap, M) ==
  \E n \in 1 .. M : \E cs \in [1 .. n -> T] :
    LET room == Cap - Len(q) IN
    r = q \o SubSeq(cs, 1, IF n < room THEN n ELSE room)

\* What arrives in a queue with room for it: one character, or two.
LEMMA BurstOne ==
  ASSUME NEW T, NEW q \in Seq(T), NEW x \in T, NEW Cap \in Nat, Len(q) < Cap, NEW M \in Nat \ {0}
  PROVE  Accepted(T, q, Append(q, x), Cap, M)
<1> DEFINE cs == [i \in 1 .. 1 |-> x]
           room == Cap - Len(q)
<1>1. 1 \in 1 .. M /\ cs \in [1 .. 1 -> T] /\ room \in Nat /\ room >= 1
  OBVIOUS
<1>2. (IF 1 < room THEN 1 ELSE room) = 1
  BY <1>1
<1>3. SubSeq(cs, 1, 1) = <<x>>
  <2>1. SubSeq(cs, 1, 1) \in Seq(T) /\ Len(SubSeq(cs, 1, 1)) = 1 /\ SubSeq(cs, 1, 1)[1] = x
    BY SubSeqProperties
  <2>2. <<x>> \in Seq(T) /\ Len(<<x>>) = 1 /\ <<x>>[1] = x
    OBVIOUS
  <2>3. \A i \in 1 .. 1 : SubSeq(cs, 1, 1)[i] = <<x>>[i]
    BY <2>1
  <2> HIDE DEF cs
  <2> QED
    BY <2>1, <2>2, <2>3, SeqEqual, Zenon
<1>4. Append(q, x) = q \o <<x>>
  BY AppendIsConcat
<1> HIDE DEF cs
<1>5. Append(q, x) = q \o SubSeq(cs, 1, IF 1 < room THEN 1 ELSE room)
  BY <1>2, <1>3, <1>4, Zenon
<1> QED
  BY <1>1, <1>5, Zenon DEF Accepted

LEMMA BurstTwo ==
  ASSUME NEW T, NEW q \in Seq(T), NEW x \in T, NEW y \in T, NEW Cap \in Nat, Len(q) + 1 < Cap
  PROVE  Accepted(T, q, Append(Append(q, x), y), Cap, 2)
<1> DEFINE cs == [i \in 1 .. 2 |-> IF i = 1 THEN x ELSE y]
           room == Cap - Len(q)
           t == Append(Append(q, x), y)
           s == SubSeq(cs, 1, 2)
<1>1. cs \in [1 .. 2 -> T] /\ room \in Nat /\ room >= 2 /\ Len(q) \in Nat
  OBVIOUS
<1>2. (IF 2 < room THEN 2 ELSE room) = 2
  BY <1>1
<1>3. s \in Seq(T) /\ Len(s) = 2 /\ s[1] = x /\ s[2] = y
  BY SubSeqProperties
<1> HIDE DEF s
<1>4. /\ q \o s \in Seq(T) /\ Len(q \o s) = Len(q) + 2
      /\ \A i \in 1 .. Len(q) + 2 : (q \o s)[i] = IF i <= Len(q) THEN q[i] ELSE s[i - Len(q)]
  <2>1. /\ q \o s \in Seq(T) /\ Len(q \o s) = Len(q) + Len(s)
        /\ \A i \in 1 .. Len(q) + Len(s) : (q \o s)[i] = IF i <= Len(q) THEN q[i] ELSE s[i - Len(q)]
    BY <1>3, ConcatProperties, Zenon
  <2> QED
    BY <1>3, <2>1
<1>5. /\ t \in Seq(T) /\ Len(t) = Len(q) + 2
      /\ \A i \in 1 .. Len(q) : t[i] = q[i]
      /\ t[Len(q) + 1] = x /\ t[Len(q) + 2] = y
  BY AppendProperties
<1> HIDE DEF t
<1>6. \A i \in 1 .. Len(q) + 2 : t[i] = (q \o s)[i]
  <2> TAKE i \in 1 .. Len(q) + 2
  <2>1. CASE i \in 1 .. Len(q)
    BY <1>1, <1>4, <1>5, <2>1
  <2>2. CASE i = Len(q) + 1
    BY <1>1, <1>3, <1>4, <1>5, <2>2
  <2>3. CASE i = Len(q) + 2
    BY <1>1, <1>3, <1>4, <1>5, <2>3
  <2> QED
    <3>1. i \in 1 .. Len(q) \/ i = Len(q) + 1 \/ i = Len(q) + 2
      BY <1>1
    <3> QED
      BY <2>1, <2>2, <2>3, <3>1, Zenon
<1>7. t = q \o s
  BY <1>4, <1>5, <1>6, SeqEqual, Zenon
<1> HIDE DEF cs
<1>8. t = q \o SubSeq(cs, 1, IF 2 < room THEN 2 ELSE room)
  BY <1>2, <1>7 DEF s
<1>9. 2 \in 1 .. 2
  OBVIOUS
<1> QED
  BY <1>1, <1>8, <1>9 DEF t, Accepted
-----------------------------------------------------------------------------
(***************************************************************************)
(* The keyboard.                                                           *)
(***************************************************************************)
Size == KB_BUF_SIZE

RingType ==
  /\ buf \in [Slots -> Chars \cup {Nul}] /\ rp \in Slots /\ wp \in Slots
  /\ Good(buf, rp, wp, Size, Chars)

\* What keyboard_poll has found out stays true while the handler interrupts it.
ReaderInv ==
  /\ reader \in {"read", "advance"} => rp # wp
  /\ reader = "advance" => c = buf[rp]

KeyboardInv == RingType /\ ReaderInv /\ CodeAfterMarker

\* A ring in the middle of kb_irq.
RingOK(r) ==
  /\ r \in [buf : [Slots -> Chars \cup {Nul}], wp : Slots]
  /\ Good(r.buf, rp, r.wp, Size, Chars)

InRing(r) == Held(r.buf, rp, r.wp, Size)

LEMMA PushFull ==
  ASSUME NEW r, NEW x, After(r.wp) = rp
  PROVE  push(r, x) = r
BY DEF push

LEMMA PushRoom ==
  ASSUME KeyboardAssumption, rp \in Slots, NEW r, RingOK(r), NEW x \in Chars, After(r.wp) # rp
  PROVE  /\ RingOK(push(r, x))
         /\ Len(InRing(r)) < Size - 1
         /\ InRing(push(r, x)) = Append(InRing(r), x)
         /\ rp # r.wp => push(r, x).wp # rp /\ push(r, x).buf[rp] = r.buf[rp]
<1> DEFINE b == [r.buf EXCEPT ![r.wp] = x]
           v == After(r.wp)
<1>1. push(r, x) = [buf |-> b, wp |-> v]
  BY DEF push
<1>2. r.buf \in [Slots -> Chars \cup {Nul}] /\ r.wp \in Slots /\ x \in Chars \cup {Nul}
  BY DEF RingOK
<1>3. Size \in Nat \ {0, 1} /\ Slots = 0 .. Size - 1 /\ v = (r.wp + 1) % Size
  BY DEF KeyboardAssumption, Size, Slots, After
<1>4. \A w \in 0 .. Size - 1 : (w + 1) % Size \in 0 .. Size - 1
  BY <1>3
<1>5. /\ v \in Slots
      /\ Held(b, rp, v, Size) = Append(Held(r.buf, rp, r.wp, Size), x)
      /\ Good(b, rp, v, Size, Chars)
      /\ Len(Held(r.buf, rp, r.wp, Size)) < Size - 1
  <2> DEFINE w == r.wp
             a == r.buf
  <2>1. /\ a \in [0 .. Size - 1 -> Chars \cup {Nul}] /\ w \in 0 .. Size - 1
        /\ Good(a, rp, w, Size, Chars)
        /\ rp \in 0 .. Size - 1 /\ v = (w + 1) % Size /\ v # rp /\ b = [a EXCEPT ![w] = x]
    BY <1>2, <1>3 DEF RingOK
  <2> HIDE DEF a, b, v, w
  <2>2. /\ Held([a EXCEPT ![w] = x], rp, (w + 1) % Size, Size) = Append(Held(a, rp, w, Size), x)
        /\ Good([a EXCEPT ![w] = x], rp, (w + 1) % Size, Size, Chars)
        /\ Len(Held(a, rp, w, Size)) < Size - 1
    BY <1>2, <1>3, <2>1, RingPush, Zenon
  <2> QED
    BY <1>3, <1>4, <2>1, <2>2, Zenon DEF a, w
<1>6. b \in [Slots -> Chars \cup {Nul}] /\ (rp # r.wp => b[rp] = r.buf[rp])
  BY <1>2
<1> HIDE DEF b, v
<1>7. push(r, x).buf = b /\ push(r, x).wp = v /\ push(r, x) \in [buf : [Slots -> Chars \cup {Nul}], wp : Slots]
  BY <1>1, <1>5, <1>6
<1> QED
  BY <1>5, <1>6, <1>7 DEF RingOK, InRing, v

LEMMA WaitingFacts ==
  ASSUME KeyboardAssumption, RingType
  PROVE  /\ RingOK(Ring) /\ InRing(Ring) = Waiting
         /\ Waiting = Held(buf, rp, wp, Size)
         /\ Waiting \in Seq(Chars)
         /\ Len(Waiting) \in 0 .. Size - 1
<1>1. Waiting = Held(buf, rp, wp, Size)
  BY DEF Waiting, Held, Entries, Dist, Size
<1>2. Ring.buf = buf /\ Ring.wp = wp /\ Ring \in [buf : [Slots -> Chars \cup {Nul}], wp : Slots]
  BY DEF Ring, RingType
<1>3. Size \in Nat \ {0, 1} /\ Slots = 0 .. Size - 1
  BY DEF KeyboardAssumption, Size, Slots
<1>4. Held(buf, rp, wp, Size) \in Seq(Chars) /\ Len(Held(buf, rp, wp, Size)) \in 0 .. Size - 1
  BY <1>3, HeldFacts DEF RingType
<1> QED
  BY <1>1, <1>2, <1>4 DEF RingOK, InRing, RingType

\* Store(r) with the reader's index in place.
LEMMA StoreFacts ==
  ASSUME NEW r, RingOK(r), Store(r), rp \in Slots, UNCHANGED rp
  PROVE  RingType' /\ Waiting' = InRing(r)
<1>1. buf' = r.buf /\ wp' = r.wp /\ rp' = rp
  BY DEF Store
<1>2. Waiting' = Held(buf', rp', wp', Size)
  BY DEF Waiting, Held, Entries, Dist, Size
<1>3. RingType'
  BY <1>1 DEF RingOK, RingType
<1> QED
  BY <1>1, <1>2, <1>3 DEF InRing

\* What a step does to the characters that wait and to the one returned.
Effect ==
  \/ Waiting' = Waiting /\ returned' = returned
  \/ \E x \in Chars \ {Extended} : /\ Len(Waiting) < Size - 1
                                   /\ Waiting' = Append(Waiting, x)
                                   /\ returned' = returned
  \/ /\ Len(Waiting) + 1 < Size - 1
     /\ Waiting' = Append(Append(Waiting, E0), Extended)
     /\ returned' = returned
  \/ Waiting # << >> /\ Waiting' = Tail(Waiting) /\ returned' = Head(Waiting)

LEMMA IrqReader ==
  ASSUME ReaderInv, Irq, rp # wp => wp' # rp /\ buf'[rp] = buf[rp]
  PROVE  ReaderInv' /\ returned' = returned
BY DEF ReaderInv, Irq, EndHalt

LEMMA IrqIdle ==
  ASSUME RingType, ReaderInv, Irq, UNCHANGED <<buf, wp>>
  PROVE  RingType' /\ ReaderInv' /\ Effect
<1>1. UNCHANGED <<buf, rp, wp>>
  BY DEF Irq
<1>2. RingType' /\ Waiting' = Waiting
  BY <1>1 DEF RingType, Waiting
<1>3. ReaderInv' /\ returned' = returned
  BY <1>1, IrqReader
<1> QED
  BY <1>2, <1>3 DEF Effect

LEMMA IrqPush ==
  ASSUME KeyboardAssumption, RingType, ReaderInv, Irq, NEW x \in Chars \ {Extended}, Store(push(Ring, x))
  PROVE  RingType' /\ ReaderInv' /\ Effect
<1>1. RingOK(Ring) /\ InRing(Ring) = Waiting /\ rp \in Slots /\ UNCHANGED rp
      /\ Ring.wp = wp /\ Ring.buf = buf
  BY WaitingFacts DEF RingType, Irq, Ring
<1>2. CASE After(wp) = rp
  <2>1. push(Ring, x) = Ring
    BY <1>1, <1>2, PushFull
  <2>2. UNCHANGED <<buf, wp>>
    BY <1>1, <2>1 DEF Store
  <2> QED
    BY <2>2, IrqIdle
<1>3. CASE After(wp) # rp
  <2> DEFINE r == push(Ring, x)
  <2>1. /\ RingOK(r) /\ Len(Waiting) < Size - 1 /\ InRing(r) = Append(Waiting, x)
        /\ rp # wp => r.wp # rp /\ r.buf[rp] = buf[rp]
    BY <1>1, <1>3, PushRoom
  <2> HIDE DEF r
  <2>2. Store(r)
    BY DEF r
  <2>3. RingType' /\ Waiting' = Append(Waiting, x)
    BY <1>1, <2>1, <2>2, StoreFacts
  <2>4. ReaderInv' /\ returned' = returned
    BY <2>1, <2>2, IrqReader DEF Store
  <2> QED
    BY <2>1, <2>3, <2>4 DEF Effect
<1> QED
  BY <1>2, <1>3

LEMMA IrqPushTwo ==
  ASSUME KeyboardAssumption, RingType, ReaderInv, Irq, Store(push(push(Ring, E0), Extended))
  PROVE  RingType' /\ ReaderInv' /\ Effect
<1>1. RingOK(Ring) /\ InRing(Ring) = Waiting /\ rp \in Slots /\ UNCHANGED rp
      /\ Ring.wp = wp /\ Ring.buf = buf /\ Waiting \in Seq(Chars) /\ Len(Waiting) \in Nat
  BY WaitingFacts DEF RingType, Irq, Ring
<1>2. E0 \in Chars /\ Extended \in Chars /\ E0 # Extended
  BY DEF Chars, E0, Extended
<1>3. CASE After(wp) = rp
  <2>1. push(push(Ring, E0), Extended) = Ring
    BY <1>1, <1>3, PushFull
  <2>2. UNCHANGED <<buf, wp>>
    BY <1>1, <2>1 DEF Store
  <2> QED
    BY <2>2, IrqIdle
<1>4. CASE After(wp) # rp
  <2> DEFINE r == push(Ring, E0)
             s == push(r, Extended)
  <2>1. /\ RingOK(r) /\ Len(Waiting) < Size - 1 /\ InRing(r) = Append(Waiting, E0)
        /\ rp # wp => r.wp # rp /\ r.buf[rp] = buf[rp]
    BY <1>1, <1>2, <1>4, PushRoom
  <2> HIDE DEF r
  <2>2. CASE After(r.wp) = rp
    <3>1. s = r
      BY <2>2, PushFull
    <3>2. Store(push(Ring, E0))
      BY <3>1 DEF r
    <3> QED
      BY <1>2, <3>2, IrqPush
  <2>3. CASE After(r.wp) # rp
    <3>1. /\ RingOK(s) /\ Len(InRing(r)) < Size - 1 /\ InRing(s) = Append(InRing(r), Extended)
          /\ rp # r.wp => s.wp # rp /\ s.buf[rp] = r.buf[rp]
      BY <1>1, <1>2, <2>1, <2>3, PushRoom
    <3> HIDE DEF s
    <3>2. Store(s)
      BY DEF r, s
    <3>3. RingType' /\ Waiting' = Append(Append(Waiting, E0), Extended)
      BY <1>1, <2>1, <3>1, <3>2, StoreFacts
    <3>4. ReaderInv' /\ returned' = returned
      BY <2>1, <3>1, <3>2, IrqReader DEF Store
    <3>5. Len(Waiting) + 1 < Size - 1
      BY <1>1, <1>2, <2>1, <3>1, AppendProperties
    <3> QED
      BY <3>3, <3>4, <3>5 DEF Effect
  <2> QED
    BY <2>2, <2>3
<1> QED
  BY <1>3, <1>4

LEMMA IrqStep ==
  ASSUME KeyboardAssumption, RingType, ReaderInv, kb_irq \/ OtherIrq
  PROVE  RingType' /\ ReaderInv' /\ Effect
<1>1. CASE ExtendedPrefix \/ OtherIrq
  BY <1>1, IrqIdle DEF ExtendedPrefix, OtherIrq
<1>2. CASE ExtendedKey
  BY <1>2, IrqIdle, IrqPushTwo DEF ExtendedKey
<1>3. ASSUME NEW k \in Keys, KeyRelease(k) \/ ModifierPress(k) \/ LockPress(k)
      PROVE  RingType' /\ ReaderInv' /\ Effect
  BY <1>3, IrqIdle DEF KeyRelease, ModifierPress, LockPress
<1>4. ASSUME NEW k \in Keys, CharPress(k) PROVE RingType' /\ ReaderInv' /\ Effect
  <2>1. Irq /\ k \notin Modifiers \cup Locks
    BY <1>4 DEF CharPress
  <2>2. CASE "ctrl" \in held /\ k \in CtrlKeys
    <3>1. Control(k) \in Chars \ {Extended}
      BY <2>2 DEF Chars, Control, Extended
    <3>2. Store(push(Ring, Control(k)))
      BY <1>4, <2>2 DEF CharPress
    <3> QED
      BY <2>1, <3>1, <3>2, IrqPush
  <2>3. CASE ~("ctrl" \in held /\ k \in CtrlKeys) /\ k \in Silent
    BY <1>4, <2>1, <2>3, IrqIdle DEF CharPress
  <2>4. CASE ~("ctrl" \in held /\ k \in CtrlKeys) /\ k \notin Silent
    <3>1. k \in Typing
      BY <2>1, <2>4 DEF Typing
    <3>2. Cased(k) = Upper(k) \/ Cased(k) = Plain(k)
      BY DEF Cased
    <3>3. Cased(k) \in Chars /\ Cased(k) # Extended
      BY <3>1, <3>2 DEF Chars, Upper, Plain, Extended
    <3>4. Store(push(Ring, Cased(k)))
      BY <1>4, <2>4 DEF CharPress
    <3> QED
      BY <2>1, <3>3, <3>4, IrqPush
  <2> QED
    BY <2>2, <2>3, <2>4
<1> QED
  BY <1>1, <1>2, <1>3, <1>4 DEF kb_irq

LEMMA ReaderStep ==
  ASSUME KeyboardAssumption, RingType, ReaderInv, keyboard_getchar
  PROVE  RingType' /\ ReaderInv' /\ Effect
<1>1. CASE PollEmpty \/ PollCheck \/ PollRead \/ Hlt
  <2>1. UNCHANGED <<buf, rp, wp, returned>>
    BY <1>1 DEF PollEmpty, PollCheck, PollRead, Hlt
  <2>2. RingType' /\ Waiting' = Waiting
    BY <2>1 DEF RingType, Waiting
  <2>3. ReaderInv'
    BY <1>1, <2>1 DEF ReaderInv, PollEmpty, PollCheck, PollRead, Hlt, Goto
  <2> QED
    BY <2>1, <2>2, <2>3 DEF Effect
<1>2. CASE PollAdvance
  <2>1. /\ rp # wp /\ returned' = buf[rp] /\ rp' = After(rp)
        /\ reader' = "poll" /\ UNCHANGED <<buf, wp>>
    BY <1>2 DEF PollAdvance, Goto, ReaderInv
  <2>2. Size \in Nat \ {0, 1} /\ Slots = 0 .. Size - 1 /\ After(rp) = (rp + 1) % Size
        /\ rp \in Slots /\ wp \in Slots
    BY DEF KeyboardAssumption, Size, Slots, After, RingType
  <2>3. /\ Held(buf, rp, wp, Size) # << >>
        /\ Held(buf, (rp + 1) % Size, wp, Size) = Tail(Held(buf, rp, wp, Size))
        /\ buf[rp] = Head(Held(buf, rp, wp, Size))
        /\ Good(buf, (rp + 1) % Size, wp, Size, Chars)
    BY <2>1, <2>2, RingPop DEF RingType
  <2>4. (rp + 1) % Size \in Slots
    BY <2>2
  <2>5. RingType'
    BY <2>1, <2>2, <2>3, <2>4 DEF RingType
  <2>6. Waiting = Held(buf, rp, wp, Size) /\ Waiting' = Held(buf', rp', wp', Size)
    BY DEF Waiting, Held, Entries, Dist, Size
  <2>7. ReaderInv'
    BY <2>1 DEF ReaderInv
  <2> QED
    BY <2>1, <2>2, <2>3, <2>5, <2>6, <2>7 DEF Effect
<1> QED
  BY <1>1, <1>2 DEF keyboard_getchar

LEMMA CodeStep ==
  ASSUME KeyboardAssumption, RingType, CodeAfterMarker, Effect
  PROVE  CodeAfterMarker'
<1> DEFINE q == Waiting
           Marked(s, r) == /\ \A i \in 2 .. Len(s) : s[i] = Extended => s[i - 1] = E0
                           /\ Len(s) > 0 /\ s[1] = Extended => r = E0
<1>1. q \in Seq(Chars) /\ Len(q) \in Nat /\ Marked(q, returned)
  BY WaitingFacts DEF CodeAfterMarker
<1>2. CodeAfterMarker' <=> Marked(Waiting', returned')
  BY DEF CodeAfterMarker
<1> HIDE DEF q
<1>3. ASSUME NEW s \in Seq(Chars), NEW x \in Chars, NEW r, Marked(s, r),
             x = Extended => Len(s) > 0 /\ s[Len(s)] = E0
      PROVE  Marked(Append(s, x), r)
  <2> DEFINE t == Append(s, x)
  <2>1. /\ Len(s) \in Nat /\ Len(t) = Len(s) + 1
        /\ \A i \in 1 .. Len(s) : t[i] = s[i]
        /\ t[Len(s) + 1] = x
    BY AppendProperties, LenProperties
  <2> HIDE DEF t
  <2>2. ASSUME NEW i \in 2 .. Len(t), t[i] = Extended PROVE t[i - 1] = E0
    <3>1. CASE i = Len(s) + 1
      <4>1. i - 1 = Len(s) /\ Len(s) \in 1 .. Len(s)
        BY <2>1, <3>1
      <4> QED
        BY <1>3, <2>1, <2>2, <3>1, <4>1
    <3>2. CASE i # Len(s) + 1
      <4>1. i \in 2 .. Len(s) /\ i \in 1 .. Len(s) /\ i - 1 \in 1 .. Len(s)
        BY <2>1, <3>2
      <4> QED
        BY <1>3, <2>1, <2>2, <4>1
    <3> QED
      BY <3>1, <3>2
  <2>3. ASSUME t[1] = Extended PROVE r = E0
    <3>1. CASE Len(s) = 0
      BY <1>3, <2>1, <2>3, <3>1
    <3>2. CASE Len(s) # 0
      <4>1. Len(s) > 0 /\ 1 \in 1 .. Len(s)
        BY <2>1, <3>2
      <4> QED
        BY <1>3, <2>1, <2>3, <4>1
    <3> QED
      BY <3>1, <3>2
  <2> QED
    BY <2>2, <2>3 DEF t
<1>4. CASE Waiting' = q /\ returned' = returned
  BY <1>1, <1>2, <1>4
<1>5. ASSUME NEW x \in Chars \ {Extended}, Waiting' = Append(q, x), returned' = returned
      PROVE  CodeAfterMarker'
  <2>1. Marked(Append(q, x), returned)
    BY <1>1, <1>3
  <2> QED
    BY <1>2, <1>5, <2>1
<1>6. CASE Waiting' = Append(Append(q, E0), Extended) /\ returned' = returned
  <2> DEFINE t == Append(q, E0)
  <2>1. E0 \in Chars /\ Extended \in Chars /\ E0 # Extended
    BY DEF Chars, E0, Extended
  <2>2. Marked(t, returned)
    BY <1>1, <1>3, <2>1
  <2>3. t \in Seq(Chars) /\ Len(t) > 0 /\ t[Len(t)] = E0
    BY <1>1, <2>1, AppendProperties
  <2> HIDE DEF t
  <2>4. Marked(Append(t, Extended), returned)
    BY <1>3, <2>1, <2>2, <2>3
  <2> QED
    BY <1>2, <1>6, <2>4 DEF t
<1>7. CASE q # << >> /\ Waiting' = Tail(q) /\ returned' = Head(q)
  <2> DEFINE t == Tail(q)
  <2>1. /\ t \in Seq(Chars) /\ Len(t) = Len(q) - 1 /\ Len(t) \in Nat
        /\ \A i \in 1 .. Len(t) : t[i] = q[i + 1]
        /\ Head(q) = q[1]
    BY <1>1, <1>7, HeadTailProperties, LenProperties
  <2> HIDE DEF t
  <2>2. ASSUME NEW i \in 2 .. Len(t), t[i] = Extended PROVE t[i - 1] = E0
    <3>1. i \in 1 .. Len(t) /\ i - 1 \in 1 .. Len(t) /\ i + 1 \in 2 .. Len(q) /\ (i + 1) - 1 = (i - 1) + 1
      BY <1>1, <2>1
    <3>2. t[i] = q[i + 1] /\ t[i - 1] = q[(i - 1) + 1]
      BY <2>1, <3>1
    <3>3. q[(i + 1) - 1] = E0
      BY <1>1, <2>2, <3>1, <3>2
    <3> QED
      BY <3>1, <3>2, <3>3
  <2>3. ASSUME Len(t) > 0, t[1] = Extended PROVE Head(q) = E0
    <3>1. 1 \in 1 .. Len(t) /\ 2 \in 2 .. Len(q)
      BY <1>1, <2>1, <2>3
    <3>2. q[2] = Extended
      BY <2>1, <2>3, <3>1
    <3>3. q[2 - 1] = E0
      BY <1>1, <3>1, <3>2
    <3> QED
      BY <2>1, <3>3
  <2>4. Marked(t, Head(q))
    BY <2>2, <2>3
  <2> QED
    BY <1>2, <1>7, <2>4 DEF t
<1> QED
  BY <1>4, <1>5, <1>6, <1>7 DEF Effect, q

LEMMA KeyboardNext ==
  ASSUME KeyboardAssumption, KeyboardInv, [Next]_vars
  PROVE  KeyboardInv' /\ Effect
<1>1. CASE kb_irq \/ OtherIrq
  BY <1>1, IrqStep, CodeStep DEF KeyboardInv
<1>2. CASE keyboard_getchar
  BY <1>2, ReaderStep, CodeStep DEF KeyboardInv
<1>3. CASE UNCHANGED vars
  <2>1. UNCHANGED <<buf, rp, wp, reader, c, returned>>
    BY <1>3 DEF vars, readerVars
  <2>2. RingType' /\ ReaderInv' /\ Effect
    BY <2>1 DEF KeyboardInv, RingType, ReaderInv, Effect, Waiting
  <2> QED
    BY <2>2, CodeStep DEF KeyboardInv
<1> QED
  BY <1>1, <1>2, <1>3 DEF Next

LEMMA KeyboardInit ==
  ASSUME KeyboardAssumption, keyboard_init
  PROVE  KeyboardInv /\ Waiting = << >>
<1>1. KB_BUF_SIZE \in Nat \ {0, 1} /\ rp = 0 /\ wp = 0
  BY DEF KeyboardAssumption, keyboard_init
<1>2. (wp - rp) % KB_BUF_SIZE = 0
  BY <1>1
<1>3. Waiting = << >>
  BY <1>2 DEF Waiting
<1>4. Good(buf, rp, wp, Size, Chars)
  BY <1>2 DEF Good, Filled, Dist, Size
<1>5. RingType
  BY <1>1, <1>4 DEF keyboard_init, RingType, Slots
<1>6. ReaderInv
  BY DEF keyboard_init, ReaderInv
<1>7. CodeAfterMarker
  BY <1>3 DEF CodeAfterMarker
<1> QED
  BY <1>3, <1>5, <1>6, <1>7 DEF KeyboardInv

\* What keyboard_poll has found in the ring stays true until it moves rp, for a
\* ring of any size and a handler, kb_irq, that interrupts it anywhere.
THEOREM KeyboardInvariance == Spec => []KeyboardInv
<1>1. keyboard_init => KeyboardInv
  BY KeyboardAssumption, KeyboardInit
<1>2. KeyboardInv /\ [Next]_vars => KeyboardInv'
  BY KeyboardAssumption, KeyboardNext
<1> QED
  BY <1>1, <1>2, PTL DEF Spec

\* The second byte of an extended key comes after its marker, also when the
\* ring fills up between the two.
THEOREM MarkerCorrect == Spec => []CodeAfterMarker
<1>1. KeyboardInv => CodeAfterMarker
  BY DEF KeyboardInv
<1> QED
  BY <1>1, KeyboardInvariance, PTL

LEMMA KeyboardFifoStep ==
  ASSUME KeyboardAssumption, RingType, Effect
  PROVE  [Fifo!Next]_(<<Waiting, returned>>)
<1> DEFINE Cap == KB_BUF_SIZE - 1
<1>1. Waiting \in Seq(Chars) /\ Cap \in Nat /\ Cap = Size - 1 /\ 2 \in Nat \ {0}
  BY WaitingFacts DEF KeyboardAssumption, Size
<1> HIDE DEF Cap
<1>2. E0 \in Chars /\ Extended \in Chars
  BY DEF Chars
<1>3. ASSUME NEW x \in Chars, Len(Waiting) < Size - 1, Waiting' = Append(Waiting, x), returned' = returned
      PROVE  Fifo!Next
  <2>1. Accepted(Chars, Waiting, Append(Waiting, x), Cap, 2)
    <3>1. Len(Waiting) < Cap
      BY <1>1, <1>3
    <3> QED
      BY <1>1, <3>1, BurstOne
  <2> QED
    BY <1>3, <2>1, Zenon DEF Fifo!Next, Fifo!Arrive, Accepted, Cap
<1>4. ASSUME Len(Waiting) + 1 < Size - 1, Waiting' = Append(Append(Waiting, E0), Extended), returned' = returned
      PROVE  Fifo!Next
  <2>1. Accepted(Chars, Waiting, Append(Append(Waiting, E0), Extended), Cap, 2)
    <3>1. Len(Waiting) + 1 < Cap
      BY <1>1, <1>4
    <3> QED
      BY <1>1, <1>2, <3>1, BurstTwo
  <2> QED
    BY <1>4, <2>1, Zenon DEF Fifo!Next, Fifo!Arrive, Accepted, Cap
<1>5. ASSUME Waiting # << >>, Waiting' = Tail(Waiting), returned' = Head(Waiting)
      PROVE  Fifo!Next
  BY <1>5 DEF Fifo!Next, Fifo!Take
<1> QED
  BY <1>3, <1>4, <1>5 DEF Effect

\* The reader gets the characters that found room, in order and each once,
\* without a lock the handler would take: for a ring of any size.
THEOREM KeyboardRefinement == Spec => ImplementsFifo
<1>1. keyboard_init => Fifo!Init
  BY KeyboardAssumption, KeyboardInit, Zenon DEF Fifo!Init, keyboard_init
<1>2. KeyboardInv /\ [Next]_vars => [Fifo!Next]_(<<Waiting, returned>>)
  BY KeyboardAssumption, KeyboardNext, KeyboardFifoStep DEF KeyboardInv
<1> QED
  BY <1>1, <1>2, KeyboardInvariance, PTL DEF Spec, ImplementsFifo, Fifo!Spec
-----------------------------------------------------------------------------
(***************************************************************************)
(* The receive ring of the network card.                                   *)
(***************************************************************************)
Count == E1000_NUM_RX_DESC

RxFirst == IF handler = "write_rdt" THEN Succ(Succ(rdt)) ELSE Succ(rdt)

RxType ==
  /\ rdh \in Descs /\ rdt \in Descs
  /\ rx_descs \in [Descs -> Packets \cup {NoPacket}]
  /\ boot = "rx_init" => handler = "idle" /\ rx_descs = [d \in Descs |-> NoPacket]

\* Only the descriptors from RxFirst up to RDH hold a packet.
Window(a, f, w) == \A d \in Descs : a[d] # NoPacket => Dist(f, d, Count) < Dist(f, w, Count)

RxInv ==
  boot # "rx_init" =>
    /\ handler = "write_rdt" => rdh # Succ(rdt)
    /\ Good(rx_descs, RxFirst, rdh, Count, Packets)
    /\ Window(rx_descs, RxFirst, rdh)

NicInv == RxType /\ RxInv

RxEffect ==
  \/ Unread' = Unread /\ received' = received
  \/ /\ \E p \in Packets : Unread' = Append(Unread, p)
     /\ Len(Unread) < Count - 1
     /\ received' = received
  \/ Unread # << >> /\ Unread' = Tail(Unread) /\ received' = Head(Unread)

LEMMA SuccFacts ==
  ASSUME NicAssumption
  PROVE  /\ Count \in Nat \ {0, 1} /\ Descs = 0 .. Count - 1
         /\ \A d \in Descs : Succ(d) \in Descs /\ Succ(d) # d /\ Succ(d) = (d + 1) % Count
         /\ \A d, e \in Descs : Succ(d) = Succ(e) => d = e
<1>1. Count \in Nat \ {0, 1} /\ Descs = 0 .. Count - 1
  BY DEF NicAssumption, Count, Descs
<1>2. \A d \in Descs : Succ(d) = (d + 1) % Count
  BY DEF Succ, Count
<1>3. \A d \in Descs : (d + 1) % Count = IF d = Count - 1 THEN 0 ELSE d + 1
  BY <1>1
<1>4. \A d \in Descs : Succ(d) = IF d = Count - 1 THEN 0 ELSE d + 1
  BY <1>2, <1>3
<1>5. \A d \in Descs : Succ(d) \in Descs /\ Succ(d) # d
  BY <1>1, <1>4
<1>6. \A d, e \in Descs : Succ(d) = Succ(e) => d = e
  BY <1>1, <1>4
<1> QED
  BY <1>1, <1>2, <1>5, <1>6

LEMMA UnreadFacts ==
  ASSUME NicAssumption, NicInv
  PROVE  /\ RxFirst \in Descs
         /\ boot = "rx_init" => Unread = << >>
         /\ boot # "rx_init" => Unread = Held(rx_descs, RxFirst, rdh, Count)
         /\ Unread \in Seq(Packets)
         /\ Len(Unread) \in 0 .. Count - 1
<1>1. RxFirst \in Descs
  BY SuccFacts DEF RxFirst, NicInv, RxType
<1>2. boot = "rx_init" => Unread = << >>
  BY DEF Unread
<1>3. boot # "rx_init" => Unread = Held(rx_descs, RxFirst, rdh, Count)
  BY DEF Unread, Held, Entries, Dist, RxFirst, Count
<1>4. CASE boot = "rx_init"
  BY <1>1, <1>2, <1>4, SuccFacts
<1>5. CASE boot # "rx_init"
  <2>1. /\ Count \in Nat \ {0, 1} /\ RxFirst \in 0 .. Count - 1 /\ rdh \in 0 .. Count - 1
        /\ Good(rx_descs, RxFirst, rdh, Count, Packets)
    BY <1>1, <1>5, SuccFacts DEF NicInv, RxType, RxInv
  <2>2. /\ Held(rx_descs, RxFirst, rdh, Count) \in Seq(Packets)
        /\ Len(Held(rx_descs, RxFirst, rdh, Count)) \in 0 .. Count - 1
    BY <2>1, HeldFacts
  <2> QED
    BY <1>1, <1>3, <1>5, <2>2
<1> QED
  BY <1>1, <1>2, <1>3, <1>4, <1>5

\* A step that leaves the ring alone, and the descriptor the driver is at.
LEMMA RxIdle ==
  ASSUME NicAssumption, NicInv, boot # "rx_init", boot' # "rx_init", UNCHANGED <<rdh, rx_descs, received>>,
         rdt' \in Descs, RxFirst' = RxFirst, handler' = "write_rdt" => rdh # Succ(rdt')
  PROVE  NicInv' /\ RxEffect
<1>1. Unread = Held(rx_descs, RxFirst, rdh, Count)
  BY UnreadFacts
<1>2. Unread' = Held(rx_descs', RxFirst', rdh', Count)
  BY DEF Unread, Held, Entries, Dist, RxFirst, Count
<1>3. RxType'
  BY DEF NicInv, RxType
<1>4. RxInv'
  BY DEF NicInv, RxInv, Window
<1> QED
  BY <1>1, <1>2, <1>3, <1>4 DEF NicInv, RxEffect

LEMMA RxBoot ==
  ASSUME NicAssumption, NicInv, nic_rx_init
  PROVE  NicInv' /\ RxEffect
<1>1. /\ boot = "rx_init" /\ boot' = "enable" /\ rdh' = 0 /\ rdt' = Count - 1
      /\ UNCHANGED <<handler, rx_descs, received>>
  BY DEF nic_rx_init, Count
<1>2. Count \in Nat \ {0, 1} /\ Descs = 0 .. Count - 1 /\ handler' = "idle"
      /\ rx_descs' = [d \in Descs |-> NoPacket]
  BY <1>1, SuccFacts DEF NicInv, RxType
<1>3. Succ(Count - 1) = 0
  <2>1. Succ(Count - 1) = Count % Count
    BY <1>2 DEF Succ, Count
  <2> QED
    BY <1>2, <2>1
<1>4. RxFirst' = 0
  BY <1>1, <1>2, <1>3 DEF RxFirst, Succ
<1>5. Dist(0, 0, Count) = 0
  BY <1>2 DEF Dist
<1>6. Good(rx_descs', 0, 0, Count, Packets)
  BY <1>5 DEF Good, Filled
<1>7. Unread' = << >>
  <2>1. Unread' = Held(rx_descs', RxFirst', rdh', Count)
    BY <1>1 DEF Unread, Held, Entries, Dist, RxFirst, Count
  <2> QED
    BY <1>1, <1>4, <1>5, <2>1 DEF Held, Entries
<1>8. Unread = << >>
  BY <1>1 DEF Unread
<1>9. RxType'
  BY <1>1, <1>2 DEF NicInv, RxType
<1>10. RxInv'
  BY <1>1, <1>2, <1>4, <1>6 DEF RxInv, Window
<1> QED
  BY <1>1, <1>7, <1>8, <1>9, <1>10 DEF NicInv, RxEffect

LEMMA RxCard ==
  ASSUME NicAssumption, NicInv, NEW p \in Packets, CardReceives(p)
  PROVE  NicInv' /\ RxEffect /\ Unread' = Append(Unread, p)
<1> DEFINE f == RxFirst
           a == rx_descs'
           h == Succ(rdh)
<1>1. /\ boot # "rx_init" /\ rdh # rdt /\ rx_descs' = [rx_descs EXCEPT ![rdh] = p]
      /\ rdh' = h /\ UNCHANGED <<boot, handler, rdt, received>>
  BY DEF CardReceives, bootVars
<1>2. /\ rdh \in Descs /\ rdt \in Descs /\ rx_descs \in [Descs -> Packets \cup {NoPacket}]
      /\ handler = "write_rdt" => rdh # Succ(rdt)
      /\ Good(rx_descs, f, rdh, Count, Packets) /\ Window(rx_descs, f, rdh)
  BY <1>1 DEF NicInv, RxType, RxInv
<1>3. /\ Count \in Nat \ {0, 1} /\ Descs = 0 .. Count - 1 /\ f \in Descs
      /\ h \in Descs /\ h = (rdh + 1) % Count
  BY <1>2, SuccFacts, UnreadFacts
<1>4. h # f
  BY <1>1, <1>2, SuccFacts DEF RxFirst
<1>5. RxFirst' = f
  BY <1>1 DEF RxFirst, Succ
<1> HIDE DEF f, h
<1>6. /\ Held(a, f, h, Count) = Append(Held(rx_descs, f, rdh, Count), p)
      /\ Good(a, f, h, Count, Packets)
      /\ Len(Held(rx_descs, f, rdh, Count)) < Count - 1
  <2>1. /\ Held([rx_descs EXCEPT ![rdh] = p], f, (rdh + 1) % Count, Count) = Append(Held(rx_descs, f, rdh, Count), p)
        /\ Good([rx_descs EXCEPT ![rdh] = p], f, (rdh + 1) % Count, Count, Packets)
        /\ Len(Held(rx_descs, f, rdh, Count)) < Count - 1
    <3>1. /\ rdh \in 0 .. Count - 1 /\ f \in 0 .. Count - 1 /\ (rdh + 1) % Count # f
          /\ rx_descs \in [0 .. Count - 1 -> Packets \cup {NoPacket}] /\ p \in Packets \cup {NoPacket}
          /\ Good(rx_descs, f, rdh, Count, Packets) /\ Count \in Nat \ {0, 1}
      BY <1>2, <1>3, <1>4
    <3> QED
      BY <3>1, RingPush, Zenon
  <2> QED
    BY <1>1, <1>3, <2>1, Zenon
<1>7. /\ Dist(f, h, Count) = Dist(f, rdh, Count) + 1 /\ Dist(f, rdh, Count) \in Int
      /\ \A d \in Descs : Dist(f, d, Count) \in Int
  BY <1>2, <1>3, <1>4, DistFacts
<1>8. Window(a, f, h)
  <2> SUFFICES ASSUME NEW d \in Descs, a[d] # NoPacket PROVE Dist(f, d, Count) < Dist(f, h, Count)
    BY DEF Window
  <2>1. CASE d = rdh
    BY <1>7, <2>1
  <2>2. CASE d # rdh
    <3>1. rx_descs[d] # NoPacket
      BY <1>1, <1>2, <2>2
    <3>2. Dist(f, d, Count) < Dist(f, rdh, Count)
      BY <1>2, <3>1 DEF Window
    <3> QED
      BY <1>7, <3>2
  <2> QED
    BY <2>1, <2>2
<1>9. Unread = Held(rx_descs, f, rdh, Count) /\ Unread' = Held(a, f, h, Count)
  <2>1. Unread' = Held(rx_descs', RxFirst', rdh', Count)
    BY <1>1 DEF Unread, Held, Entries, Dist, RxFirst, Count
  <2> QED
    BY <1>1, <1>5, <2>1, UnreadFacts DEF f
<1>10. RxType'
  BY <1>1, <1>2, <1>3 DEF RxType
<1>11. RxInv'
  <2>1. handler' = "write_rdt" => rdh' # Succ(rdt)
    BY <1>1, <1>2, SuccFacts DEF h
  <2>2. Succ(rdt)' = Succ(rdt)
    BY <1>1 DEF Succ
  <2> QED
    BY <1>1, <1>5, <1>6, <1>8, <2>1, <2>2 DEF RxInv
<1> QED
  BY <1>1, <1>6, <1>9, <1>10, <1>11 DEF NicInv, RxEffect

LEMMA RxPoll ==
  ASSUME NicAssumption, NicInv, nic_rx_poll
  PROVE  /\ NicInv' /\ RxEffect
         /\ handler' # "poll"
         /\ \/ Unread' = Unread
            \/ Unread # << >> /\ Unread' = Tail(Unread)
<1> DEFINE f == Succ(rdt)
           g == Succ(f)
           a == rx_descs'
<1>1. handler = "poll" /\ boot # "rx_init" /\ RxFirst = f /\ UNCHANGED <<boot, rdh, rdt>>
  BY DEF nic_rx_poll, bootVars, NicInv, RxType, RxFirst
<1>2. /\ rdh \in Descs /\ rdt \in Descs /\ rx_descs \in [Descs -> Packets \cup {NoPacket}]
      /\ Good(rx_descs, f, rdh, Count, Packets) /\ Window(rx_descs, f, rdh)
  BY <1>1 DEF NicInv, RxType, RxInv
<1>3. /\ Count \in Nat \ {0, 1} /\ Descs = 0 .. Count - 1 /\ f \in Descs
      /\ g \in Descs /\ g # f /\ g = (f + 1) % Count
  BY <1>2, SuccFacts
<1>4. Succ(rdt)' = f /\ Succ(Succ(rdt))' = g
  BY <1>1 DEF Succ
<1>5. CASE rx_descs[f] = NoPacket
  <2>1. handler' = "idle" /\ UNCHANGED <<rx_descs, received>>
    BY <1>5 DEF nic_rx_poll
  <2>2. RxFirst' = RxFirst
    BY <1>1, <1>4, <2>1 DEF RxFirst
  <2>3. NicInv' /\ RxEffect
    BY <1>1, <1>2, <2>1, <2>2, RxIdle
  <2>4. Unread' = Unread
    <3>1. Unread' = Held(rx_descs', RxFirst', rdh', Count)
      BY <1>1 DEF Unread, Held, Entries, Dist, RxFirst, Count
    <3> QED
      BY <1>1, <2>1, <2>2, <3>1, UnreadFacts
  <2> QED
    BY <2>1, <2>3, <2>4
<1>6. CASE rx_descs[f] # NoPacket
  <2>1. handler' = "write_rdt" /\ received' = rx_descs[f] /\ a = [rx_descs EXCEPT ![f] = NoPacket]
    BY <1>6 DEF nic_rx_poll
  <2>2. RxFirst' = g
    BY <1>4, <2>1 DEF RxFirst
  <2> HIDE DEF f, g
  <2>3. /\ \A d \in Descs : Dist(f, d, Count) \in Int /\ (Dist(f, d, Count) = 0 <=> d = f)
        /\ \A d \in Descs : d # f => Dist(g, d, Count) = Dist(f, d, Count) - 1
    <3>1. ASSUME NEW d \in Descs
          PROVE  /\ Dist(f, d, Count) \in Int /\ (Dist(f, d, Count) = 0 <=> d = f)
                 /\ d # f => Dist(g, d, Count) = Dist(f, d, Count) - 1
      <4>1. f \in 0 .. Count - 1 /\ d \in 0 .. Count - 1 /\ Count \in Nat \ {0, 1}
        BY <1>3
      <4>2. /\ Dist(f, d, Count) \in 0 .. Count - 1 /\ (Dist(f, d, Count) = 0 <=> f = d)
            /\ f # d => Dist((f + 1) % Count, d, Count) = Dist(f, d, Count) - 1
        BY <4>1, DistFacts
      <4> QED
        BY <1>3, <4>1, <4>2
    <3> QED
      BY <3>1
  <2>4. rdh # f
    <3>1. Dist(f, f, Count) < Dist(f, rdh, Count)
      BY <1>2, <1>3, <1>6 DEF Window
    <3> QED
      BY <1>3, <2>3, <3>1
  <2>5. /\ Held(rx_descs, f, rdh, Count) # << >>
        /\ Held(rx_descs, g, rdh, Count) = Tail(Held(rx_descs, f, rdh, Count))
        /\ rx_descs[f] = Head(Held(rx_descs, f, rdh, Count))
        /\ Good(rx_descs, g, rdh, Count, Packets)
    <3>1. f \in 0 .. Count - 1 /\ rdh \in 0 .. Count - 1 /\ f # rdh /\ Count \in Nat \ {0, 1}
      BY <1>2, <1>3, <2>4
    <3> QED
      BY <1>2, <1>3, <3>1, RingPop
  <2>6. \A k \in 1 .. Dist(g, rdh, Count) : a[(g + k - 1) % Count] = rx_descs[(g + k - 1) % Count]
    <3> TAKE k \in 1 .. Dist(g, rdh, Count)
    <3>1. Dist(g, rdh, Count) \in 0 .. Count - 1 /\ Dist(f, rdh, Count) \in 0 .. Count - 1
      BY <1>2, <1>3, DistFacts
    <3>2. Dist(g, rdh, Count) = Dist(f, rdh, Count) - 1
      BY <1>2, <2>3, <2>4
    <3>3. k \in 1 .. Count - 1
      BY <1>3, <3>1, <3>2
    <3>4. (g + k - 1) % Count = (f + k) % Count
      <4>1. f \in 0 .. Count - 1 /\ Count \in Nat \ {0, 1} /\ g = (f + 1) % Count
        BY <1>3
      <4> QED
        BY <3>3, <4>1, SlotShift, Zenon
    <3>5. (f + k) % Count = (IF f + k < Count THEN f + k ELSE f + k - Count)
      BY <1>3, <3>3
    <3>6. (f + k) % Count # f /\ (f + k) % Count \in Descs
      BY <1>3, <3>2, <3>1, <3>3, <3>5
    <3> QED
      BY <1>2, <2>1, <3>4, <3>6
  <2>7. Held(a, g, rdh, Count) = Held(rx_descs, g, rdh, Count) /\ Good(a, g, rdh, Count, Packets)
    BY <2>5, <2>6 DEF Held, Entries, Good, Filled
  <2>8. Window(a, g, rdh)
    <3> SUFFICES ASSUME NEW d \in Descs, a[d] # NoPacket PROVE Dist(g, d, Count) < Dist(g, rdh, Count)
      BY DEF Window
    <3>1. d # f /\ rx_descs[d] # NoPacket
      BY <1>2, <1>3, <2>1
    <3>2. Dist(f, d, Count) < Dist(f, rdh, Count)
      BY <1>2, <3>1 DEF Window
    <3> QED
      BY <1>2, <2>3, <2>4, <3>1, <3>2
  <2>9. Unread = Held(rx_descs, f, rdh, Count) /\ Unread' = Held(a, g, rdh, Count)
    <3>1. Unread' = Held(rx_descs', RxFirst', rdh', Count)
      BY <1>1 DEF Unread, Held, Entries, Dist, RxFirst, Count
    <3> QED
      BY <1>1, <2>2, <3>1, UnreadFacts
  <2>10. RxType'
    BY <1>1, <1>2, <2>1, Zenon DEF RxType
  <2>11. RxInv'
    BY <1>1, <1>4, <2>2, <2>4, <2>7, <2>8 DEF RxInv
  <2> QED
    BY <2>1, <2>5, <2>7, <2>9, <2>10, <2>11 DEF NicInv, RxEffect
<1> QED
  BY <1>5, <1>6

LEMMA NicStep ==
  ASSUME NicAssumption, NicInv, [NicNext]_nicVars
  PROVE  NicInv' /\ RxEffect
<1>1. CASE nic_rx_init
  BY <1>1, RxBoot
<1>2. ASSUME NEW p \in Packets, CardReceives(p) PROVE NicInv' /\ RxEffect
  BY <1>2, RxCard
<1>3. CASE nic_rx_poll
  BY <1>3, RxPoll
<1>4. CASE WriteTail
  <2>1. /\ handler = "write_rdt" /\ handler' = "idle" /\ rdt' = Succ(rdt)
        /\ UNCHANGED <<boot, rdh, rx_descs, received>>
    BY <1>4 DEF WriteTail, bootVars
  <2>2. boot # "rx_init" /\ rdt' \in Descs
    BY <2>1, SuccFacts DEF NicInv, RxType
  <2>3. RxFirst' = RxFirst
    BY <2>1 DEF RxFirst, Succ
  <2> QED
    BY <2>1, <2>2, <2>3, RxIdle
<1>5. CASE \/ EnableInterrupt \/ Sti \/ OtherDevice \/ Interrupt \/ nic_irq_handler
            \/ (\E sig \in {"RXO", "LSC"} : CardSignals(sig)) \/ UNCHANGED nicVars
  <2>1. /\ UNCHANGED <<rdh, rdt, rx_descs, received>>
        /\ handler' = "write_rdt" <=> handler = "write_rdt"
    BY <1>5 DEF EnableInterrupt, Sti, OtherDevice, Interrupt, nic_irq_handler, CardSignals, nicVars
  <2>2. RxFirst' = RxFirst /\ Succ(rdt)' = Succ(rdt) /\ rdt' \in Descs
    BY <2>1 DEF RxFirst, Succ, NicInv, RxType
  <2>3. CASE boot # "rx_init" /\ boot' # "rx_init"
    BY <2>1, <2>2, <2>3, RxIdle DEF NicInv, RxInv
  <2>4. CASE boot = "rx_init" \/ boot' = "rx_init"
    <3>1. boot = "rx_init" /\ handler = "idle" /\ boot' = "rx_init" /\ handler' = "idle"
      BY <1>5, <2>4 DEF EnableInterrupt, Sti, OtherDevice, Interrupt, nic_irq_handler, CardSignals, nicVars, bootVars, NicInv, RxType
    <3>2. Unread' = << >> /\ Unread = << >>
      BY <3>1 DEF Unread
    <3>3. RxType' /\ RxInv'
      BY <2>1, <3>1 DEF NicInv, RxType, RxInv
    <3> QED
      BY <2>1, <3>2, <3>3 DEF NicInv, RxEffect
  <2> QED
    BY <2>3, <2>4
<1> QED
  BY <1>1, <1>2, <1>3, <1>4, <1>5 DEF NicNext

LEMMA NicInitInv ==
  ASSUME NicAssumption, nic_hw_init
  PROVE  NicInv /\ RxFifo!Init
<1>1. Count \in Nat \ {0, 1} /\ Descs = 0 .. Count - 1
  BY SuccFacts
<1>2. NicInv
  BY <1>1 DEF nic_hw_init, NicInv, RxType, RxInv
<1>3. Unread = << >>
  BY DEF nic_hw_init, Unread
<1> QED
  BY <1>2, <1>3 DEF RxFifo!Init, nic_hw_init

\* RDH, RDT and the status bits agree on which descriptors hold a packet the
\* driver has not reported, for any number of descriptors.
THEOREM NicInvariance == NicSpec => []NicInv
<1>1. nic_hw_init => NicInv
  BY NicAssumption, NicInitInv
<1>2. NicInv /\ [NicNext]_nicVars => NicInv'
  BY NicAssumption, NicStep
<1> QED
  BY <1>1, <1>2, PTL DEF NicSpec

LEMMA NicFifoStep ==
  ASSUME NicAssumption, NicInv, RxEffect
  PROVE  [RxFifo!Next]_(<<Unread, received>>)
<1> DEFINE Cap == E1000_NUM_RX_DESC - 1
<1>1. Unread \in Seq(Packets) /\ Cap \in Nat /\ Cap = Count - 1 /\ 1 \in Nat \ {0}
  BY UnreadFacts DEF NicAssumption, Count
<1> HIDE DEF Cap
<1>2. ASSUME NEW p \in Packets, Len(Unread) < Count - 1, Unread' = Append(Unread, p), received' = received
      PROVE  RxFifo!Next
  <2>1. Accepted(Packets, Unread, Append(Unread, p), Cap, 1)
    <3>1. Len(Unread) < Cap
      BY <1>1, <1>2
    <3> QED
      BY <1>1, <3>1, BurstOne
  <2> QED
    BY <1>2, <2>1, Zenon DEF RxFifo!Next, RxFifo!Arrive, Accepted, Cap
<1>3. ASSUME Unread # << >>, Unread' = Tail(Unread), received' = Head(Unread)
      PROVE  RxFifo!Next
  BY <1>3 DEF RxFifo!Next, RxFifo!Take
<1> QED
  BY <1>2, <1>3 DEF RxEffect

\* Packets are reported in the order of their arrival, each once, and none is
\* overwritten: for any number of descriptors, wherever the ring wraps.
THEOREM NicRefinement == NicSpec => DeliversInOrder
<1>1. nic_hw_init => RxFifo!Init
  BY NicAssumption, NicInitInv
<1>2. NicInv /\ [NicNext]_nicVars => [RxFifo!Next]_(<<Unread, received>>)
  BY NicAssumption, NicStep, NicFifoStep
<1> QED
  BY <1>1, <1>2, NicInvariance, PTL DEF NicSpec, DeliversInOrder, RxFifo!Spec

\* A held request, and a handler that may still report, each take an interrupt
\* that another device requested; no cause the card sets is enabled.
Unspent ==
  (IF requested THEN 1 ELSE 0) + (IF handler \in {"read_icr", "poll"} THEN 1 ELSE 0)

RequestInv ==
  /\ spare \in Int /\ spare >= Unspent
  /\ requested \in BOOLEAN
  /\ "TXDW" \notin icr /\ ims \subseteq {"TXDW"}

LEMMA RequestStep ==
  ASSUME NicAssumption, RequestInv, [NicNext]_nicVars
  PROVE  RequestInv'
<1> USE DEF RequestInv, Unspent
<1>1. ASSUME EnableInterrupt \/ (\E p \in Packets : CardReceives(p))
             \/ (\E sig \in {"RXO", "LSC"} : CardSignals(sig))
      PROVE  RequestInv'
  <2>1. "TXDW" \notin icr' /\ ims' \subseteq {"TXDW"}
    BY <1>1 DEF EnableInterrupt, CardReceives, CardSignals, bootVars
  <2>2. requested' = (requested \/ Edge(icr', ims'))
    BY <1>1, Zenon DEF EnableInterrupt, CardReceives, CardSignals, bootVars
  <2>3. ~Edge(icr', ims')
    BY <2>1 DEF Edge
  <2>4. spare' = spare /\ handler' = handler
    BY <1>1 DEF EnableInterrupt, CardReceives, CardSignals
  <2> QED
    BY <2>1, <2>2, <2>3, <2>4
<1>2. CASE OtherDevice
  BY <1>2 DEF OtherDevice, bootVars
<1>3. CASE Interrupt
  <2>1. /\ requested /\ ~requested' /\ requested' \in BOOLEAN
        /\ handler = "idle" /\ handler' = "read_icr"
    BY <1>3 DEF Interrupt
  <2>2. UNCHANGED <<icr, ims, spare>>
    BY <1>3 DEF Interrupt, bootVars
  <2> QED
    BY <2>1, <2>2
<1>4. CASE nic_irq_handler
  BY <1>4 DEF nic_irq_handler, bootVars
<1>5. CASE nic_rx_poll
  <2>1. handler = "poll" /\ handler' \notin {"read_icr", "poll"} /\ spare' \in {spare, spare - 1}
    BY <1>5 DEF nic_rx_poll
  <2>2. UNCHANGED <<icr, ims, requested>>
    BY <1>5 DEF nic_rx_poll, bootVars
  <2> QED
    BY <2>1, <2>2
<1>6. CASE nic_rx_init \/ Sti \/ WriteTail \/ UNCHANGED nicVars
  <2>1. UNCHANGED <<icr, ims, requested, spare>>
    BY <1>6 DEF nic_rx_init, Sti, WriteTail, nicVars, bootVars
  <2>2. handler' = handler \/ handler' = "idle"
    BY <1>6 DEF nic_rx_init, Sti, WriteTail, nicVars, bootVars
  <2> QED
    BY <2>1, <2>2
<1> QED
  BY <1>1, <1>2, <1>3, <1>4, <1>5, <1>6 DEF NicNext

\* Never more packets are reported than interrupts were requested by other devices
\* of the line, for any number of descriptors and of such interrupts: the card's
\* own causes, masked as relis_nic_init leaves them, never make the handler run.
THEOREM ReportsCorrect == NicSpec => []ReportsRequested
<1>1. nic_hw_init => RequestInv
  <2> SUFFICES ASSUME nic_hw_init PROVE RequestInv
    OBVIOUS
  <2>1. Unspent = 0
    BY DEF nic_hw_init, Unspent
  <2>2. spare \in Int /\ spare >= Unspent
    BY <2>1 DEF nic_hw_init
  <2>3. requested \in BOOLEAN /\ "TXDW" \notin icr /\ ims \subseteq {"TXDW"}
    BY DEF nic_hw_init
  <2> QED
    BY <2>2, <2>3 DEF RequestInv
<1>2. RequestInv /\ [NicNext]_nicVars => RequestInv'
  BY NicAssumption, RequestStep
<1>3. RequestInv => ReportsRequested
  BY DEF RequestInv, Unspent, ReportsRequested
<1> QED
  BY <1>1, <1>2, <1>3, PTL DEF NicSpec
=============================================================================
