------------------------------ MODULE Strings ------------------------------
(***************************************************************************)
(* The memory and string functions of src/lib/string.c as operators on     *)
(* memory: a sequence of bytes m, in which a pointer is an index.  An      *)
(* operator that writes returns the new memory.  A byte outside m is a     *)
(* wild access, and an error of evaluation.                                *)
(* Operators named ..._bug are seeded faults for the mutation runs.        *)
(***************************************************************************)
EXTENDS Loops

Null == 0       \* the pointer 0: indices of m start at 1

\* How often the body of "while (cond) i++" runs; cond[i] is the condition then.
Iterations(cond) ==
  LET run[i \in Nat] == IF cond[i] THEN run[i + 1] ELSE i IN run[0]

kmemset(m, s, c, n) == [i \in DOMAIN m |-> IF i \in s .. s + n - 1 THEN c ELSE m[i]]

\* One byte after the other: a byte written may be the next one read.
CopyBytes(m, dest, src, offsets) ==
  FoldLeft(LAMBDA mem, k : [mem EXCEPT ![dest + k] = mem[src + k]], m, offsets)

Upwards(n)   == [k \in 1 .. n |-> k - 1]
Downwards(n) == [k \in 1 .. n |-> n - k]

kmemcpy(m, dest, src, n) == CopyBytes(m, dest, src, Upwards(n))

kmemmove_bug(m, dest, src, n) == CopyBytes(m, dest, src, Upwards(n))

kmemmove(m, dest, src, n) ==
  CopyBytes(m, dest, src, IF src < dest /\ src + n > dest THEN Downwards(n) ELSE Upwards(n))

kmemcmp(m, s1, s2, n) ==
  LET k == Iterations([i \in Nat |-> i < n /\ m[s1 + i] = m[s2 + i]])
  IN  IF k = n THEN 0 ELSE m[s1 + k] - m[s2 + k]
-----------------------------------------------------------------------------
kstrlen(m, s) == Iterations([i \in Nat |-> m[s + i] # 0])

kstrnlen(m, s, maxlen) == Iterations([i \in Nat |-> i < maxlen /\ m[s + i] # 0])

kstrcmp_bug(m, a, b) ==
  LET k == Iterations([i \in Nat |-> m[a + i] # 0 /\ m[b + i] # 0 /\ m[a + i] = m[b + i]])
  IN  IF m[a + k] = 0 THEN 0 ELSE m[a + k] - m[b + k]

kstrcmp(m, a, b) ==
  LET k == Iterations([i \in Nat |-> m[a + i] # 0 /\ m[a + i] = m[b + i]])
  IN  m[a + k] - m[b + k]

kstrncmp(m, a, b, n) ==
  LET k == Iterations([i \in Nat |-> i < n /\ m[a + i] # 0 /\ m[a + i] = m[b + i]])
  IN  IF k = n THEN 0 ELSE m[a + k] - m[b + k]

\* The terminator is copied too.
kstrcpy(m, dest, src) == kmemcpy(m, dest, src, kstrlen(m, src) + 1)

\* At most n bytes; the rest of the n is filled with zeros.
kstrncpy(m, dest, src, n) ==
  LET k == kstrnlen(m, src, n) IN kmemset(kmemcpy(m, dest, src, k), dest + k, 0, n - k)

\* At most n bytes and a terminator after them.
CopyTerminated(m, dest, src, n) ==
  LET k == kstrnlen(m, src, n) IN kmemset(kmemcpy(m, dest, src, k), dest + k, 0, 1)

kstrscpy(m, dest, src, count) ==
  IF count = 0 THEN m ELSE CopyTerminated(m, dest, src, count - 1)

kstrcat(m, dest, src) == kstrcpy(m, dest + kstrlen(m, dest), src)

kstrncat(m, dest, src, n) == CopyTerminated(m, dest + kstrlen(m, dest), src, n)
-----------------------------------------------------------------------------
\* Looking for the terminator finds the end of the string.
kstrchr(m, s, c) ==
  LET k == Iterations([i \in Nat |-> m[s + i] \notin {0, c}])
  IN  IF m[s + k] = c THEN s + k ELSE Null

kstrrchr(m, s, c) ==
  LET at == {i \in s .. s + kstrlen(m, s) : m[i] = c}
  IN  IF at = {} THEN Null ELSE CHOOSE i \in at : \A j \in at : j <= i

\* The comparison at one place of the haystack ran to the end of the needle.
MatchesAt(m, h, needle) ==
  LET k == Iterations([i \in Nat |-> m[h + i] # 0 /\ m[needle + i] # 0
                                 /\ m[h + i] = m[needle + i]])
  IN  m[needle + k] = 0

kstrstr(m, haystack, needle) ==
  LET k == Iterations([i \in Nat |-> m[haystack + i] # 0 /\ ~MatchesAt(m, haystack + i, needle)])
  IN  IF m[needle] = 0 THEN haystack
      ELSE IF m[haystack + k] = 0 THEN Null ELSE haystack + k

\* The token that starts at stringp is terminated; next is what is left.
kstrsep(m, stringp, delim) ==
  LET k == Iterations([i \in Nat |-> m[stringp + i] # 0
                                 /\ kstrchr(m, delim, m[stringp + i]) = Null])
  IN  IF m[stringp + k] = 0 THEN [mem |-> m, next |-> Null]
      ELSE [mem |-> [m EXCEPT ![stringp + k] = 0], next |-> stringp + k + 1]
=============================================================================
