--------------------------- MODULE SequenceLemmas ---------------------------
(***************************************************************************)
(* Lemmas about sequences, and about counting, that other proofs rest on.  *)
(***************************************************************************)
EXTENDS SequencesExt, WellFoundedInduction, TLAPS

\* Taking one position out of a sequence leaves the others in order.
LEMMA RemoveAtSeq ==
  ASSUME NEW T, NEW q \in Seq(T), NEW k \in 1..Len(q)
  PROVE  /\ RemoveAt(q, k) \in Seq(T)
         /\ Len(RemoveAt(q, k)) = Len(q) - 1
         /\ \A i \in 1..(Len(q) - 1) :
              RemoveAt(q, k)[i] = IF i < k THEN q[i] ELSE q[i + 1]
<1> DEFINE a == SubSeq(q, 1, k - 1)
           b == SubSeq(q, k + 1, Len(q))
<1>1. Len(q) \in Nat /\ k \in Nat /\ 1 <= k /\ k <= Len(q)
  OBVIOUS
<1>2. a \in Seq(T) /\ Len(a) = k - 1 /\ \A i \in 1..(k - 1) : a[i] = q[i]
  BY <1>1
<1>3. /\ b \in Seq(T) /\ Len(b) = Len(q) - k
      /\ \A i \in 1..(Len(q) - k) : b[i] = q[k + i]
  BY <1>1
<1>4. RemoveAt(q, k) = a \o b
  BY DEF RemoveAt
<1> HIDE DEF a, b
<1>5. /\ a \o b \in Seq(T) /\ Len(a \o b) = Len(a) + Len(b)
      /\ \A i \in 1..(Len(a) + Len(b)) :
           (a \o b)[i] = IF i <= Len(a) THEN a[i] ELSE b[i - Len(a)]
  BY <1>2, <1>3
<1>6. ASSUME NEW i \in 1..(Len(q) - 1)
      PROVE  (a \o b)[i] = IF i < k THEN q[i] ELSE q[i + 1]
  <2>1. CASE i < k
    BY <1>1, <1>2, <1>3, <1>5, <2>1
  <2>2. CASE ~(i < k)
    <3>1. /\ (a \o b)[i] = b[i - (k - 1)]
          /\ i - (k - 1) \in 1..(Len(q) - k)
          /\ k + (i - (k - 1)) = i + 1
      BY <1>1, <1>2, <1>3, <1>5, <2>2
    <3> QED
      BY <1>3, <2>2, <3>1
  <2> QED
    BY <2>1, <2>2
<1> QED
  BY <1>1, <1>2, <1>3, <1>4, <1>5, <1>6

\* The element at one position moved to the end: everything behind it comes
\* one forward.
LEMMA MovedToEndSeq ==
  ASSUME NEW T, NEW q \in Seq(T), NEW k \in 1..Len(q)
  PROVE  /\ Append(RemoveAt(q, k), q[k]) \in Seq(T)
         /\ Len(Append(RemoveAt(q, k), q[k])) = Len(q)
         /\ \A i \in 1..Len(q) :
              Append(RemoveAt(q, k), q[k])[i] =
                IF i < k THEN q[i] ELSE IF i < Len(q) THEN q[i + 1] ELSE q[k]
<1> DEFINE r == RemoveAt(q, k)
<1>1. /\ r \in Seq(T) /\ Len(r) = Len(q) - 1
      /\ \A i \in 1..(Len(q) - 1) : r[i] = IF i < k THEN q[i] ELSE q[i + 1]
  BY RemoveAtSeq
<1> HIDE DEF r
<1>2. /\ Append(r, q[k]) \in Seq(T) /\ Len(Append(r, q[k])) = Len(r) + 1
      /\ \A i \in 1..Len(r) : Append(r, q[k])[i] = r[i]
      /\ Append(r, q[k])[Len(r) + 1] = q[k]
  BY <1>1
<1>3. ASSUME NEW i \in 1..Len(q)
      PROVE  Append(r, q[k])[i] =
               IF i < k THEN q[i] ELSE IF i < Len(q) THEN q[i + 1] ELSE q[k]
  <2>1. CASE i < Len(q)
    BY <1>1, <1>2, <2>1
  <2>2. CASE i = Len(q)
    BY <1>1, <1>2, <2>2
  <2>3. i < Len(q) \/ i = Len(q)
    OBVIOUS
  <2> QED
    BY <2>1, <2>2, <2>3
<1> QED
  BY <1>1, <1>2, <1>3 DEF r
-----------------------------------------------------------------------------
(* Induction over the natural numbers, as the least counterexample          *)

Less == {p \in Nat \X Nat : p[1] < p[2]}

LEMMA LeastNat ==
  ASSUME NEW S, S \subseteq Nat, S # {}
  PROVE  \E n \in S : \A m \in S : n <= m
<1>1. IsWellFoundedOn(Less, Nat)
  BY NatLessThanWellFounded DEF OpToRel, Less
<1>2. PICK n \in S : \A m \in S : <<m, n>> \notin Less
  BY <1>1, WFMin, Zenon
<1>3. ASSUME NEW m \in S
      PROVE  n <= m
  <2>1. m \in Nat /\ n \in Nat /\ <<m, n>> \in Nat \X Nat
    OBVIOUS
  <2>2. ~(m < n)
    BY <1>2, <2>1 DEF Less
  <2> QED
    BY <2>1, <2>2
<1> QED
  BY <1>3

\* A set that has 1, and with each number the next one, has all up to n.
LEMMA CountingUp ==
  ASSUME NEW n \in Nat, NEW S, 1 \in S,
         \A i \in 1..n : i \in S /\ i + 1 <= n => i + 1 \in S
  PROVE  1..n \subseteq S
<1> SUFFICES ASSUME (1..n) \ S # {}
             PROVE  FALSE
  OBVIOUS
<1> DEFINE missing == (1..n) \ S
<1>1. PICK i \in missing : \A j \in missing : i <= j
  <2>1. missing \subseteq Nat /\ missing # {}
    OBVIOUS
  <2> HIDE DEF missing
  <2> QED
    BY <2>1, LeastNat
<1>2. i - 1 \in 1..n /\ i - 1 \in S
  BY <1>1
<1> QED
  BY <1>1, <1>2

-----------------------------------------------------------------------------
(* FlattenSeq, which is defined by recursion                               *)

Flattening(f, strings) ==
  f = [i \in 1..Len(strings) |-> IF i = 1 THEN strings[i] ELSE f[i - 1] \o strings[i]]

LEMMA FlatteningExists ==
  ASSUME NEW T, NEW strings \in Seq(Seq(T)), strings # << >>
  PROVE  \E f : Flattening(f, strings)
<1> DEFINE Upto(f, n) ==
             f = [i \in 1..n |-> IF i = 1 THEN strings[i] ELSE f[i - 1] \o strings[i]]
           S == {n \in 1..Len(strings) : \E f : Upto(f, n)}
<1>1. 1 \in S
  <2>1. Upto([i \in 1..1 |-> strings[i]], 1)
    OBVIOUS
  <2>2. 1 \in 1..Len(strings)
    OBVIOUS
  <2> HIDE DEF Upto
  <2> QED
    BY <2>1, <2>2
<1>2. ASSUME NEW n \in 1..Len(strings), n \in S, n + 1 <= Len(strings)
      PROVE  n + 1 \in S
  <2>1. PICK f : Upto(f, n)
    BY <1>2
  <2> DEFINE g == [i \in 1..(n + 1) |-> IF i = n + 1 THEN f[n] \o strings[i] ELSE f[i]]
  <2> HIDE DEF Upto
  <2>2. \A i \in 1..n : f[i] = IF i = 1 THEN strings[i] ELSE f[i - 1] \o strings[i]
    BY <2>1 DEF Upto
  <2>3. ASSUME NEW i \in 1..(n + 1)
        PROVE  g[i] = IF i = 1 THEN strings[i] ELSE g[i - 1] \o strings[i]
    BY <2>2
  <2>4. Upto(g, n + 1)
    BY <2>3 DEF Upto
  <2> QED
    BY <1>2, <2>4
<1>3. Len(strings) \in S
  <2>1. Len(strings) \in Nat /\ Len(strings) >= 1
    OBVIOUS
  <2> HIDE DEF S
  <2>2. 1..Len(strings) \subseteq S
    BY <1>1, <1>2, <2>1, CountingUp
  <2> QED
    BY <2>1, <2>2
<1> QED
  BY <1>3 DEF Flattening

LEMMA FlattenSeqRec ==
  ASSUME NEW T, NEW strings \in Seq(Seq(T)), strings # << >>
  PROVE  \E f : Flattening(f, strings) /\ FlattenSeq(strings) = f[Len(strings)]
<1> DEFINE f == CHOOSE f : Flattening(f, strings)
<1>1. Flattening(f, strings)
  BY FlatteningExists
<1>2. FlattenSeq(strings) = f[Len(strings)]
  BY DEF FlattenSeq, Flattening
<1> QED
  BY <1>1, <1>2

LEMMA FlattenOne ==
  ASSUME NEW T, NEW s \in Seq(T)
  PROVE  FlattenSeq(<<s>>) = s
<1>1. <<s>> \in Seq(Seq(T)) /\ <<s>> # << >> /\ Len(<<s>>) = 1 /\ <<s>>[1] = s
  OBVIOUS
<1>2. PICK f : Flattening(f, <<s>>) /\ FlattenSeq(<<s>>) = f[Len(<<s>>)]
  BY <1>1, FlattenSeqRec
<1> QED
  BY <1>1, <1>2 DEF Flattening

LEMMA FlattenAppend ==
  ASSUME NEW T, NEW strings \in Seq(Seq(T)), strings # << >>, NEW s \in Seq(T)
  PROVE  /\ FlattenSeq(Append(strings, s)) = FlattenSeq(strings) \o s
         /\ FlattenSeq(strings) \in Seq(T)
<1> DEFINE n == Len(strings)
           more == Append(strings, s)
<1>1. /\ n \in Nat \ {0} /\ more \in Seq(Seq(T)) /\ Len(more) = n + 1 /\ more # << >>
      /\ \A i \in 1..n : more[i] = strings[i] /\ strings[i] \in Seq(T)
      /\ more[n + 1] = s
  OBVIOUS
<1>2. PICK f : Flattening(f, strings) /\ FlattenSeq(strings) = f[n]
  BY FlattenSeqRec
<1> HIDE DEF more
<1>3. PICK g : Flattening(g, more) /\ FlattenSeq(more) = g[n + 1]
  BY <1>1, FlattenSeqRec
<1> HIDE DEF n
<1>4. /\ \A i \in 1..n : f[i] = IF i = 1 THEN strings[i] ELSE f[i - 1] \o strings[i]
      /\ \A i \in 1..(n + 1) : g[i] = IF i = 1 THEN more[i] ELSE g[i - 1] \o more[i]
  BY <1>1, <1>2, <1>3 DEF Flattening, n
<1> DEFINE S == {i \in 1..n : f[i] = g[i] /\ f[i] \in Seq(T)}
<1>5. 1..n \subseteq S
  <2>1. 1 \in S
    BY <1>1, <1>4
  <2>2. ASSUME NEW i \in 1..n, i \in S, i + 1 <= n
        PROVE  i + 1 \in S
    <3>1. /\ i + 1 \in 1..n /\ i + 1 # 1 /\ (i + 1) - 1 = i /\ i + 1 \in 1..(n + 1)
          /\ f[i] = g[i] /\ f[i] \in Seq(T)
      BY <1>1, <2>2
    <3>2. f[i + 1] = f[i] \o strings[i + 1] /\ g[i + 1] = g[i] \o more[i + 1]
      BY <1>4, <3>1
    <3>3. strings[i + 1] \in Seq(T) /\ more[i + 1] = strings[i + 1]
      BY <1>1, <3>1
    <3>4. f[i + 1] = g[i + 1] /\ f[i + 1] \in Seq(T)
      BY <3>1, <3>2, <3>3
    <3> QED
      BY <3>1, <3>4
  <2> HIDE DEF S
  <2> QED
    BY <1>1, <2>1, <2>2, CountingUp
<1>6. f[n] = g[n] /\ f[n] \in Seq(T)
  <2>1. n \in 1..n
    BY <1>1
  <2> QED
    BY <1>5, <2>1
<1>7. g[n + 1] = g[n] \o more[n + 1]
  <2>1. n + 1 \in 1..(n + 1) /\ n + 1 # 1 /\ (n + 1) - 1 = n
    BY <1>1
  <2> QED
    BY <1>4, <2>1
<1> QED
  BY <1>1, <1>2, <1>3, <1>6, <1>7 DEF more
=============================================================================
