------------------------ MODULE AsyncSemaphoreProofs ------------------------
(***************************************************************************)
(* Each operation of an asyncio semaphore keeps it a Gate: the tasks that  *)
(* wait, the tasks that hold a permit and the free permits stay accounted  *)
(* for, whatever the number of tasks.                                      *)
(***************************************************************************)
EXTENDS AsyncSemaphore, SequenceLemmas, FiniteSetTheorems, TLAPS

\* A new semaphore is a gate nobody waits at and nobody has passed.
LEMMA FreshGate ==
  ASSUME NEW T, NEW n \in Nat
  PROVE  Gate(Fresh(n), T, {}, {}, n)
<1>1. Fresh(n) \in [value : Nat, waiting : Seq(T), granted : SUBSET T]
  BY DEF Fresh
<1>2. Len(Fresh(n).waiting) = 0 /\ Fresh(n).granted = {} /\ Fresh(n).value = n
      /\ Fresh(n).waiting = << >>
  BY DEF Fresh
<1>3. Cardinality({}) = 0
  BY FS_EmptySet
<1>4. InLine(Fresh(n), T, {})
  BY <1>1, <1>2 DEF InLine
<1> QED
  BY <1>2, <1>3, <1>4 DEF Gate, Permits, NoIdlePermit

\* acquire() on a semaphore that is not locked turns a free permit into a
\* held one.
LEMMA TakeGate ==
  ASSUME NEW T, IsFiniteSet(T), NEW W, NEW H, NEW n \in Nat, NEW s,
         Gate(s, T, W, H, n), ~Locked(s), NEW t \in T, t \notin H
  PROVE  Gate(Take(s), T, W, H \cup {t}, n)
<1>1. /\ s \in [value : Nat, waiting : Seq(T), granted : SUBSET T]
      /\ s.value # 0 /\ s.waiting = << >> /\ s.granted = {}
  BY DEF Gate, InLine, Locked
<1>2. /\ Take(s) \in [value : Nat, waiting : Seq(T), granted : SUBSET T]
      /\ Take(s).value = s.value - 1
      /\ Take(s).waiting = s.waiting
      /\ Take(s).granted = s.granted
  BY <1>1 DEF Take
<1>3. InLine(Take(s), T, W)
  BY <1>2 DEF Gate, InLine
<1>4. IsFiniteSet(H) /\ Cardinality(H) \in Nat
  BY FS_Subset, FS_CardinalityType DEF Gate
<1>5. Cardinality(H \cup {t}) = Cardinality(H) + 1
  BY <1>4, FS_AddElement
<1>6. Cardinality(s.granted) = 0
  BY <1>1, FS_EmptySet
<1> QED
  BY <1>1, <1>2, <1>3, <1>4, <1>5, <1>6 DEF Gate, Permits, NoIdlePermit

\* acquire() on a locked one puts the task at the end of the line.
LEMMA EnqueueGate ==
  ASSUME NEW T, NEW W, NEW H, NEW n \in Nat, NEW s,
         Gate(s, T, W, H, n), Locked(s), NEW t \in T, t \notin W
  PROVE  Gate(Enqueue(s, t), T, W \cup {t}, H, n)
<1> DEFINE q == s.waiting
           e == Enqueue(s, t)
<1>1. s \in [value : Nat, waiting : Seq(T), granted : SUBSET T]
  BY DEF Gate, InLine
<1>2. /\ e \in [value : Nat, waiting : Seq(T), granted : SUBSET T]
      /\ e.value = s.value
      /\ e.waiting = Append(q, t)
      /\ e.granted = s.granted
  <2>1. s.waiting \in Seq(T) /\ Append(s.waiting, t) \in Seq(T)
    BY <1>1
  <2> QED
    BY <1>1, <2>1 DEF Enqueue
<1>3. /\ Len(e.waiting) = Len(q) + 1
      /\ Len(q) \in Nat
      /\ \A i \in 1..Len(q) : e.waiting[i] = q[i]
      /\ e.waiting[Len(q) + 1] = t
  BY <1>1, <1>2
<1>4. /\ \A i \in 1..Len(q) : q[i] # t
      /\ t \notin s.granted
      /\ \A i, j \in 1..Len(q) : q[i] = q[j] => i = j
      /\ \A i \in 1..Len(q) : q[i] \notin s.granted
      /\ W = {q[i] : i \in 1..Len(q)} \cup s.granted
  BY DEF Gate, InLine
<1>5. {e.waiting[i] : i \in 1..Len(e.waiting)} = {q[i] : i \in 1..Len(q)} \cup {t}
  BY <1>3
<1>6. \A i, j \in 1..Len(e.waiting) : e.waiting[i] = e.waiting[j] => i = j
  <2>1. \A i \in 1..Len(e.waiting) : i \in 1..Len(q) \/ i = Len(q) + 1
    BY <1>3
  <2> QED
    BY <1>3, <1>4, <2>1
<1>7. \A i \in 1..Len(e.waiting) : e.waiting[i] \notin e.granted
  BY <1>2, <1>3, <1>4
<1>8. InLine(e, T, W \cup {t})
  BY <1>2, <1>4, <1>5, <1>6, <1>7 DEF InLine
<1>9. s.value = 0 \/ s.granted # {}
  BY DEF Gate, NoIdlePermit, Locked
<1> QED
  BY <1>2, <1>8, <1>9 DEF Gate, Permits, NoIdlePermit

\* Waking the first waiters, one per free permit, keeps the line orderly and
\* the permits accounted for, and leaves no permit idle in front of it.
LEMMA WakeAllLine ==
  ASSUME NEW T, IsFiniteSet(T), NEW W, NEW s, InLine(s, T, W)
  PROVE  /\ InLine(WakeAll(s), T, W)
         /\ Permits(WakeAll(s)) = Permits(s)
         /\ WakeAll(s).waiting # << >> => WakeAll(s).value = 0
         /\ s.granted \subseteq WakeAll(s).granted
<1> DEFINE q     == s.waiting
           n     == IF s.value < Len(q) THEN s.value ELSE Len(q)
           woken == {q[i] : i \in 1..n}
           w     == WakeAll(s)
<1>1. s \in [value : Nat, waiting : Seq(T), granted : SUBSET T]
  BY DEF InLine
<1>2. /\ q \in Seq(T) /\ Len(q) \in Nat /\ s.value \in Nat
      /\ n \in Nat /\ n <= Len(q) /\ n <= s.value
      /\ n = Len(q) \/ n = s.value
      /\ s.granted \subseteq T
      /\ \A i \in 1..Len(q) : q[i] \in T
  BY <1>1
<1>3. /\ w.value = s.value - n
      /\ w.waiting = SubSeq(q, n + 1, Len(q))
      /\ w.granted = s.granted \cup woken
      /\ w = [value |-> s.value - n, waiting |-> SubSeq(q, n + 1, Len(q)),
              granted |-> s.granted \cup woken]
  BY DEF WakeAll
<1>4. /\ SubSeq(q, n + 1, Len(q)) \in Seq(T)
      /\ Len(w.waiting) = Len(q) - n
      /\ \A i \in 1..(Len(q) - n) : w.waiting[i] = q[n + i]
  <2> HIDE DEF n
  <2>1. /\ SubSeq(q, n + 1, Len(q)) \in Seq(T)
        /\ Len(SubSeq(q, n + 1, Len(q))) = Len(q) - n
    BY <1>2
  <2>2. \A i \in 1..(Len(q) - n) : SubSeq(q, n + 1, Len(q))[i] = q[n + i]
    BY <1>2
  <2> QED
    BY <1>3, <2>1, <2>2
<1> HIDE DEF n, w, q
<1>5. /\ \A i, j \in 1..Len(q) : q[i] = q[j] => i = j
      /\ \A i \in 1..Len(q) : q[i] \notin s.granted
      /\ W = {q[i] : i \in 1..Len(q)} \cup s.granted
  BY DEF InLine, q
<1>6. w \in [value : Nat, waiting : Seq(T), granted : SUBSET T]
  <2>1. s.value - n \in Nat
    BY <1>2
  <2>2. woken \subseteq T
    BY <1>2
  <2> QED
    BY <1>2, <1>3, <1>4, <2>1, <2>2
<1>7. {q[i] : i \in 1..Len(q)}
        = woken \cup {w.waiting[i] : i \in 1..Len(w.waiting)}
  <2>1. ASSUME NEW i \in 1..Len(q), i \notin 1..n
        PROVE  i - n \in 1..Len(w.waiting) /\ w.waiting[i - n] = q[i]
    BY <1>2, <1>4, <2>1
  <2>2. ASSUME NEW i \in 1..Len(w.waiting)
        PROVE  n + i \in 1..Len(q) /\ w.waiting[i] = q[n + i]
    BY <1>2, <1>4
  <2>3. 1..n \subseteq 1..Len(q)
    BY <1>2
  <2> QED
    BY <2>1, <2>2, <2>3
<1>8. \A i, j \in 1..Len(w.waiting) : w.waiting[i] = w.waiting[j] => i = j
  <2> TAKE i, j \in 1..Len(w.waiting)
  <2>1. /\ n + i \in 1..Len(q) /\ n + j \in 1..Len(q)
        /\ w.waiting[i] = q[n + i] /\ w.waiting[j] = q[n + j]
    BY <1>2, <1>4
  <2>2. q[n + i] = q[n + j] => n + i = n + j
    BY <1>5, <2>1
  <2> QED
    BY <1>2, <1>4, <2>1, <2>2
<1>9. \A i \in 1..Len(w.waiting) : w.waiting[i] \notin w.granted
  <2> TAKE i \in 1..Len(w.waiting)
  <2>1. n + i \in 1..Len(q) /\ w.waiting[i] = q[n + i]
    BY <1>2, <1>4
  <2>2. \A k \in 1..n : k \in 1..Len(q) /\ k # n + i
    BY <1>2, <1>4
  <2>3. q[n + i] \notin woken
    BY <1>5, <2>1, <2>2
  <2> QED
    BY <1>3, <1>5, <2>1, <2>3
<1>10. InLine(w, T, W)
  BY <1>3, <1>5, <1>6, <1>7, <1>8, <1>9 DEF InLine
<1>11. IsFiniteSet(woken) /\ Cardinality(woken) = n
  <2> DEFINE f == [i \in 1..n |-> q[i]]
  <2>1. f \in Bijection(1..n, woken)
    <3>1. 1..n \subseteq 1..Len(q)
      BY <1>2
    <3>2. f \in [1..n -> woken]
      OBVIOUS
    <3>3. \A i, j \in 1..n : f[i] = f[j] => i = j
      BY <1>5, <3>1
    <3>4. \A x \in woken : \E i \in 1..n : f[i] = x
      OBVIOUS
    <3> QED
      BY <3>2, <3>3, <3>4 DEF Bijection, Injection, Surjection, IsInjective
  <2>2. ExistsBijection(1..n, woken)
    BY <2>1 DEF ExistsBijection
  <2>3. IsFiniteSet(1..n) /\ Cardinality(1..n) = n
    BY <1>2, FS_Interval
  <2> QED
    BY <2>2, <2>3, FS_Bijection
<1>12. Cardinality(w.granted) = Cardinality(s.granted) + n
       /\ Cardinality(s.granted) \in Nat
  <2>1. IsFiniteSet(s.granted) /\ Cardinality(s.granted) \in Nat
    BY <1>2, FS_Subset, FS_CardinalityType
  <2>2. s.granted \cap woken = {}
    BY <1>2, <1>5
  <2>3. Cardinality(s.granted \cap woken) = 0
    BY <2>2, FS_EmptySet
  <2>4. Cardinality(s.granted \cup woken)
          = Cardinality(s.granted) + Cardinality(woken) - Cardinality(s.granted \cap woken)
    BY <1>11, <2>1, FS_Union
  <2> QED
    BY <1>2, <1>3, <1>11, <2>1, <2>3, <2>4
<1>13. Permits(w) = Permits(s)
  BY <1>2, <1>3, <1>12 DEF Permits
<1>14. w.waiting # << >> => w.value = 0
  <2>1. w.waiting # << >> => Len(w.waiting) # 0
    BY <1>6
  <2> QED
    BY <1>2, <1>3, <1>4, <2>1
<1> QED
  BY <1>3, <1>10, <1>13, <1>14 DEF w

\* A woken task leaves the line with its permit, and the wake-up goes on.
LEMMA ResumeGate ==
  ASSUME NEW T, IsFiniteSet(T), NEW W, NEW H, NEW n \in Nat, NEW s,
         Gate(s, T, W, H, n), NEW t \in s.granted, t \notin H
  PROVE  Gate(Resume(s, t), T, W \ {t}, H \cup {t}, n)
<1> DEFINE r == [s EXCEPT !.granted = @ \ {t}]
<1>1. s \in [value : Nat, waiting : Seq(T), granted : SUBSET T]
  BY DEF Gate, InLine
<1>2. /\ r \in [value : Nat, waiting : Seq(T), granted : SUBSET T]
      /\ r.value = s.value
      /\ r.waiting = s.waiting
      /\ r.granted = s.granted \ {t}
  BY <1>1
<1>3. InLine(r, T, W \ {t})
  BY <1>2 DEF Gate, InLine
<1>4. Permits(r) = Permits(s) - 1
  <2>1. IsFiniteSet(s.granted) /\ Cardinality(s.granted) \in Nat
    BY <1>1, FS_Subset, FS_CardinalityType
  <2>2. Cardinality(s.granted \ {t}) = Cardinality(s.granted) - 1
    BY <2>1, FS_RemoveElement
  <2> QED
    BY <1>1, <1>2, <2>1, <2>2 DEF Permits
<1>5. Resume(s, t) = WakeAll(r)
  BY DEF Resume
<1>6. /\ InLine(WakeAll(r), T, W \ {t})
      /\ Permits(WakeAll(r)) = Permits(r)
      /\ NoIdlePermit(WakeAll(r))
  BY <1>3, WakeAllLine DEF NoIdlePermit
<1>7. /\ IsFiniteSet(H) /\ Cardinality(H) \in Nat
      /\ Cardinality(H \cup {t}) = Cardinality(H) + 1
  <2>1. IsFiniteSet(H) /\ Cardinality(H) \in Nat
    BY FS_Subset, FS_CardinalityType DEF Gate
  <2> QED
    BY <2>1, FS_AddElement
<1>8. Permits(s) + Cardinality(H) = n /\ Permits(s) \in Nat
  <2>1. IsFiniteSet(s.granted) /\ Cardinality(s.granted) \in Nat
    BY <1>1, FS_Subset, FS_CardinalityType
  <2> QED
    BY <1>1, <2>1 DEF Gate, Permits
<1>9. H \cup {t} \subseteq T
  BY <1>1 DEF Gate
<1>10. Permits(WakeAll(r)) + Cardinality(H \cup {t}) = n
  BY <1>4, <1>6, <1>7, <1>8
<1> QED
  BY <1>5, <1>6, <1>9, <1>10 DEF Gate

\* release() hands the permit over or puts it back.
LEMMA ReleaseGate ==
  ASSUME NEW T, IsFiniteSet(T), NEW W, NEW H, NEW n \in Nat, NEW s,
         Gate(s, T, W, H, n), NEW t \in H
  PROVE  Gate(Release(s), T, W, H \ {t}, n)
<1> DEFINE q == s.waiting
           r == Release(s)
<1>1. /\ s \in [value : Nat, waiting : Seq(T), granted : SUBSET T]
      /\ q \in Seq(T) /\ Len(q) \in Nat
      /\ s.value \in Nat /\ s.granted \subseteq T
  BY DEF Gate, InLine
<1>2. /\ IsFiniteSet(H) /\ Cardinality(H) \in Nat
      /\ Cardinality(H \ {t}) = Cardinality(H) - 1
  <2>1. IsFiniteSet(H) /\ Cardinality(H) \in Nat
    BY FS_Subset, FS_CardinalityType DEF Gate
  <2> QED
    BY <2>1, FS_RemoveElement
<1>3. /\ IsFiniteSet(s.granted) /\ Cardinality(s.granted) \in Nat
      /\ Permits(s) + Cardinality(H) = n
      /\ H \ {t} \subseteq T
  BY <1>1, FS_Subset, FS_CardinalityType DEF Gate
<1>4. CASE q = << >>
  <2>1. /\ r \in [value : Nat, waiting : Seq(T), granted : SUBSET T]
        /\ r.value = s.value + 1
        /\ r.waiting = s.waiting
        /\ r.granted = s.granted
    BY <1>1, <1>4 DEF Release
  <2>2. InLine(r, T, W)
    BY <2>1 DEF Gate, InLine
  <2>3. Permits(r) + Cardinality(H \ {t}) = n
    BY <1>1, <1>2, <1>3, <2>1 DEF Permits
  <2>4. NoIdlePermit(r)
    BY <1>4, <2>1 DEF NoIdlePermit
  <2> QED
    BY <1>3, <2>2, <2>3, <2>4 DEF Gate
<1>5. CASE q # << >>
  <2>1. /\ Head(q) = q[1] /\ 1 \in 1..Len(q) /\ q[1] \in T
        /\ Tail(q) \in Seq(T)
        /\ Len(Tail(q)) = Len(q) - 1
        /\ \A i \in 1..(Len(q) - 1) : Tail(q)[i] = q[i + 1]
    BY <1>1, <1>5
  <2>2. /\ r \in [value : Nat, waiting : Seq(T), granted : SUBSET T]
        /\ r.value = s.value
        /\ r.waiting = Tail(q)
        /\ r.granted = s.granted \cup {q[1]}
    BY <1>1, <1>5, <2>1 DEF Release
  <2> HIDE DEF r, q
  <2>3. /\ \A i, j \in 1..Len(q) : q[i] = q[j] => i = j
        /\ \A i \in 1..Len(q) : q[i] \notin s.granted
        /\ W = {q[i] : i \in 1..Len(q)} \cup s.granted
    BY DEF Gate, InLine, q
  <2>4. \A i \in 1..Len(r.waiting) :
          /\ i + 1 \in 1..Len(q) /\ r.waiting[i] = q[i + 1] /\ i + 1 # 1
    BY <1>1, <2>1, <2>2
  <2>5. /\ \A i, j \in 1..Len(r.waiting) : r.waiting[i] = r.waiting[j] => i = j
        /\ \A i \in 1..Len(r.waiting) : r.waiting[i] \notin r.granted
    <3>1. ASSUME NEW i \in 1..Len(r.waiting), NEW j \in 1..Len(r.waiting),
                 r.waiting[i] = r.waiting[j]
          PROVE  i = j
      <4>1. i + 1 = j + 1
        BY <2>3, <2>4, <3>1
      <4> QED
        BY <1>1, <2>1, <2>2, <4>1
    <3>2. ASSUME NEW i \in 1..Len(r.waiting)
          PROVE  r.waiting[i] \notin r.granted
      BY <2>1, <2>2, <2>3, <2>4
    <3> QED
      BY <3>1, <3>2
  <2>6. {q[i] : i \in 1..Len(q)} = {r.waiting[i] : i \in 1..Len(r.waiting)} \cup {q[1]}
    <3>1. ASSUME NEW i \in 1..Len(q), i # 1
          PROVE  i - 1 \in 1..Len(r.waiting) /\ r.waiting[i - 1] = q[i]
      BY <1>1, <2>1, <2>2, <3>1
    <3>2. \A x \in {q[i] : i \in 1..Len(q)} :
            x \in {r.waiting[i] : i \in 1..Len(r.waiting)} \cup {q[1]}
      BY <3>1
    <3>3. \A x \in {r.waiting[i] : i \in 1..Len(r.waiting)} \cup {q[1]} :
            x \in {q[i] : i \in 1..Len(q)}
      BY <2>1, <2>4
    <3> QED
      BY <3>2, <3>3
  <2>7. InLine(r, T, W)
    BY <2>2, <2>3, <2>5, <2>6 DEF InLine
  <2>8. Cardinality(r.granted) = Cardinality(s.granted) + 1
    <3>1. q[1] \notin s.granted
      BY <2>1, <2>3
    <3>2. Cardinality(s.granted \cup {q[1]}) = Cardinality(s.granted) + 1
      BY <1>3, <3>1, FS_AddElement
    <3> QED
      BY <2>2, <3>2
  <2>9. Permits(r) + Cardinality(H \ {t}) = n
    BY <1>1, <1>2, <1>3, <2>2, <2>8 DEF Permits
  <2>10. NoIdlePermit(r)
    BY <2>2 DEF NoIdlePermit
  <2> QED
    BY <1>3, <2>7, <2>9, <2>10 DEF Gate, r
<1> QED
  BY <1>4, <1>5

\* A cancelled waiter leaves the line, its permit, if it had been granted
\* one, goes to the next, and nobody else is disturbed.
LEMMA CancelGate ==
  ASSUME NEW T, IsFiniteSet(T), NEW W, NEW H, NEW n \in Nat, NEW s,
         Gate(s, T, W, H, n), NEW t \in W
  PROVE  Gate(CancelWait(s, t), T, W \ {t}, H, n)
<1>1. /\ s \in [value : Nat, waiting : Seq(T), granted : SUBSET T]
      /\ s.waiting \in Seq(T) /\ Len(s.waiting) \in Nat
      /\ s.value \in Nat /\ s.granted \subseteq T
      /\ H \subseteq T
  BY DEF Gate, InLine
<1>2. IsFiniteSet(s.granted) /\ Cardinality(s.granted) \in Nat
  BY <1>1, FS_Subset, FS_CardinalityType
<1>3. SUFFICES ASSUME NEW r, CancelWait(s, t) = WakeAll(r),
                      InLine(r, T, W \ {t}), Permits(r) = Permits(s)
               PROVE  Gate(WakeAll(r), T, W \ {t}, H, n)
  <2>1. CASE t \in s.granted
    <3> DEFINE r == PutBack(s, t)
    <3>1. /\ r \in [value : Nat, waiting : Seq(T), granted : SUBSET T]
          /\ r.value = s.value + 1
          /\ r.waiting = s.waiting
          /\ r.granted = s.granted \ {t}
      BY <1>1 DEF PutBack
    <3>2. InLine(r, T, W \ {t})
      BY <2>1, <3>1 DEF Gate, InLine
    <3>3. Cardinality(s.granted \ {t}) = Cardinality(s.granted) - 1
      BY <1>2, <2>1, FS_RemoveElement
    <3>4. Permits(r) = Permits(s)
      BY <1>1, <1>2, <3>1, <3>3 DEF Permits
    <3>5. CancelWait(s, t) = WakeAll(r)
      BY <2>1 DEF CancelWait
    <3> HIDE DEF r
    <3> QED
      BY <1>3, <3>2, <3>4, <3>5
  <2>2. CASE t \notin s.granted
    <3> DEFINE q == s.waiting
               k == CHOOSE j \in 1..Len(q) : q[j] = t
               r == [s EXCEPT !.waiting = RemoveAt(@, k)]
    <3>1. /\ \A i, j \in 1..Len(q) : q[i] = q[j] => i = j
          /\ \A i \in 1..Len(q) : q[i] \notin s.granted
          /\ W = {q[i] : i \in 1..Len(q)} \cup s.granted
      BY DEF Gate, InLine
    <3>2. k \in 1..Len(q) /\ q[k] = t
      <4>1. \E j \in 1..Len(q) : q[j] = t
        BY <2>2, <3>1
      <4> QED
        BY <4>1
    <3>3. CancelWait(s, t) = WakeAll(r)
      BY <2>2 DEF CancelWait
    <3> DEFINE p == RemoveAt(q, k)
    <3>4. /\ r.value = s.value
          /\ r.waiting = p
          /\ r.granted = s.granted
          /\ r = [value |-> s.value, waiting |-> p, granted |-> s.granted]
      BY <1>1
    <3> HIDE DEF k
    <3>5. /\ p \in Seq(T) /\ Len(p) = Len(q) - 1
          /\ \A i \in 1..(Len(q) - 1) : p[i] = IF i < k THEN q[i] ELSE q[i + 1]
      BY <1>1, <3>2, RemoveAtSeq
    <3> HIDE DEF p, q, r
    <3> DEFINE old(i) == IF i < k THEN i ELSE i + 1
    <3>6. \A i \in 1..Len(p) : p[i] = q[old(i)] /\ old(i) \in (1..Len(q)) \ {k}
      BY <1>1, <3>2, <3>5 DEF q
    <3>7. \A j \in (1..Len(q)) \ {k} : \E i \in 1..Len(p) : p[i] = q[j]
      <4> TAKE j \in (1..Len(q)) \ {k}
      <4>1. CASE j < k
        <5>1. j \in 1..Len(p) /\ p[j] = q[j]
          BY <1>1, <3>2, <3>5, <4>1 DEF q
        <5> QED
          BY <5>1
      <4>2. CASE ~(j < k)
        <5>1. j - 1 \in 1..Len(p) /\ p[j - 1] = q[j]
          BY <1>1, <3>2, <3>5, <4>2 DEF q
        <5> QED
          BY <5>1
      <4> QED
        BY <4>1, <4>2
    <3>8. \A i, j \in 1..Len(p) : p[i] = p[j] => i = j
      <4> TAKE i, j \in 1..Len(p)
      <4>1. p[i] = p[j] => old(i) = old(j)
        BY <3>1, <3>6
      <4>2. old(i) = old(j) => i = j
        BY <1>1, <3>2 DEF q
      <4> QED
        BY <4>1, <4>2
    <3>9. \A i \in 1..Len(p) : p[i] \notin s.granted
      BY <3>1, <3>6
    <3>10. {p[i] : i \in 1..Len(p)} = {q[i] : i \in 1..Len(q)} \ {t}
      <4>1. \A x \in {p[i] : i \in 1..Len(p)} : x \in {q[i] : i \in 1..Len(q)} \ {t}
        BY <3>1, <3>2, <3>6
      <4>2. \A x \in {q[i] : i \in 1..Len(q)} \ {t} : x \in {p[i] : i \in 1..Len(p)}
        BY <3>2, <3>7
      <4> QED
        BY <4>1, <4>2
    <3>11. W \ {t} = {p[i] : i \in 1..Len(p)} \cup s.granted
      BY <2>2, <3>1, <3>10
    <3>12. r \in [value : Nat, waiting : Seq(T), granted : SUBSET T]
      BY <1>1, <3>4, <3>5
    <3>13. InLine(r, T, W \ {t})
      BY <3>4, <3>8, <3>9, <3>11, <3>12 DEF InLine
    <3>14. Permits(r) = Permits(s)
      BY <3>4 DEF Permits
    <3> QED
      BY <1>3, <3>3, <3>13, <3>14
  <2> QED
    BY <2>1, <2>2
<1>4. /\ InLine(WakeAll(r), T, W \ {t})
      /\ Permits(WakeAll(r)) = Permits(r)
      /\ NoIdlePermit(WakeAll(r))
  BY <1>3, WakeAllLine DEF NoIdlePermit
<1> QED
  BY <1>1, <1>3, <1>4 DEF Gate
=============================================================================
