--------------------------- MODULE AsyncSemaphore ---------------------------
(***************************************************************************)
(* CPython's asyncio.Semaphore and asyncio.Lock, as the service uses them  *)
(* (external code: src/ only constructs, enters and leaves them).          *)
(*                                                                         *)
(* A semaphore is a record: `value` free permits, `waiting` the tasks      *)
(* suspended in acquire() in arrival order, and `granted` the tasks whose  *)
(* future release() has already resolved but which the event loop has not  *)
(* resumed yet.  release() hands its permit over: it decrements the value  *)
(* again on behalf of the waiter it wakes, so nobody can barge in.  An     *)
(* asyncio.Lock behaves as a semaphore with one permit: a released lock    *)
(* whose first waiter has been woken is refused to every other task.       *)
(***************************************************************************)
EXTENDS Integers, FiniteSets, SequencesExt

Fresh(n) == [value |-> n, waiting |-> << >>, granted |-> {}]

\* Semaphore.locked(): a newcomer would have to wait.
Locked(s) == s.value = 0 \/ s.waiting # << >> \/ s.granted # {}

\* acquire() on a semaphore that is not locked: no suspension.
Take(s) == [s EXCEPT !.value = @ - 1]

\* acquire() on a locked one: the task suspends behind the others.
Enqueue(s, t) == [s EXCEPT !.waiting = Append(@, t)]

\* (faulty: release() without the wake-up)
ReleaseUnannounced(s) == [s EXCEPT !.value = @ + 1]

\* release(): the permit goes to the oldest waiter, or back to the pool.
Release(s) ==
  IF s.waiting = << >>
  THEN [s EXCEPT !.value = @ + 1]
  ELSE [s EXCEPT !.waiting = Tail(@), !.granted = @ \cup {Head(s.waiting)}]

\* The loop that ends acquire(): while the value is positive, wake the next.
WakeAll(s) ==
  LET n     == IF s.value < Len(s.waiting) THEN s.value ELSE Len(s.waiting)
      woken == {s.waiting[i] : i \in 1..n}
  IN  [value   |-> s.value - n,
       waiting |-> SubSeq(s.waiting, n + 1, Len(s.waiting)),
       granted |-> s.granted \cup woken]

\* A granted task runs again and returns from acquire() with its permit.
Resume(s, t) == WakeAll([s EXCEPT !.granted = @ \ {t}])

PutBack(s, t) ==
  [value |-> s.value + 1, waiting |-> s.waiting, granted |-> s.granted \ {t}]

\* CancelledError in acquire(): a granted task puts its permit back, one
\* that still waits leaves the line; either way the loop above follows.
CancelWait(s, t) ==
  IF t \in s.granted
  THEN WakeAll(PutBack(s, t))
  ELSE LET i == CHOOSE j \in 1..Len(s.waiting) : s.waiting[j] = t
       IN  WakeAll([s EXCEPT !.waiting = RemoveAt(@, i)])
-----------------------------------------------------------------------------
(* What its users rely on, for tasks T of which W are suspended in acquire *)
(* and H hold one of the n permits.                                        *)

\* The line is orderly: each task of W is once in it, or woken, not both.
InLine(s, T, W) ==
  /\ s \in [value : Nat, waiting : Seq(T), granted : SUBSET T]
  /\ \A i, j \in 1..Len(s.waiting) : s.waiting[i] = s.waiting[j] => i = j
  /\ \A i \in 1..Len(s.waiting) : s.waiting[i] \notin s.granted
  /\ W = {s.waiting[i] : i \in 1..Len(s.waiting)} \cup s.granted

Permits(s) == s.value + Cardinality(s.granted)

\* A permit lies idle in front of a line only while a woken task is about
\* to pass the wake-up on.
NoIdlePermit(s) == s.waiting # << >> => s.value = 0 \/ s.granted # {}

Gate(s, T, W, H, n) ==
  /\ InLine(s, T, W)
  /\ H \subseteq T
  /\ Permits(s) + Cardinality(H) = n
  /\ NoIdlePermit(s)
=============================================================================
