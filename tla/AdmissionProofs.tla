--------------------------- MODULE AdmissionProofs ---------------------------
(***************************************************************************)
(* Proofs about Admission, for every number of requests and models and     *)
(* every capacity of the queue and of the concurrency gate.                *)
(*                                                                         *)
(* The argument: a step moves one task r from one control state to         *)
(* another.  A gate sees of that move only whether r waits at it, holds    *)
(* it, or neither; so for each gate there is one lemma per kind of move,   *)
(* and each action chains the kinds that its code chains.                  *)
(***************************************************************************)
EXTENDS Admission, AsyncSemaphoreProofs

\* What the provers need of the constants.
LEMMA Constants ==
  /\ IsFiniteSet(Requests) /\ ModelOf \in [Requests -> Models]
  /\ QueueDepth \in Nat /\ Cap \in Nat \ {0} /\ MaxChunks \in Nat \ {0}
BY AdmissionAssumption DEF AdmissionAssumption

-----------------------------------------------------------------------------
(* How one task's move changes the sets of tasks.                          *)

\* A task that moves leaves the sets of states it was in and enters those it
\* goes to; the others stay where they are.
LEMMA AtMove ==
  ASSUME Progress, NEW r \in Requests, NEW to, Goto(r, to), NEW S
  PROVE  /\ r \in At(S) <=> pc[r] \in S
         /\ to \in S => At(S)' = At(S) \cup {r}
         /\ to \notin S => At(S)' = At(S) \ {r}
         /\ (to \in S <=> pc[r] \in S) => At(S)' = At(S)
BY DEF Progress, Goto, At

\* The same for the tasks that hold a model's lock or wait for it.
LEMMA LockSetsMove ==
  ASSUME Progress, NEW r \in Requests, NEW to, Goto(r, to), NEW m
  PROVE  /\ r \in WaitersFor(m) <=> pc[r] = "lock" /\ ModelOf[r] = m
         /\ r \in HoldersOf(m) <=> pc[r] \in HoldsLock /\ ModelOf[r] = m
         /\ ModelOf[r] = m /\ to = "lock" => WaitersFor(m)' = WaitersFor(m) \cup {r}
         /\ ModelOf[r] = m /\ to # "lock" => WaitersFor(m)' = WaitersFor(m) \ {r}
         /\ ModelOf[r] = m /\ to \in HoldsLock => HoldersOf(m)' = HoldersOf(m) \cup {r}
         /\ ModelOf[r] = m /\ to \notin HoldsLock => HoldersOf(m)' = HoldersOf(m) \ {r}
         /\ ModelOf[r] # m => WaitersFor(m)' = WaitersFor(m) /\ HoldersOf(m)' = HoldersOf(m)
BY DEF Progress, Goto, At, WaitersFor, HoldersOf

-----------------------------------------------------------------------------
(* The concurrency semaphore.                                              *)

\* The concurrency gate outlives a move between states that mean the same to
\* it.
LEMMA ConcurrencyStays ==
  ASSUME Progress, ConcurrencyGate, NEW r \in Requests, NEW to, Goto(r, to),
         pc[r] = "concurrency" <=> to = "concurrency",
         pc[r] \in HoldsConcurrency <=> to \in HoldsConcurrency,
         UNCHANGED concurrency
  PROVE  ConcurrencyGate'
<1>1. At({"concurrency"})' = At({"concurrency"})
  BY AtMove
<1>2. At(HoldsConcurrency)' = At(HoldsConcurrency)
  BY AtMove
<1> QED
  BY <1>1, <1>2 DEF ConcurrencyGate

\* async with concur_sem of a free gate: one more holder.
LEMMA ConcurrencyTaken ==
  ASSUME Progress, ConcurrencyGate, NEW r \in Requests, NEW to, Goto(r, to),
         pc[r] \notin HoldsConcurrency \cup {"concurrency"},
         to \in HoldsConcurrency, to # "concurrency",
         ~Locked(concurrency), concurrency' = Take(concurrency)
  PROVE  ConcurrencyGate'
<1>1. At({"concurrency"})' = At({"concurrency"})
  BY AtMove
<1>2. At(HoldsConcurrency)' = At(HoldsConcurrency) \cup {r} /\ r \notin At(HoldsConcurrency)
  BY AtMove
<1> QED
  BY <1>1, <1>2, Constants, TakeGate DEF ConcurrencyGate

\* async with concur_sem of a locked gate: one more waiter.
LEMMA ConcurrencyAwaited ==
  ASSUME Progress, ConcurrencyGate, NEW r \in Requests, Goto(r, "concurrency"),
         pc[r] \notin HoldsConcurrency \cup {"concurrency"},
         Locked(concurrency), concurrency' = Enqueue(concurrency, r)
  PROVE  ConcurrencyGate'
<1>1. At({"concurrency"})' = At({"concurrency"}) \cup {r} /\ r \notin At({"concurrency"})
  BY AtMove
<1>2. "concurrency" \notin HoldsConcurrency
  BY DEF HoldsConcurrency, HoldsLock
<1>3. At(HoldsConcurrency)' = At(HoldsConcurrency)
  BY <1>2, AtMove
<1> QED
  BY <1>1, <1>3, Constants, EnqueueGate DEF ConcurrencyGate

\* Only tasks suspended in acquire() are ever granted a permit.
LEMMA ConcurrencyGranted ==
  ASSUME ConcurrencyGate, NEW r \in concurrency.granted
  PROVE  r \in Requests /\ pc[r] = "concurrency"
BY DEF ConcurrencyGate, Gate, InLine, At

\* A woken waiter takes the permit that was kept for it.
LEMMA ConcurrencyResumed ==
  ASSUME Progress, ConcurrencyGate, NEW r \in Requests, NEW to, Goto(r, to),
         r \in concurrency.granted,
         to \in HoldsConcurrency, to # "concurrency",
         concurrency' = Resume(concurrency, r)
  PROVE  ConcurrencyGate'
<1>1. pc[r] = "concurrency" /\ "concurrency" \notin HoldsConcurrency
  BY ConcurrencyGranted DEF HoldsConcurrency, HoldsLock
<1>2. At({"concurrency"})' = At({"concurrency"}) \ {r}
  BY AtMove
<1>3. At(HoldsConcurrency)' = At(HoldsConcurrency) \cup {r} /\ r \notin At(HoldsConcurrency)
  BY <1>1, AtMove
<1> QED
  BY <1>2, <1>3, Constants, ResumeGate DEF ConcurrencyGate

\* A holder leaves async with concur_sem.
LEMMA ConcurrencyReleased ==
  ASSUME Progress, ConcurrencyGate, NEW r \in Requests, NEW to, Goto(r, to),
         pc[r] \in HoldsConcurrency,
         to \notin HoldsConcurrency \cup {"concurrency"},
         concurrency' = Release(concurrency)
  PROVE  ConcurrencyGate'
<1>1. pc[r] # "concurrency"
  BY DEF HoldsConcurrency, HoldsLock
<1>2. At({"concurrency"})' = At({"concurrency"})
  BY <1>1, AtMove
<1>3. At(HoldsConcurrency)' = At(HoldsConcurrency) \ {r} /\ r \in At(HoldsConcurrency)
  BY AtMove
<1> QED
  BY <1>2, <1>3, Constants, ReleaseGate DEF ConcurrencyGate

\* A waiter of the concurrency gate is cancelled.
LEMMA ConcurrencyWaitCancelled ==
  ASSUME Progress, ConcurrencyGate, NEW r \in Requests, NEW to, Goto(r, to),
         pc[r] = "concurrency",
         to \notin HoldsConcurrency \cup {"concurrency"},
         concurrency' = CancelWait(concurrency, r)
  PROVE  ConcurrencyGate'
<1>1. "concurrency" \notin HoldsConcurrency
  BY DEF HoldsConcurrency, HoldsLock
<1>2. At({"concurrency"})' = At({"concurrency"}) \ {r} /\ r \in At({"concurrency"})
  BY AtMove
<1>3. At(HoldsConcurrency)' = At(HoldsConcurrency)
  BY <1>1, AtMove
<1> QED
  BY <1>2, <1>3, Constants, CancelGate DEF ConcurrencyGate

-----------------------------------------------------------------------------
(* The model locks.                                                        *)

\* No model lock notices a move between states that mean the same to it.
LEMMA LocksStay ==
  ASSUME Progress, LockGates, NEW r \in Requests, NEW to, Goto(r, to),
         pc[r] = "lock" <=> to = "lock",
         pc[r] \in HoldsLock <=> to \in HoldsLock,
         UNCHANGED model_locks
  PROVE  LockGates'
<1>1. \A m \in Models : WaitersFor(m)' = WaitersFor(m) /\ HoldersOf(m)' = HoldersOf(m)
  BY DEF Progress, Goto, At, WaitersFor, HoldersOf
<1> QED
  BY <1>1 DEF LockGates

\* The other models' locks see nothing of r.
LEMMA OneLockMoves ==
  ASSUME Progress, LockGates, NEW r \in Requests, NEW to, Goto(r, to),
         NEW STATE g,
         model_locks' = [model_locks EXCEPT ![ModelOf[r]] = g],
         Gate(g, Requests, WaitersFor(ModelOf[r])', HoldersOf(ModelOf[r])', 1)
  PROVE  LockGates'
<1>1. ModelOf[r] \in Models
  BY Constants
<1>2. g \in [value: Nat, waiting: Seq(Requests), granted: SUBSET Requests]
  BY DEF Gate, InLine
<1>3. model_locks' \in [Models -> [value: Nat, waiting: Seq(Requests), granted: SUBSET Requests]]
  BY <1>1, <1>2 DEF LockGates
<1>4. ASSUME NEW m \in Models
      PROVE  Gate(model_locks'[m], Requests, WaitersFor(m)', HoldersOf(m)', 1)
  <2>1. CASE m = ModelOf[r]
    <3>1. model_locks'[m] = g
      BY <1>1, <2>1 DEF LockGates
    <3> QED
      BY <2>1, <3>1
  <2>2. CASE m # ModelOf[r]
    <3>1. model_locks'[m] = model_locks[m]
      BY <1>1, <2>2 DEF LockGates
    <3>2. WaitersFor(m)' = WaitersFor(m) /\ HoldersOf(m)' = HoldersOf(m)
      BY <2>2, LockSetsMove
    <3> QED
      BY <3>1, <3>2 DEF LockGates
  <2> QED
    BY <2>1, <2>2
<1> QED
  BY <1>3, <1>4 DEF LockGates

\* LockGates, for one model.
LEMMA LockGateOf ==
  ASSUME LockGates, NEW r \in Requests
  PROVE  /\ ModelOf[r] \in Models
         /\ Gate(model_locks[ModelOf[r]], Requests, WaitersFor(ModelOf[r]),
                 HoldersOf(ModelOf[r]), 1)
BY Constants DEF LockGates

\* async with lock of a free model lock: it has a holder.
LEMMA LockTaken ==
  ASSUME Progress, LockGates, NEW r \in Requests, NEW to, Goto(r, to),
         pc[r] \notin HoldsLock \cup {"lock"}, to \in HoldsLock, to # "lock",
         ~Locked(model_locks[ModelOf[r]]),
         model_locks' = [model_locks EXCEPT ![ModelOf[r]] = Take(@)]
  PROVE  LockGates'
<1> DEFINE m == ModelOf[r]
           g == Take(model_locks[m])
<1>1. WaitersFor(m)' = WaitersFor(m) \ {r} /\ r \notin WaitersFor(m)
  BY LockSetsMove
<1>2. HoldersOf(m)' = HoldersOf(m) \cup {r} /\ r \notin HoldersOf(m)
  BY LockSetsMove
<1>3. Gate(g, Requests, WaitersFor(m), HoldersOf(m) \cup {r}, 1)
  BY <1>2, LockGateOf, Constants, TakeGate
<1>4. Gate(g, Requests, WaitersFor(m)', HoldersOf(m)', 1)
  <2>1. WaitersFor(m) \ {r} = WaitersFor(m)
    BY <1>1
  <2> QED
    BY <1>1, <1>2, <1>3, <2>1
<1> QED
  BY <1>4, OneLockMoves

\* async with lock of a held model lock: one more waiter.
LEMMA LockAwaited ==
  ASSUME Progress, LockGates, NEW r \in Requests, Goto(r, "lock"),
         pc[r] \notin HoldsLock \cup {"lock"},
         Locked(model_locks[ModelOf[r]]),
         model_locks' = [model_locks EXCEPT ![ModelOf[r]] = Enqueue(@, r)]
  PROVE  LockGates'
<1> DEFINE m == ModelOf[r]
           g == Enqueue(model_locks[m], r)
<1>1. WaitersFor(m)' = WaitersFor(m) \cup {r} /\ r \notin WaitersFor(m)
  BY LockSetsMove
<1>2. HoldersOf(m)' = HoldersOf(m)
  <2>1. "lock" \notin HoldsLock
    BY DEF HoldsLock
  <2>2. HoldersOf(m)' = HoldersOf(m) \ {r} /\ r \notin HoldersOf(m)
    BY <2>1, LockSetsMove
  <2> QED
    BY <2>2
<1>3. Gate(g, Requests, WaitersFor(m) \cup {r}, HoldersOf(m), 1)
  BY <1>1, LockGateOf, EnqueueGate
<1>4. Gate(g, Requests, WaitersFor(m)', HoldersOf(m)', 1)
  BY <1>1, <1>2, <1>3
<1> QED
  BY <1>4, OneLockMoves

\* Only tasks suspended at a model's lock are ever granted it.
LEMMA LockGranted ==
  ASSUME LockGates, NEW r \in Requests, r \in model_locks[ModelOf[r]].granted
  PROVE  pc[r] = "lock"
BY LockGateOf DEF Gate, InLine, WaitersFor, At

\* A woken waiter becomes the holder of its model's lock.
LEMMA LockResumed ==
  ASSUME Progress, LockGates, NEW r \in Requests, NEW to, Goto(r, to),
         r \in model_locks[ModelOf[r]].granted, to \in HoldsLock, to # "lock",
         model_locks' = [model_locks EXCEPT ![ModelOf[r]] = Resume(@, r)]
  PROVE  LockGates'
<1> DEFINE m == ModelOf[r]
           g == Resume(model_locks[m], r)
<1>1. pc[r] = "lock" /\ pc[r] \notin HoldsLock
  BY LockGranted DEF HoldsLock
<1>2. WaitersFor(m)' = WaitersFor(m) \ {r}
  BY LockSetsMove
<1>3. HoldersOf(m)' = HoldersOf(m) \cup {r} /\ r \notin HoldersOf(m)
  BY <1>1, LockSetsMove
<1>4. Gate(g, Requests, WaitersFor(m) \ {r}, HoldersOf(m) \cup {r}, 1)
  BY <1>3, LockGateOf, Constants, ResumeGate
<1>5. Gate(g, Requests, WaitersFor(m)', HoldersOf(m)', 1)
  BY <1>2, <1>3, <1>4
<1> QED
  BY <1>5, OneLockMoves

\* The holder leaves async with lock.
LEMMA LockReleased ==
  ASSUME Progress, LockGates, NEW r \in Requests, NEW to, Goto(r, to),
         pc[r] \in HoldsLock, to \notin HoldsLock \cup {"lock"},
         model_locks' = [model_locks EXCEPT ![ModelOf[r]] = Release(@)]
  PROVE  LockGates'
<1> DEFINE m == ModelOf[r]
           g == Release(model_locks[m])
<1>1. pc[r] # "lock"
  BY DEF HoldsLock
<1>2. WaitersFor(m)' = WaitersFor(m)
  <2>1. WaitersFor(m)' = WaitersFor(m) \ {r} /\ r \notin WaitersFor(m)
    BY <1>1, LockSetsMove
  <2> QED
    BY <2>1
<1>3. HoldersOf(m)' = HoldersOf(m) \ {r} /\ r \in HoldersOf(m)
  BY LockSetsMove
<1>4. Gate(g, Requests, WaitersFor(m), HoldersOf(m) \ {r}, 1)
  BY <1>3, LockGateOf, Constants, ReleaseGate
<1>5. Gate(g, Requests, WaitersFor(m)', HoldersOf(m)', 1)
  BY <1>2, <1>3, <1>4
<1> QED
  BY <1>5, OneLockMoves

\* A waiter of a model lock is cancelled.
LEMMA LockWaitCancelled ==
  ASSUME Progress, LockGates, NEW r \in Requests, NEW to, Goto(r, to),
         pc[r] = "lock", to \notin HoldsLock \cup {"lock"},
         model_locks' = [model_locks EXCEPT ![ModelOf[r]] = CancelWait(@, r)]
  PROVE  LockGates'
<1> DEFINE m == ModelOf[r]
           g == CancelWait(model_locks[m], r)
<1>1. pc[r] \notin HoldsLock
  BY DEF HoldsLock
<1>2. WaitersFor(m)' = WaitersFor(m) \ {r} /\ r \in WaitersFor(m)
  BY LockSetsMove
<1>3. HoldersOf(m)' = HoldersOf(m)
  <2>1. HoldersOf(m)' = HoldersOf(m) \ {r} /\ r \notin HoldersOf(m)
    BY <1>1, LockSetsMove
  <2> QED
    BY <2>1
<1>4. Gate(g, Requests, WaitersFor(m) \ {r}, HoldersOf(m), 1)
  BY <1>2, LockGateOf, Constants, CancelGate
<1>5. Gate(g, Requests, WaitersFor(m)', HoldersOf(m)', 1)
  BY <1>2, <1>3, <1>4
<1> QED
  BY <1>5, OneLockMoves

-----------------------------------------------------------------------------
(* The queue's permits, and the temporary files that go with them.         *)

\* Any set of requests is finite, so its size is a natural number.
LEMMA AdmittedCount ==
  ASSUME NEW S \in SUBSET Requests
  PROVE  IsFiniteSet(S) /\ Cardinality(S) \in Nat
BY Constants, FS_Subset, FS_CardinalityType

\* A live request that stays alive keeps its queue permit.
LEMMA QueueStays ==
  ASSUME Progress, QueueGate, FilesOwned, NEW r \in Requests, NEW to, Goto(r, to),
         pc[r] \in Admitted <=> to \in Admitted,
         UNCHANGED <<queue_permits, leaked, tmp_files>>
  PROVE  QueueGate' /\ FilesOwned'
<1>1. At(Admitted)' = At(Admitted)
  BY AtMove
<1> QED
  BY <1>1 DEF QueueGate, FilesOwned

\* An admitted request takes one queue permit.
LEMMA QueueEntered ==
  ASSUME Progress, QueueGate, FilesOwned, NEW r \in Requests, NEW to, Goto(r, to),
         pc[r] \notin Admitted, to \in Admitted,
         queue_permits > 0, queue_permits' = queue_permits - 1,
         tmp_files' = tmp_files \cup {r}, UNCHANGED leaked
  PROVE  QueueGate' /\ FilesOwned'
<1>1. At(Admitted)' = At(Admitted) \cup {r} /\ r \notin At(Admitted)
  BY AtMove
<1>2. IsFiniteSet(At(Admitted)) /\ Cardinality(At(Admitted)) \in Nat
  BY AdmittedCount DEF At
<1>3. Cardinality(At(Admitted) \cup {r}) = Cardinality(At(Admitted)) + 1
  BY <1>1, <1>2, FS_AddElement
<1>4. Cardinality(At(Admitted)') = Cardinality(At(Admitted)) + 1
  BY <1>1, <1>3
<1> QED
  BY <1>1, <1>2, <1>4, Constants DEF QueueGate, FilesOwned

\* A task that is admitted no more has either returned its permit or lost it.
LEMMA QueueLeft ==
  ASSUME Progress, QueueGate, FilesOwned, NEW r \in Requests, NEW to, Goto(r, to),
         pc[r] \in Admitted, to \notin Admitted,
         \/ queue_permits' = queue_permits + 1 /\ leaked' = leaked
         \/ queue_permits' = queue_permits /\ leaked' = leaked + 1,
         tmp_files' = tmp_files \ {r}
  PROVE  QueueGate' /\ FilesOwned'
<1>1. At(Admitted)' = At(Admitted) \ {r} /\ r \in At(Admitted)
  BY AtMove
<1>2. IsFiniteSet(At(Admitted)) /\ Cardinality(At(Admitted)) \in Nat
  BY AdmittedCount DEF At
<1>3. Cardinality(At(Admitted) \ {r}) = Cardinality(At(Admitted)) - 1
  BY <1>1, <1>2, FS_RemoveElement
<1>4. Cardinality(At(Admitted)') = Cardinality(At(Admitted)) - 1
  BY <1>1, <1>3
<1> QED
  BY <1>1, <1>2, <1>4 DEF QueueGate, FilesOwned

-----------------------------------------------------------------------------
(* Control states and chunk counts.                                        *)

\* Progress, for a task that moves and perhaps takes a chunk.
LEMMA ProgressMove ==
  ASSUME Progress, NEW r \in Requests, NEW to \in Out \cup Admitted, Goto(r, to),
         left' \in [Requests -> 0..MaxChunks],
         gone' \in [Requests -> Connected..MaxChunks],
         \A s \in Requests \ {r} : left'[s] = left[s],
         to \in Admitted \ {"thread", "send", "abandoned"} => left'[r] > 0
  PROVE  Progress'
<1>1. pc' \in [Requests -> Out \cup Admitted]
  BY DEF Progress, Goto
<1>2. \A s \in Requests \ {r} : pc'[s] = pc[s]
  BY DEF Progress, Goto
<1>3. pc'[r] = to
  BY DEF Progress, Goto
<1>4. \A s \in At(Admitted \ {"thread", "send", "abandoned"})' : left'[s] > 0
  BY <1>2, <1>3 DEF Progress, At
<1> QED
  BY <1>1, <1>4 DEF Progress

\* Progress, for a task that moves with its chunks as they are.
LEMMA ProgressStays ==
  ASSUME Progress, NEW r \in Requests, NEW to \in Out \cup Admitted, Goto(r, to),
         UNCHANGED <<left, gone>>,
         to \in Admitted \ {"thread", "send", "abandoned"} => left[r] > 0
  PROVE  Progress'
BY ProgressMove DEF Progress

\* A finished request has no chunks left and no client.
LEMMA ProgressEnds ==
  ASSUME Progress, NEW r \in Requests, NEW to \in Out, Goto(r, to),
         left' = [left EXCEPT ![r] = 0], gone' = [gone EXCEPT ![r] = Connected]
  PROVE  Progress'
<1>1. to \notin Admitted
  BY DEF Out, Admitted, HoldsConcurrency, HoldsLock
<1>2. 0 \in 0..MaxChunks /\ Connected \in Connected..MaxChunks
  BY Constants DEF Connected
<1>3. /\ left' \in [Requests -> 0..MaxChunks]
      /\ gone' \in [Requests -> Connected..MaxChunks]
      /\ \A s \in Requests \ {r} : left'[s] = left[s]
  BY <1>2 DEF Progress
<1> QED
  BY <1>1, <1>3, ProgressMove

-----------------------------------------------------------------------------
(* The pieces that actions are made of.                                    *)

\* async with lock, entered by a task that has nothing to do with it yet
LEMMA EnterModelLockMoves ==
  ASSUME Progress, LockGates, NEW r \in Requests, EnterModelLock(r),
         pc[r] \notin HoldsLock \cup {"lock"}
  PROVE  LockGates' /\ \E to \in {"poll", "dispatch", "lock"} : Goto(r, to)
<1>1. CASE Locked(model_locks[ModelOf[r]])
  BY <1>1, LockAwaited DEF EnterModelLock
<1>2. CASE ~Locked(model_locks[ModelOf[r]])
  <2>1. PICK to \in {"poll", "dispatch"} : Goto(r, to)
    BY <1>2 DEF EnterModelLock
  <2>2. to \in HoldsLock /\ to # "lock"
    BY DEF HoldsLock
  <2>3. model_locks' = [model_locks EXCEPT ![ModelOf[r]] = Take(@)]
    BY <1>2 DEF EnterModelLock
  <2> QED
    BY <1>2, <2>1, <2>2, <2>3, LockTaken
<1> QED
  BY <1>1, <1>2

\* async with concur_sem
LEMMA EnterConcurrencyMoves ==
  ASSUME Progress, ConcurrencyGate, LockGates, NEW r \in Requests,
         EnterConcurrency(r), pc[r] \notin HoldsConcurrency \cup {"concurrency"}
  PROVE  /\ ConcurrencyGate' /\ LockGates'
         /\ \E to \in {"poll", "dispatch", "lock", "concurrency"} : Goto(r, to)
<1>1. pc[r] \notin HoldsLock \cup {"lock"}
  BY DEF HoldsConcurrency
<1>2. CASE Locked(concurrency)
  <2>1. /\ Goto(r, "concurrency") /\ UNCHANGED model_locks
        /\ concurrency' = Enqueue(concurrency, r)
    BY <1>2 DEF EnterConcurrency
  <2>2. "concurrency" \notin HoldsLock
    BY DEF HoldsLock
  <2>3. LockGates'
    BY <1>1, <2>1, <2>2, LocksStay
  <2> QED
    BY <1>2, <2>1, <2>3, ConcurrencyAwaited
<1>3. CASE ~Locked(concurrency)
  <2>1. concurrency' = Take(concurrency) /\ EnterModelLock(r)
    BY <1>3 DEF EnterConcurrency
  <2>2. PICK to \in {"poll", "dispatch", "lock"} : Goto(r, to)
    BY <1>1, <2>1, EnterModelLockMoves
  <2>3. to \in HoldsConcurrency /\ to # "concurrency"
    BY DEF HoldsConcurrency, HoldsLock
  <2>4. ConcurrencyGate'
    BY <1>3, <2>1, <2>2, <2>3, ConcurrencyTaken
  <2>5. LockGates'
    BY <1>1, <2>1, EnterModelLockMoves
  <2> QED
    BY <2>2, <2>4, <2>5
<1> QED
  BY <1>2, <1>3

\* Leaving both async withs and the finally
LEMMA UnwindKeepsInv ==
  ASSUME Inv, NEW r \in Requests, NEW to \in Out, pc[r] \in HoldsLock, Unwind(r, to)
  PROVE  Inv'
<1>1. /\ Goto(r, to)
      /\ model_locks' = [model_locks EXCEPT ![ModelOf[r]] = Release(@)]
      /\ concurrency' = Release(concurrency)
      /\ queue_permits' = queue_permits + 1 /\ leaked' = leaked
      /\ tmp_files' = tmp_files \ {r}
      /\ left' = [left EXCEPT ![r] = 0] /\ gone' = [gone EXCEPT ![r] = Connected]
  BY DEF Unwind, LeaveQueue
<1>2. /\ pc[r] \in HoldsConcurrency /\ pc[r] \in Admitted
      /\ to \notin HoldsLock \cup {"lock"}
      /\ to \notin HoldsConcurrency \cup {"concurrency"}
      /\ to \notin Admitted
  BY DEF Out, Admitted, HoldsConcurrency, HoldsLock
<1>3. Progress'
  BY <1>1, ProgressEnds DEF Inv
<1>4. QueueGate' /\ FilesOwned'
  BY <1>1, <1>2, QueueLeft DEF Inv
<1>5. ConcurrencyGate'
  BY <1>1, <1>2, ConcurrencyReleased DEF Inv
<1>6. LockGates'
  BY <1>1, <1>2, LockReleased DEF Inv
<1> QED
  BY <1>3, <1>4, <1>5, <1>6 DEF Inv

\* A task that holds its model lock goes on holding it.
LEMMA HolderMoves ==
  ASSUME Inv, NEW r \in Requests, NEW to \in HoldsLock, Goto(r, to),
         pc[r] \in HoldsLock, Progress',
         UNCHANGED <<tmp_files, queue_permits, concurrency, model_locks, leaked>>
  PROVE  Inv'
<1>1. /\ pc[r] # "lock" /\ to # "lock"
      /\ pc[r] # "concurrency" /\ to # "concurrency"
      /\ pc[r] \in HoldsConcurrency /\ to \in HoldsConcurrency
      /\ pc[r] \in Admitted /\ to \in Admitted
  BY DEF Admitted, HoldsConcurrency, HoldsLock
<1>2. QueueGate' /\ FilesOwned'
  BY <1>1, QueueStays DEF Inv
<1>3. ConcurrencyGate'
  BY <1>1, ConcurrencyStays DEF Inv
<1>4. LockGates'
  BY <1>1, LocksStay DEF Inv
<1> QED
  BY <1>2, <1>3, <1>4 DEF Inv

-----------------------------------------------------------------------------
(* The actions.                                                            *)

\* Disjointness of the groups of control states
LEMMA ControlStates ==
  /\ Out \cap Admitted = {}
  /\ HoldsLock \subseteq HoldsConcurrency /\ HoldsConcurrency \subseteq Admitted
  /\ {"lock", "concurrency", "response"} \cap HoldsLock = {}
  /\ {"concurrency", "response"} \cap HoldsConcurrency = {}
  /\ {"lock", "concurrency", "response"} \subseteq Admitted
  /\ "lock" \in HoldsConcurrency
  /\ "lock" \notin Out /\ "concurrency" \notin Out
BY DEF Out, Admitted, HoldsConcurrency, HoldsLock

\* Requests that never get in: Refuse and AdmitUnencodable
LEMMA TurnedAwayKeepsInv ==
  ASSUME Inv, NEW r \in Requests, NEW to \in Out, pc[r] \in Out, Goto(r, to),
         gone' = [gone EXCEPT ![r] = Connected],
         UNCHANGED <<left, tmp_files, concurrency, model_locks>>,
         \/ UNCHANGED <<queue_permits, leaked>>
         \/ /\ queue_permits > 0 /\ queue_permits' = queue_permits - 1
            /\ leaked' = leaked + 1
  PROVE  Inv'
<1>1. Progress'
  <2>1. to \notin Admitted
    BY ControlStates
  <2>2. gone' \in [Requests -> Connected..MaxChunks]
    BY Constants DEF Inv, Progress, Connected
  <2> QED
    BY <2>1, <2>2, ProgressMove DEF Inv, Progress
<1>2. At(Admitted)' = At(Admitted)
  <2>1. to \in Admitted <=> pc[r] \in Admitted
    BY ControlStates
  <2> QED
    BY <2>1, AtMove DEF Inv
<1>3. FilesOwned'
  BY <1>2 DEF Inv, FilesOwned
<1>4. QueueGate'
  <2>1. Cardinality(At(Admitted)) \in Nat
    BY AdmittedCount DEF At
  <2>2. Cardinality(At(Admitted)') = Cardinality(At(Admitted))
    BY <1>2
  <2> QED
    BY <2>1, <2>2 DEF Inv, QueueGate
<1>5. ConcurrencyGate'
  BY ControlStates, ConcurrencyStays DEF Inv
<1>6. LockGates'
  BY ControlStates, LocksStay DEF Inv
<1> QED
  BY <1>1, <1>3, <1>4, <1>5, <1>6 DEF Inv

\* What AdmitBuffered and AdmitStreaming have in common
LEMMA AdmittedProgress ==
  ASSUME Inv, NEW r \in Requests, NEW to \in Admitted, Acquire(r), Goto(r, to),
         \E n \in 1..MaxChunks : left' = [left EXCEPT ![r] = n],
         tmp_files' = tmp_files \cup {r}, UNCHANGED leaked
  PROVE  Progress' /\ QueueGate' /\ FilesOwned'
<1>1. pc[r] \in Out /\ pc[r] \notin Admitted
  BY ControlStates DEF Acquire, Begin
<1>2. /\ left' \in [Requests -> 0..MaxChunks] /\ left'[r] > 0
      /\ \A s \in Requests \ {r} : left'[s] = left[s]
  BY Constants DEF Inv, Progress
<1>3. gone' \in [Requests -> Connected..MaxChunks]
  BY Constants DEF Inv, Progress, Acquire, Begin, Connected
<1>4. Progress'
  BY <1>2, <1>3, ProgressMove DEF Inv
<1>5. QueueGate' /\ FilesOwned'
  BY <1>1, QueueEntered DEF Inv, Acquire
<1> QED
  BY <1>4, <1>5

\* Whatever becomes of a new request, the invariant holds.
LEMMA SubmitKeepsInv ==
  ASSUME Inv, NEW r \in Requests, Submit(r)
  PROVE  Inv'
<1>1. CASE Refuse(r)
  <2>1. "refused" \in Out
    BY DEF Out
  <2> QED
    BY <1>1, <2>1, TurnedAwayKeepsInv DEF Refuse, Begin
<1>2. CASE AdmitUnencodable(r)
  <2>1. "failed" \in Out
    BY DEF Out
  <2> QED
    BY <1>2, <2>1, TurnedAwayKeepsInv DEF AdmitUnencodable, Acquire, Begin
<1>3. CASE AdmitStreaming(r)
  <2>1. pc[r] \in Out /\ Goto(r, "response")
        /\ UNCHANGED concurrency /\ UNCHANGED model_locks
    BY <1>3 DEF AdmitStreaming, Acquire, Begin
  <2>2. Progress' /\ QueueGate' /\ FilesOwned'
    BY <1>3, ControlStates, AdmittedProgress DEF AdmitStreaming
  <2>3. ConcurrencyGate'
    BY <2>1, ControlStates, ConcurrencyStays DEF Inv
  <2>4. LockGates'
    BY <2>1, ControlStates, LocksStay DEF Inv
  <2> QED
    BY <2>2, <2>3, <2>4 DEF Inv
<1>4. CASE AdmitBuffered(r)
  <2>1. pc[r] \in Out /\ EnterConcurrency(r)
    BY <1>4 DEF AdmitBuffered, Acquire, Begin
  <2>2. /\ ConcurrencyGate' /\ LockGates'
        /\ \E to \in {"poll", "dispatch", "lock", "concurrency"} : Goto(r, to)
    BY <2>1, ControlStates, EnterConcurrencyMoves DEF Inv
  <2>3. PICK to \in {"poll", "dispatch", "lock", "concurrency"} : Goto(r, to)
    BY <2>2
  <2>4. to \in Admitted
    BY DEF Admitted, HoldsConcurrency, HoldsLock
  <2>5. Progress' /\ QueueGate' /\ FilesOwned'
    BY <1>4, <2>3, <2>4, AdmittedProgress DEF AdmitBuffered
  <2> QED
    BY <2>2, <2>5 DEF Inv
<1> QED
  BY <1>1, <1>2, <1>3, <1>4 DEF Submit

\* A live request goes on towards its next chunk; its file and its queue
\* permit stay with it.
LEMMA Proceeds ==
  ASSUME Inv, NEW r \in Requests, NEW to \in {"poll", "dispatch", "lock", "concurrency"},
         Goto(r, to), pc[r] \in Admitted \ {"thread", "send", "abandoned"},
         UNCHANGED <<left, gone, tmp_files, queue_permits, leaked>>
  PROVE  Progress' /\ QueueGate' /\ FilesOwned'
<1>1. to \in Admitted
  BY DEF Admitted, HoldsConcurrency, HoldsLock
<1>2. left[r] > 0
  BY DEF Inv, Progress, At
<1>3. Progress'
  BY <1>1, <1>2, ProgressStays DEF Inv
<1>4. QueueGate' /\ FilesOwned'
  BY <1>1, QueueStays DEF Inv
<1> QED
  BY <1>3, <1>4

\* What the event loop runs of its own accord keeps the invariant.
LEMMA TaskStepKeepsInv ==
  ASSUME Inv, NEW r \in Requests, TaskStep(r)
  PROVE  Inv'
<1>1. CASE StartStream(r)
  <2>1. pc[r] = "response" /\ EnterConcurrency(r)
        /\ UNCHANGED <<left, gone, tmp_files, queue_permits, leaked>>
    BY <1>1 DEF StartStream
  <2>2. /\ ConcurrencyGate' /\ LockGates'
        /\ \E to \in {"poll", "dispatch", "lock", "concurrency"} : Goto(r, to)
    BY <2>1, ControlStates, EnterConcurrencyMoves DEF Inv
  <2>3. Progress' /\ QueueGate' /\ FilesOwned'
    BY <2>1, <2>2, ControlStates, Proceeds
  <2> QED
    BY <2>2, <2>3 DEF Inv
<1>2. CASE ResumeConcurrency(r)
  <2>1. /\ r \in concurrency.granted
        /\ concurrency' = Resume(concurrency, r) /\ EnterModelLock(r)
        /\ UNCHANGED <<left, gone, tmp_files, queue_permits, leaked>>
    BY <1>2 DEF ResumeConcurrency
  <2>2. pc[r] = "concurrency"
    BY <2>1, ConcurrencyGranted DEF Inv
  <2>3. LockGates' /\ \E to \in {"poll", "dispatch", "lock"} : Goto(r, to)
    BY <2>1, <2>2, ControlStates, EnterModelLockMoves DEF Inv
  <2>4. PICK to \in {"poll", "dispatch", "lock"} : Goto(r, to)
    BY <2>3
  <2>5. to \in HoldsConcurrency /\ to # "concurrency"
    BY DEF HoldsConcurrency, HoldsLock
  <2>6. ConcurrencyGate'
    BY <2>1, <2>4, <2>5, ConcurrencyResumed DEF Inv
  <2>7. Progress' /\ QueueGate' /\ FilesOwned'
    BY <2>1, <2>2, <2>4, ControlStates, Proceeds
  <2> QED
    BY <2>3, <2>6, <2>7 DEF Inv
<1>3. CASE ResumeModelLock(r)
  <2>1. /\ r \in model_locks[ModelOf[r]].granted
        /\ model_locks' = [model_locks EXCEPT ![ModelOf[r]] = Resume(@, r)]
        /\ UNCHANGED <<left, gone, tmp_files, queue_permits, leaked>>
        /\ UNCHANGED concurrency
    BY <1>3 DEF ResumeModelLock
  <2>2. pc[r] = "lock"
    BY <2>1, LockGranted DEF Inv
  <2>3. PICK to \in {"poll", "dispatch"} : Goto(r, to)
    BY <1>3 DEF ResumeModelLock
  <2>4. to \in HoldsLock /\ to # "lock" /\ to # "concurrency"
    BY DEF HoldsLock
  <2>5. LockGates'
    BY <2>1, <2>3, <2>4, LockResumed DEF Inv
  <2>6. ConcurrencyGate'
    BY <2>1, <2>2, <2>3, <2>4, ControlStates, ConcurrencyStays DEF Inv
  <2>7. Progress' /\ QueueGate' /\ FilesOwned'
    BY <2>1, <2>2, <2>3, ControlStates, Proceeds
  <2> QED
    BY <2>5, <2>6, <2>7 DEF Inv
<1>4. CASE PollConnected(r)
  <2>1. /\ pc[r] = "poll" /\ Goto(r, "dispatch")
        /\ UNCHANGED <<left, gone, tmp_files, queue_permits, concurrency, model_locks, leaked>>
    BY <1>4 DEF PollConnected
  <2>2. "poll" \in HoldsLock /\ "dispatch" \in HoldsLock
    BY DEF HoldsLock
  <2>3. Progress'
    BY <2>1, <2>2, ControlStates, Proceeds
  <2> QED
    BY <2>1, <2>2, <2>3, HolderMoves
<1>5. CASE Dispatch(r)
  <2>1. /\ pc[r] = "dispatch" /\ Goto(r, "thread")
        /\ left' = [left EXCEPT ![r] = @ - 1]
        /\ UNCHANGED <<gone, tmp_files, queue_permits, concurrency, model_locks, leaked>>
    BY <1>5 DEF Dispatch
  <2>2. {"dispatch", "thread"} \subseteq HoldsLock
    BY DEF HoldsLock
  <2>3. left[r] > 0
    BY <2>1, <2>2, ControlStates DEF Inv, Progress, At
  <2>4. /\ left' \in [Requests -> 0..MaxChunks]
        /\ \A s \in Requests \ {r} : left'[s] = left[s]
    BY <2>1, <2>3, Constants DEF Inv, Progress
  <2>5. Progress'
    BY <2>1, <2>2, <2>4, ControlStates, ProgressMove DEF Inv, Progress
  <2> QED
    BY <2>1, <2>2, <2>5, HolderMoves
<1>6. CASE PollDisconnected(r) \/ DispatchCancelled(r) \/ FinalizeAbandoned(r)
  <2>1. pc[r] \in HoldsLock /\ Unwind(r, "cancelled") /\ "cancelled" \in Out
    BY <1>6 DEF PollDisconnected, DispatchCancelled, FinalizeAbandoned, HoldsLock, Out
  <2> QED
    BY <2>1, UnwindKeepsInv
<1> QED
  BY <1>1, <1>2, <1>3, <1>4, <1>5, <1>6 DEF TaskStep, Advance

\* A cancellation at any of its points keeps the invariant.
LEMMA CancellationKeepsInv ==
  ASSUME Inv, NEW r \in Requests, Cancellation(r)
  PROVE  Inv'
<1>1. "cancelled" \in Out
  BY DEF Out
<1>2. CASE LoseStream(r)
  <2>1. /\ pc[r] = "response" /\ Goto(r, "cancelled")
        /\ leaked' = leaked + 1 /\ queue_permits' = queue_permits
        /\ tmp_files' = tmp_files \ {r}
        /\ left' = [left EXCEPT ![r] = 0] /\ gone' = [gone EXCEPT ![r] = Connected]
        /\ UNCHANGED concurrency /\ UNCHANGED model_locks
    BY <1>2 DEF LoseStream
  <2>2. Progress'
    BY <1>1, <2>1, ProgressEnds DEF Inv
  <2>3. QueueGate' /\ FilesOwned'
    BY <1>1, <2>1, ControlStates, QueueLeft DEF Inv
  <2>4. ConcurrencyGate'
    BY <1>1, <2>1, ControlStates, ConcurrencyStays DEF Inv
  <2>5. LockGates'
    BY <1>1, <2>1, ControlStates, LocksStay DEF Inv
  <2> QED
    BY <2>2, <2>3, <2>4, <2>5 DEF Inv
<1>3. CASE CancelConcurrencyWait(r)
  <2>1. /\ pc[r] = "concurrency" /\ Goto(r, "cancelled")
        /\ queue_permits' = queue_permits + 1 /\ leaked' = leaked
        /\ tmp_files' = tmp_files \ {r}
        /\ left' = [left EXCEPT ![r] = 0] /\ gone' = [gone EXCEPT ![r] = Connected]
        /\ concurrency' = CancelWait(concurrency, r) /\ UNCHANGED model_locks
    BY <1>3 DEF CancelConcurrencyWait, LeaveQueue
  <2>2. Progress'
    BY <1>1, <2>1, ProgressEnds DEF Inv
  <2>3. QueueGate' /\ FilesOwned'
    BY <1>1, <2>1, ControlStates, QueueLeft DEF Inv
  <2>4. ConcurrencyGate'
    BY <1>1, <2>1, ControlStates, ConcurrencyWaitCancelled DEF Inv
  <2>5. LockGates'
    BY <1>1, <2>1, ControlStates, LocksStay DEF Inv
  <2> QED
    BY <2>2, <2>3, <2>4, <2>5 DEF Inv
<1>4. CASE CancelLockWait(r)
  <2>1. /\ pc[r] = "lock" /\ Goto(r, "cancelled")
        /\ queue_permits' = queue_permits + 1 /\ leaked' = leaked
        /\ tmp_files' = tmp_files \ {r}
        /\ left' = [left EXCEPT ![r] = 0] /\ gone' = [gone EXCEPT ![r] = Connected]
        /\ concurrency' = Release(concurrency)
        /\ model_locks' = [model_locks EXCEPT ![ModelOf[r]] = CancelWait(@, r)]
    BY <1>4 DEF CancelLockWait, LeaveQueue
  <2>2. Progress'
    BY <1>1, <2>1, ProgressEnds DEF Inv
  <2>3. QueueGate' /\ FilesOwned'
    BY <1>1, <2>1, ControlStates, QueueLeft DEF Inv
  <2>4. ConcurrencyGate'
    BY <1>1, <2>1, ControlStates, ConcurrencyReleased DEF Inv
  <2>5. LockGates'
    BY <1>1, <2>1, ControlStates, LockWaitCancelled DEF Inv
  <2> QED
    BY <2>2, <2>3, <2>4, <2>5 DEF Inv
<1> QED
  BY <1>2, <1>3, <1>4 DEF Cancellation

\* A provider call that returns or raises keeps the invariant.
LEMMA ThreadEndsKeepsInv ==
  ASSUME Inv, NEW r \in Requests, ThreadEnds(r)
  PROVE  Inv'
<1>1. pc[r] = "thread" /\ {"thread", "poll", "send"} \subseteq HoldsLock
      /\ {"done", "failed"} \subseteq Out
  BY DEF ThreadEnds, ThreadReturns, ThreadRaises, HoldsLock, Out
<1>2. CASE \E to \in {"done", "failed"} : Unwind(r, to)
  BY <1>1, <1>2, UnwindKeepsInv
<1>3. CASE \E to \in {"poll", "send"} :
             /\ Goto(r, to) /\ (to = "poll" => left[r] > 0)
             /\ UNCHANGED <<left, gone, tmp_files, queue_permits, concurrency,
                            model_locks, leaked>>
  <2>1. PICK to \in {"poll", "send"} :
          /\ Goto(r, to) /\ (to = "poll" => left[r] > 0)
          /\ UNCHANGED <<left, gone, tmp_files, queue_permits, concurrency,
                         model_locks, leaked>>
    BY <1>3
  <2>2. to \in HoldsLock /\ to \in Out \cup Admitted
    BY <1>1, ControlStates
  <2>3. Progress'
    BY <2>1, <2>2, ProgressStays DEF Inv
  <2> QED
    BY <1>1, <2>1, <2>2, <2>3, HolderMoves
<1> QED
  BY <1>2, <1>3 DEF ThreadEnds, ThreadReturns, ThreadRaises

\* A sent or cancelled chunk keeps the invariant.
LEMMA SendEndsKeepsInv ==
  ASSUME Inv, NEW r \in Requests, SendEnds(r)
  PROVE  Inv'
<1>1. pc[r] = "send" /\ {"send", "dispatch", "abandoned"} \subseteq HoldsLock
      /\ "done" \in Out
  BY DEF SendEnds, ChunkSent, AbandonStream, HoldsLock, Out
<1>2. CASE Unwind(r, "done")
  BY <1>1, <1>2, UnwindKeepsInv
<1>3. CASE \E to \in {"dispatch", "abandoned"} :
             /\ Goto(r, to) /\ (to = "dispatch" => left[r] > 0)
             /\ UNCHANGED <<left, gone, tmp_files, queue_permits, concurrency,
                            model_locks, leaked>>
  <2>1. PICK to \in {"dispatch", "abandoned"} :
          /\ Goto(r, to) /\ (to = "dispatch" => left[r] > 0)
          /\ UNCHANGED <<left, gone, tmp_files, queue_permits, concurrency,
                         model_locks, leaked>>
    BY <1>3
  <2>2. to \in HoldsLock /\ to \in Out \cup Admitted
    BY <1>1, ControlStates
  <2>3. Progress'
    BY <2>1, <2>2, ProgressStays DEF Inv
  <2> QED
    BY <1>1, <2>1, <2>2, <2>3, HolderMoves
<1> QED
  BY <1>2, <1>3 DEF SendEnds, ChunkSent, AbandonStream

\* A client that goes away changes nothing but `gone`.
LEMMA DisconnectKeepsInv ==
  ASSUME Inv, NEW r \in Requests, Disconnect(r)
  PROVE  Inv'
<1>1. gone' \in [Requests -> Connected..MaxChunks]
  BY Constants DEF Inv, Progress, Disconnect, Connected
<1>2. Progress'
  BY <1>1 DEF Inv, Progress, Disconnect, At
<1>3. QueueGate' /\ FilesOwned' /\ ConcurrencyGate' /\ LockGates'
  BY DEF Inv, Disconnect, QueueGate, FilesOwned, ConcurrencyGate, LockGates,
         At, WaitersFor, HoldersOf
<1> QED
  BY <1>2, <1>3 DEF Inv

\* No task anywhere, every permit in its pool
LEMMA InitInv == Init => Inv
<1> SUFFICES ASSUME Init PROVE Inv
  OBVIOUS
<1>1. "idle" \in Out /\ \A S : "idle" \notin S => At(S) = {}
  BY DEF Init, At, Out
<1>2. At(Admitted) = {} /\ At(HoldsConcurrency) = {} /\ At({"concurrency"}) = {}
      /\ At({"lock"}) = {} /\ At(HoldsLock) = {}
  BY <1>1, ControlStates
<1>3. Progress
  <2>1. 0 \in 0..MaxChunks /\ Connected \in Connected..MaxChunks
    BY Constants DEF Connected
  <2>2. At(Admitted \ {"thread", "send", "abandoned"}) = {}
    BY <1>1, ControlStates
  <2> QED
    BY <1>1, <2>1, <2>2 DEF Init, Progress
<1>4. QueueGate /\ FilesOwned
  BY <1>2, Constants, FS_EmptySet DEF Init, QueueGate, FilesOwned
<1>5. ConcurrencyGate
  BY <1>2, Constants, FreshGate DEF Init, ConcurrencyGate
<1>6. LockGates
  <2>1. \A m \in Models : WaitersFor(m) = {} /\ HoldersOf(m) = {}
    BY <1>2 DEF WaitersFor, HoldersOf
  <2>2. Gate(Fresh(1), Requests, {}, {}, 1)
    BY FreshGate
  <2>3. Fresh(1) \in [value: Nat, waiting: Seq(Requests), granted: SUBSET Requests]
    BY <2>2 DEF Gate, InLine
  <2> QED
    BY <2>1, <2>2, <2>3 DEF Init, LockGates
<1> QED
  BY <1>3, <1>4, <1>5, <1>6 DEF Inv

\* Inv is inductive, so it holds of every reachable state: the gates agree
\* with the tasks after every step of every request.
THEOREM InvHolds == Spec => []Inv
<1>1. Inv /\ [Next]_vars => Inv'
  <2> SUFFICES ASSUME Inv, [Next]_vars PROVE Inv'
    OBVIOUS
  <2>1. CASE UNCHANGED vars
    BY <2>1 DEF vars, Inv, Progress, QueueGate, FilesOwned, ConcurrencyGate, LockGates,
                At, WaitersFor, HoldersOf
  <2>2. CASE Next
    <3>1. PICK r \in Requests :
            \/ Submit(r) \/ TaskStep(r) \/ Cancellation(r) \/ Disconnect(r)
            \/ ThreadEnds(r) \/ SendEnds(r)
      BY <2>2 DEF Next
    <3> QED
      BY <3>1, SubmitKeepsInv, TaskStepKeepsInv, CancellationKeepsInv,
         DisconnectKeepsInv, ThreadEndsKeepsInv, SendEndsKeepsInv
  <2> QED
    BY <2>1, <2>2
<1> QED
  BY InitInv, <1>1, PTL DEF Spec

-----------------------------------------------------------------------------
(* What follows from Inv.                                                  *)

\* Gates that account for their permits have no more of them than they
\* began with.
LEMMA PermitsInBounds ==
  ASSUME NEW T, IsFiniteSet(T), NEW W, NEW H, NEW n \in Nat, NEW s, Gate(s, T, W, H, n)
  PROVE  /\ s \in [value: 0..n, waiting: Seq(T), granted: SUBSET T]
         /\ Cardinality(H) \in Nat /\ Cardinality(H) <= n
<1>1. s \in [value : Nat, waiting : Seq(T), granted : SUBSET T]
  BY DEF Gate, InLine
<1>2. Cardinality(s.granted) \in Nat /\ Cardinality(H) \in Nat
  BY <1>1, FS_Subset, FS_CardinalityType DEF Gate
<1>3. s.value + Cardinality(s.granted) + Cardinality(H) = n
  BY DEF Gate, Permits
<1>4. s.value \in 0..n /\ Cardinality(H) <= n
  BY <1>1, <1>2, <1>3
<1> QED
  BY <1>1, <1>2, <1>4

\* The state stays well-typed; no counter of permits leaves its range.
THEOREM TypeCorrect == Spec => []TypeOK
<1>1. Inv => TypeOK
  <2> SUFFICES ASSUME Inv PROVE TypeOK
    OBVIOUS
  <2>1. concurrency \in [value: 0..Cap, waiting: Seq(Requests), granted: SUBSET Requests]
    BY Constants, PermitsInBounds DEF Inv, ConcurrencyGate
  <2>2. model_locks \in [Models -> [value: 0..1, waiting: Seq(Requests), granted: SUBSET Requests]]
    BY Constants, PermitsInBounds DEF Inv, LockGates
  <2>3. queue_permits \in 0..QueueDepth /\ leaked \in 0..QueueDepth
    <3>1. Cardinality(At(Admitted)) \in Nat
      BY AdmittedCount DEF At
    <3> QED
      BY <3>1, Constants DEF Inv, QueueGate
  <2>4. tmp_files \subseteq Requests
    BY DEF Inv, FilesOwned, At
  <2> QED
    BY <2>1, <2>2, <2>3, <2>4 DEF TypeOK, Inv, Progress
<1> QED
  BY <1>1, InvHolds, PTL

\* No exit path of a synthesis returns a permit twice or keeps one.
THEOREM PermitsConserved == Spec => []PermitsAccounted
<1>1. Inv => PermitsAccounted
  BY DEF Inv, QueueGate, ConcurrencyGate, LockGates, Gate, PermitsAccounted
<1> QED
  BY <1>1, InvHolds, PTL

\* FR-CC-01, FR-CC-04: the cap on provider calls, and one per model.
THEOREM MutualExclusion == Spec => []ExclusiveInference
<1>1. Inv => ExclusiveInference
  <2> SUFFICES ASSUME Inv PROVE ExclusiveInference
    OBVIOUS
  <2>1. At({"thread"}) \subseteq At(HoldsConcurrency)
    BY DEF At, HoldsConcurrency, HoldsLock
  <2>2. /\ IsFiniteSet(At(HoldsConcurrency))
        /\ Cardinality(At(HoldsConcurrency)) \in Nat
        /\ Cardinality(At(HoldsConcurrency)) <= Cap
    BY Constants, AdmittedCount, PermitsInBounds DEF Inv, ConcurrencyGate, At
  <2>3. Cardinality(At({"thread"})) <= Cap
    <3>1. /\ Cardinality(At({"thread"})) \in Nat
          /\ Cardinality(At({"thread"})) <= Cardinality(At(HoldsConcurrency))
      BY <2>1, <2>2, FS_Subset, FS_CardinalityType
    <3> QED
      BY <2>2, <3>1, Constants
  <2>4. ASSUME NEW r \in At({"thread"}), NEW s \in At({"thread"}), ModelOf[r] = ModelOf[s]
        PROVE  r = s
    <3> DEFINE H == HoldersOf(ModelOf[r])
    <3>1. r \in H /\ s \in H /\ H \subseteq Requests /\ ModelOf[r] \in Models
      BY <2>4, Constants DEF HoldersOf, At, HoldsLock
    <3>2. IsFiniteSet(H) /\ Cardinality(H) \in Nat /\ Cardinality(H) <= 1
      BY <3>1, Constants, AdmittedCount, PermitsInBounds DEF Inv, LockGates
    <3>3. Cardinality(H \ {r}) = Cardinality(H) - 1
      BY <3>1, <3>2, FS_RemoveElement
    <3>4. IsFiniteSet(H \ {r}) /\ Cardinality(H \ {r}) \in Nat
      BY <3>1, AdmittedCount
    <3>5. H \ {r} = {}
      <4>1. Cardinality(H \ {r}) = 0
        BY <3>2, <3>3, <3>4
      <4> QED
        BY <3>4, <4>1, FS_EmptySet
    <3> QED
      BY <3>1, <3>5
  <2> QED
    BY <2>3, <2>4 DEF ExclusiveInference
<1> QED
  BY <1>1, InvHolds, PTL

\* A task waits at a gate only while a release is still to come.
THEOREM NoLostWakeup == Spec => []NoStrandedWaiter
<1>1. Inv => NoStrandedWaiter
  <2> SUFFICES ASSUME Inv PROVE NoStrandedWaiter
    OBVIOUS
  <2>1. ASSUME NEW W, NEW H, NEW n \in Nat, NEW s, Gate(s, Requests, W, H, n),
               s.waiting # << >>, s.granted = {}
        PROVE  Cardinality(H) = n
    <3>1. s.value = 0 /\ s.value + Cardinality(s.granted) + Cardinality(H) = n
      BY <2>1 DEF Gate, NoIdlePermit, Permits
    <3>2. Cardinality(s.granted) = 0 /\ Cardinality(H) \in Nat
      BY <2>1, FS_EmptySet, Constants, PermitsInBounds
    <3> QED
      BY <3>1, <3>2
  <2>2. concurrency.waiting # << >> =>
          concurrency.granted # {} \/ Cardinality(At(HoldsConcurrency)) = Cap
    BY <2>1, Constants DEF Inv, ConcurrencyGate
  <2>3. ASSUME NEW m \in Models, model_locks[m].waiting # << >>, model_locks[m].granted = {}
        PROVE  HoldersOf(m) # {}
    <3>1. Cardinality(HoldersOf(m)) = 1
      BY <2>1, <2>3 DEF Inv, LockGates
    <3> QED
      BY <3>1, FS_EmptySet
  <2> QED
    BY <2>2, <2>3 DEF NoStrandedWaiter
<1> QED
  BY <1>1, InvHolds, PTL

\* A suspended task is exactly once in the line it waits in.
THEOREM LinesAgree == Spec => []WaitersAreQueued
<1>1. Inv => WaitersAreQueued
  BY DEF Inv, ConcurrencyGate, LockGates, Gate, WaitersAreQueued
<1> QED
  BY <1>1, InvHolds, PTL

\* /health and the drain read true numbers.  Where no permit is in use none
\* is granted either, so nobody holds the gate, and by NoIdlePermit nobody
\* waits at it.
THEOREM HealthTruthful == Spec => []HealthHonest
<1>1. Inv => HealthHonest
  <2> SUFFICES ASSUME Inv PROVE HealthHonest
    OBVIOUS
  <2>1. queue_depth = Cardinality(At(Admitted)) + leaked
    <3>1. Cardinality(At(Admitted)) \in Nat
      BY AdmittedCount DEF At
    <3> QED
      BY <3>1, Constants DEF Inv, QueueGate, queue_depth, Used
  <2>2. ASSUME concurrent_active = 0 PROVE At(Admitted) \subseteq At({"response"})
    <3>1. concurrency \in [value : 0..Cap, waiting : Seq(Requests), granted : SUBSET Requests]
      BY Constants, PermitsInBounds DEF Inv, ConcurrencyGate
    <3>2. concurrency.value = Cap
      BY <2>2, <3>1, Constants DEF concurrent_active, Used
    <3>3. /\ IsFiniteSet(concurrency.granted) /\ Cardinality(concurrency.granted) \in Nat
          /\ IsFiniteSet(At(HoldsConcurrency)) /\ Cardinality(At(HoldsConcurrency)) \in Nat
      BY <3>1, AdmittedCount DEF At
    <3>4. concurrency.value + Cardinality(concurrency.granted) + Cardinality(At(HoldsConcurrency)) = Cap
      BY DEF Inv, ConcurrencyGate, Gate, Permits
    <3>5. Cardinality(concurrency.granted) = 0 /\ Cardinality(At(HoldsConcurrency)) = 0
      BY <3>2, <3>3, <3>4, Constants
    <3>6. concurrency.granted = {} /\ At(HoldsConcurrency) = {}
      BY <3>3, <3>5, FS_EmptySet
    <3>7. concurrency.waiting = << >>
      BY <3>2, <3>6, Constants DEF Inv, ConcurrencyGate, Gate, NoIdlePermit
    <3>8. At({"concurrency"}) = {}
      BY <3>6, <3>7 DEF Inv, ConcurrencyGate, Gate, InLine
    <3> QED
      BY <3>6, <3>8 DEF At, Admitted
  <2> QED
    BY <2>1, <2>2 DEF HealthHonest
<1> QED
  BY <1>1, InvHolds, PTL

\* The voice file outlives every provider call and no request.
THEOREM VoiceFileOutlivesCalls == Spec => []VoiceFileLifetime
<1>1. Inv => VoiceFileLifetime
  BY DEF Inv, FilesOwned, VoiceFileLifetime, At, Admitted, HoldsConcurrency, HoldsLock
<1> QED
  BY <1>1, InvHolds, PTL

-----------------------------------------------------------------------------
(* Chunks dispatched after a disconnect.                                   *)

\* A buffered request that is gone can only be in, or back from, the one
\* call it had polled for.
ChunkBound ==
  \A r \in Requests : Gone(r) =>
    gone[r] - left[r] <= (IF r \in Buffered /\ pc[r] \in {"thread", "poll"} THEN 1 ELSE 0)

\* No step lets a request dispatch past the chunk boundary after its client
\* went away.
LEMMA ChunkBoundStep ==
  ASSUME Inv, ChunkBound, [Next]_vars
  PROVE  ChunkBound'
<1> USE DEF ChunkBound, Gone
<1>1. /\ pc \in [Requests -> Out \cup Admitted]
      /\ left \in [Requests -> 0..MaxChunks]
      /\ gone \in [Requests -> Connected..MaxChunks]
      /\ MaxChunks \in Nat /\ Connected = -1
  BY Constants DEF Inv, Progress, Connected
<1>2. Buffered \cap Streaming = {} /\ Requests = Buffered \cup Streaming
  BY AdmissionAssumption DEF AdmissionAssumption, Requests
<1>3. CASE UNCHANGED vars
  BY <1>3 DEF vars
<1>4. ASSUME NEW r \in Requests, gone'[r] = Connected,
             \A s \in Requests \ {r} :
               gone'[s] = gone[s] /\ left'[s] = left[s] /\ pc'[s] = pc[s]
      PROVE  ChunkBound'
  BY <1>1, <1>4
<1>5. ASSUME NEW r \in Requests, NEW to, Goto(r, to), UNCHANGED <<left, gone>>,
             pc[r] \notin {"thread", "poll"} \/ r \in Streaming \/ to = "poll"
      PROVE  ChunkBound'
  BY <1>1, <1>2, <1>5 DEF Goto
<1>6. CASE Next
  <2>1. PICK r \in Requests :
          \/ Submit(r) \/ TaskStep(r) \/ Cancellation(r) \/ Disconnect(r)
          \/ ThreadEnds(r) \/ SendEnds(r)
    BY <1>6 DEF Next
  <2>2. CASE Submit(r)
    <3>1. gone' = [gone EXCEPT ![r] = Connected]
      BY <2>2 DEF Submit, Refuse, AdmitBuffered, AdmitStreaming, AdmitUnencodable, Acquire, Begin
    <3>2. \A s \in Requests \ {r} : left'[s] = left[s] /\ pc'[s] = pc[s]
      BY <1>1, <2>2 DEF Submit, Refuse, AdmitBuffered, AdmitStreaming, AdmitUnencodable,
         EnterConcurrency, EnterModelLock, Goto
    <3> QED
      BY <1>1, <1>4, <3>1, <3>2
  <2>3. CASE \E to \in Out : LeaveQueue(r, to)
    BY <1>1, <1>4, <2>3 DEF LeaveQueue, Goto
  <2>4. CASE LoseStream(r)
    BY <1>1, <1>4, <2>4 DEF LoseStream, Goto
  <2>5. CASE PollDisconnected(r) \/ DispatchCancelled(r) \/ FinalizeAbandoned(r)
             \/ CancelConcurrencyWait(r) \/ CancelLockWait(r)
    <3>1. LeaveQueue(r, "cancelled") /\ "cancelled" \in Out
      BY <2>5 DEF PollDisconnected, DispatchCancelled, FinalizeAbandoned,
         CancelConcurrencyWait, CancelLockWait, Unwind, Out
    <3> QED
      BY <2>3, <3>1
  <2>6. CASE StartStream(r) \/ ResumeConcurrency(r) \/ ResumeModelLock(r)
    <3>1. pc[r] \in {"response", "concurrency", "lock"}
      BY <2>6, ConcurrencyGranted, LockGranted DEF StartStream, ResumeConcurrency,
         ResumeModelLock, Inv
    <3>2. UNCHANGED <<left, gone>>
      BY <2>6 DEF StartStream, ResumeConcurrency, ResumeModelLock
    <3>3. \E to \in {"poll", "dispatch", "lock", "concurrency"} : Goto(r, to)
      BY <2>6 DEF StartStream, ResumeConcurrency, ResumeModelLock, EnterConcurrency,
         EnterModelLock
    <3> QED
      BY <1>5, <3>1, <3>2, <3>3
  <2>7. CASE PollConnected(r)
    BY <1>1, <1>4, <2>7 DEF PollConnected, Goto
  <2>8. CASE Dispatch(r)
    BY <1>1, <1>2, <2>8 DEF Dispatch, Goto
  <2>9. CASE Disconnect(r)
    BY <1>1, <2>9 DEF Disconnect
  <2>10. CASE ThreadEnds(r)
    <3>1. CASE ThreadRaises(r)
      BY <2>3, <3>1 DEF ThreadRaises, Unwind, Out
    <3>2. CASE ThreadReturns(r)
      <4>1. CASE Unwind(r, "done")
        BY <2>3, <4>1 DEF Unwind, Out
      <4>2. CASE ~Unwind(r, "done")
        <5>1. /\ UNCHANGED <<left, gone>>
              /\ Goto(r, "poll") \/ (r \in Streaming /\ Goto(r, "send"))
          BY <3>2, <4>2 DEF ThreadReturns
        <5> QED
          BY <1>5, <5>1
      <4> QED
        BY <4>1, <4>2
    <3> QED
      BY <2>10, <3>1, <3>2 DEF ThreadEnds
  <2>11. CASE SendEnds(r)
    <3>1. CASE Unwind(r, "done")
      BY <2>3, <3>1 DEF Unwind, Out
    <3>2. CASE ~Unwind(r, "done")
      <4>1. /\ pc[r] = "send" /\ UNCHANGED <<left, gone>>
            /\ Goto(r, "dispatch") \/ Goto(r, "abandoned")
        BY <2>11, <3>2 DEF SendEnds, ChunkSent, AbandonStream
      <4> QED
        BY <1>5, <4>1
    <3> QED
      BY <3>1, <3>2
  <2> QED
    BY <2>1, <2>2, <2>4, <2>5, <2>6, <2>7, <2>8, <2>9, <2>10, <2>11
       DEF TaskStep, Advance, Cancellation
<1> QED
  BY <1>3, <1>6

\* FR-CC-05: at most one more chunk for a client that went away.
THEOREM DisconnectHonoured == Spec => []StopsAtChunkBoundary
<1>1. Init => ChunkBound
  BY DEF Init, ChunkBound, Gone
<1>2. Inv /\ ChunkBound => StopsAtChunkBoundary
  <2> SUFFICES ASSUME Inv, ChunkBound, NEW r \in Requests, Gone(r)
               PROVE  gone[r] - left[r] <= (IF r \in Buffered THEN 1 ELSE 0)
    BY DEF StopsAtChunkBoundary
  <2>1. gone[r] \in Int /\ left[r] \in Int
    BY Constants DEF Inv, Progress, Connected
  <2> QED
    BY <2>1 DEF ChunkBound
<1>3. Inv /\ ChunkBound /\ [Next]_vars => ChunkBound'
  BY ChunkBoundStep
<1> QED
  BY <1>1, <1>2, <1>3, InvHolds, PTL DEF Spec

-----------------------------------------------------------------------------
(* The refinement.  Where response construction cannot fail, the gates     *)
(* implement BoundedService, with a task's phase read off its pc.          *)

\* A task that moves changes its own phase and nobody else's.
LEMMA PhaseMove ==
  ASSUME Progress, NEW r \in Requests, NEW to, Goto(r, to)
  PROVE  phase' = [phase EXCEPT ![r] = PhaseOf(to)] /\ phase[r] = PhaseOf(pc[r])
BY DEF Progress, Goto, phase

\* The two modules count alike.
LEMMA SameCardinality == \A S : Service!Cardinality(S) = Cardinality(S)
BY DEF Service!Cardinality, Cardinality

\* The phases, counted by control states.
LEMMA PhaseSets ==
  /\ Service!Inside = At(Admitted)
  /\ Service!Active = At(HoldsLock)
BY DEF Service!Inside, Service!Active, phase, PhaseOf, At, Admitted, HoldsConcurrency

\* The first instant at which a task holds its model lock is one at which
\* the abstract service may activate it.
LEMMA NewHolderCanRun ==
  ASSUME Inv, Inv', NEW r \in Requests, NEW to \in HoldsLock, Goto(r, to),
         pc[r] \notin HoldsLock
  PROVE  Service!CanRun(r)
<1> DEFINE A == At(HoldsLock)
           B == At(HoldsConcurrency)'
<1>1. A \cup {r} \subseteq B /\ r \notin A /\ A \subseteq Requests
  <2>1. At(HoldsLock)' = A \cup {r} /\ (r \in A <=> pc[r] \in HoldsLock)
    BY AtMove DEF Inv
  <2>2. At(HoldsLock)' \subseteq B
    BY ControlStates DEF At
  <2> QED
    BY <2>1, <2>2 DEF At
<1>2. IsFiniteSet(B) /\ Cardinality(B) \in Nat /\ Cardinality(B) <= Cap
  <2>1. Gate(concurrency', Requests, At({"concurrency"})', B, Cap)
    BY DEF Inv, ConcurrencyGate
  <2>2. B \subseteq Requests
    BY DEF At
  <2> QED
    BY <2>1, <2>2, Constants, AdmittedCount, PermitsInBounds
<1>3. Cardinality(A) < Cap
  <2>1. IsFiniteSet(A) /\ Cardinality(A) \in Nat
    BY <1>1, AdmittedCount
  <2>2. Cardinality(A \cup {r}) = Cardinality(A) + 1
    BY <1>1, <2>1, FS_AddElement
  <2>3. Cardinality(A \cup {r}) <= Cardinality(B)
    BY <1>1, <1>2, FS_Subset
  <2> QED
    BY <1>2, <2>1, <2>2, <2>3, Constants
<1>4. ASSUME NEW s \in A PROVE ModelOf[s] # ModelOf[r]
  <2> SUFFICES ASSUME ModelOf[s] = ModelOf[r] PROVE FALSE
    OBVIOUS
  <2> DEFINE H == HoldersOf(ModelOf[r])'
  <2>1. r \in H /\ s \in H /\ s # r
    <3>1. H = HoldersOf(ModelOf[r]) \cup {r}
      BY LockSetsMove DEF Inv
    <3>2. s \in HoldersOf(ModelOf[r])
      BY DEF HoldersOf
    <3> QED
      BY <1>1, <3>1, <3>2
  <2>2. H \subseteq Requests /\ IsFiniteSet(H) /\ Cardinality(H) <= 1
    <3>1. Gate(model_locks'[ModelOf[r]], Requests, WaitersFor(ModelOf[r])', H, 1)
      BY Constants DEF Inv, LockGates
    <3>2. H \subseteq Requests
      BY DEF HoldersOf, At
    <3> QED
      BY <3>1, <3>2, Constants, AdmittedCount, PermitsInBounds
  <2>3. Cardinality(H) \in Nat /\ Cardinality(H \ {r}) = Cardinality(H) - 1
        /\ IsFiniteSet(H \ {r}) /\ Cardinality(H \ {r}) \in Nat
    BY <2>1, <2>2, FS_RemoveElement, FS_CardinalityType
  <2>4. Cardinality(H \ {r}) = 0
    BY <2>2, <2>3
  <2>5. H \ {r} = {}
    BY <2>3, <2>4, FS_EmptySet
  <2> QED
    BY <2>1, <2>5
<1> QED
  BY <1>3, <1>4, PhaseSets, SameCardinality DEF Service!CanRun

\* Each kind of move is a step of the abstract service or invisible to it.
LEMMA MoveRefines ==
  ASSUME Inv, Inv', leaked = 0, NEW r \in Requests, NEW to, Goto(r, to),
         \/ pc[r] \in Admitted /\ to \in Out \ {"refused"}
         \/ pc[r] \in Admitted \ HoldsLock /\ to \in Admitted
         \/ pc[r] \in HoldsLock /\ to \in HoldsLock
         \/ pc[r] \in Out /\ to \in Admitted /\ queue_permits > 0
         \/ pc[r] \in Out /\ to = "refused" /\ queue_permits = 0
  PROVE  [Service!Next]_phase
<1> DEFINE n == Cardinality(At(Admitted))
<1>1. n \in Nat /\ queue_permits \in Nat /\ queue_permits + n = QueueDepth
  <2>1. n \in Nat
    BY AdmittedCount DEF At
  <2> QED
    BY <2>1 DEF Inv, QueueGate
<1>2. phase' = [phase EXCEPT ![r] = PhaseOf(to)] /\ phase[r] = PhaseOf(pc[r])
      /\ phase \in [Requests -> {"active", "pending", "refused", "out"}]
  BY PhaseMove DEF Inv, phase, PhaseOf
<1>3. r \in At(Admitted) <=> pc[r] \in Admitted
  BY DEF At
<1>4. CASE pc[r] \in Admitted /\ to \in Out \ {"refused"}
  <2>1. PhaseOf(to) = "out"
    BY <1>4, ControlStates DEF PhaseOf
  <2>2. Service!Leave(r)
    BY <1>2, <1>3, <1>4, <2>1, PhaseSets DEF Service!Leave
  <2> QED
    BY <2>2 DEF Service!Next
<1>5. CASE pc[r] \in Admitted \ HoldsLock /\ to \in Admitted
  <2>1. CASE to \in HoldsLock
    <3>1. PhaseOf(to) = "active" /\ PhaseOf(pc[r]) = "pending"
      BY <1>5, <2>1 DEF PhaseOf
    <3>2. Service!CanRun(r)
      BY <1>5, <2>1, NewHolderCanRun
    <3>3. Service!Activate(r)
      BY <1>2, <3>1, <3>2 DEF Service!Activate
    <3> QED
      BY <3>3 DEF Service!Next
  <2>2. CASE to \notin HoldsLock
    <3>1. PhaseOf(to) = "pending" /\ PhaseOf(pc[r]) = "pending"
      BY <1>5, <2>2 DEF PhaseOf
    <3> QED
      BY <1>2, <3>1
  <2> QED
    BY <2>1, <2>2
<1>6. CASE pc[r] \in HoldsLock /\ to \in HoldsLock
  <2>1. PhaseOf(to) = PhaseOf(pc[r])
    BY <1>6 DEF PhaseOf
  <2> QED
    BY <1>2, <2>1
<1>7. CASE pc[r] \in Out /\ to \in Admitted /\ queue_permits > 0
  <2>1. r \notin Service!Inside /\ Cardinality(Service!Inside) < QueueDepth
    BY <1>1, <1>3, <1>7, ControlStates, PhaseSets
  <2>2. CASE to \in HoldsLock
    <3>1. PhaseOf(to) = "active"
      BY <2>2 DEF PhaseOf
    <3>2. Service!CanRun(r)
      BY <1>7, <2>2, ControlStates, NewHolderCanRun
    <3>3. Service!Enter(r)
      BY <1>2, <2>1, <3>1, <3>2, SameCardinality DEF Service!Enter
    <3> QED
      BY <3>3 DEF Service!Next
  <2>3. CASE to \notin HoldsLock
    <3>1. PhaseOf(to) = "pending"
      BY <1>7, <2>3 DEF PhaseOf
    <3>2. Service!Enter(r)
      BY <1>2, <2>1, <3>1, SameCardinality DEF Service!Enter
    <3> QED
      BY <3>2 DEF Service!Next
  <2> QED
    BY <2>2, <2>3
<1>8. CASE pc[r] \in Out /\ to = "refused" /\ queue_permits = 0
  <2>1. r \notin Service!Inside /\ Cardinality(Service!Inside) = QueueDepth
    BY <1>1, <1>3, <1>8, ControlStates, PhaseSets
  <2>2. PhaseOf(to) = "refused"
    BY <1>8 DEF PhaseOf, Admitted, HoldsConcurrency, HoldsLock
  <2>3. Service!Refuse(r)
    BY <1>2, <2>1, <2>2, SameCardinality DEF Service!Refuse
  <2> QED
    BY <2>3 DEF Service!Next
<1> QED
  BY <1>4, <1>5, <1>6, <1>7, <1>8

\* Every step of the detailed gates is a step of the service or none.
LEMMA StepRefines ==
  ASSUME Faults = {}, Inv, Inv', NothingLeaked, [Next]_vars
  PROVE  NothingLeaked' /\ [Service!Next]_phase
<1> USE DEF NothingLeaked
<1>1. CASE UNCHANGED vars
  BY <1>1 DEF vars, phase
<1>2. CASE Next
  <2>1. PICK r \in Requests :
          \/ Submit(r) \/ TaskStep(r) \/ Cancellation(r) \/ Disconnect(r)
          \/ ThreadEnds(r) \/ SendEnds(r)
    BY <1>2 DEF Next
  <2>2. leaked' = 0
    BY <2>1 DEF Submit, Refuse, AdmitBuffered, AdmitStreaming, AdmitUnencodable, Acquire,
       TaskStep, Advance, StartStream, ResumeConcurrency, ResumeModelLock, PollConnected,
       PollDisconnected, Dispatch, DispatchCancelled, FinalizeAbandoned,
       Cancellation, LoseStream, CancelConcurrencyWait, CancelLockWait,
       Disconnect, ThreadEnds, ThreadReturns, ThreadRaises,
       SendEnds, ChunkSent, AbandonStream, Unwind, LeaveQueue
  <2> SUFFICES [Service!Next]_phase
    BY <2>2
  <2>3. /\ {"poll", "dispatch", "thread", "send", "abandoned"} \subseteq HoldsLock
        /\ {"cancelled", "done", "failed"} \subseteq Out \ {"refused"}
        /\ queue_permits \in Nat
    BY DEF HoldsLock, Out, Inv, QueueGate
  <2>4. ASSUME NEW to \in {"cancelled", "done", "failed"}, pc[r] \in Admitted,
               LeaveQueue(r, to)
        PROVE  [Service!Next]_phase
    BY <2>3, <2>4, MoveRefines DEF LeaveQueue
  <2>5. CASE Submit(r)
    <3>1. CASE Refuse(r)
      BY <3>1, MoveRefines DEF Refuse, Begin
    <3>2. CASE AdmitStreaming(r)
      BY <3>2, ControlStates, MoveRefines DEF AdmitStreaming, Acquire, Begin
    <3>3. CASE AdmitBuffered(r)
      <4>1. pc[r] \in Out /\ queue_permits > 0 /\ EnterConcurrency(r)
        BY <3>3 DEF AdmitBuffered, Acquire, Begin
      <4>2. PICK to \in {"poll", "dispatch", "lock", "concurrency"} : Goto(r, to)
        BY <4>1 DEF EnterConcurrency, EnterModelLock
      <4> QED
        BY <2>3, <4>1, <4>2, ControlStates, MoveRefines
    <3> QED
      BY <2>5, <3>1, <3>2, <3>3 DEF Submit, AdmitUnencodable
  <2>6. CASE TaskStep(r)
    <3>1. CASE StartStream(r) \/ ResumeConcurrency(r) \/ ResumeModelLock(r)
      <4>1. pc[r] \in {"response", "concurrency", "lock"}
        BY <3>1, ConcurrencyGranted, LockGranted DEF StartStream, ResumeConcurrency,
           ResumeModelLock, Inv
      <4>2. PICK to \in {"poll", "dispatch", "lock", "concurrency"} : Goto(r, to)
        BY <3>1 DEF StartStream, ResumeConcurrency, ResumeModelLock, EnterConcurrency,
           EnterModelLock
      <4> QED
        BY <2>3, <4>1, <4>2, ControlStates, MoveRefines
    <3>2. CASE PollConnected(r) \/ Dispatch(r)
      BY <2>3, <3>2, MoveRefines DEF PollConnected, Dispatch
    <3>3. CASE PollDisconnected(r) \/ DispatchCancelled(r) \/ FinalizeAbandoned(r)
      <4>1. pc[r] \in HoldsLock /\ LeaveQueue(r, "cancelled")
        BY <2>3, <3>3 DEF PollDisconnected, DispatchCancelled, FinalizeAbandoned, Unwind
      <4> QED
        BY <2>4, <4>1, ControlStates
    <3> QED
      BY <2>6, <3>1, <3>2, <3>3 DEF TaskStep, Advance
  <2>7. CASE Cancellation(r)
    <3>1. pc[r] \in {"concurrency", "lock"} /\ LeaveQueue(r, "cancelled")
      BY <2>7 DEF Cancellation, LoseStream, CancelConcurrencyWait, CancelLockWait
    <3> QED
      BY <2>4, <3>1, ControlStates
  <2>8. CASE Disconnect(r)
    BY <2>8 DEF Disconnect, phase
  <2>9. CASE ThreadEnds(r)
    <3>1. pc[r] = "thread"
      BY <2>9 DEF ThreadEnds, ThreadReturns, ThreadRaises
    <3>2. \/ Goto(r, "poll") \/ Goto(r, "send")
          \/ LeaveQueue(r, "done") \/ LeaveQueue(r, "failed")
      BY <2>9 DEF ThreadEnds, ThreadReturns, ThreadRaises, Unwind
    <3> QED
      BY <2>3, <2>4, <3>1, <3>2, ControlStates, MoveRefines
  <2>10. CASE SendEnds(r)
    <3>1. pc[r] = "send"
      BY <2>10 DEF SendEnds, ChunkSent, AbandonStream
    <3>2. Goto(r, "dispatch") \/ Goto(r, "abandoned") \/ LeaveQueue(r, "done")
      BY <2>10 DEF SendEnds, ChunkSent, AbandonStream, Unwind
    <3> QED
      BY <2>3, <2>4, <3>1, <3>2, ControlStates, MoveRefines
  <2> QED
    BY <2>1, <2>5, <2>6, <2>7, <2>8, <2>9, <2>10
<1> QED
  BY <1>1, <1>2

\* FR-CC-01, -03, -04: as long as building a response cannot fail, the gates
\* of synthesize_service implement the bounded service a client is promised.
THEOREM ImplementsService ==
  ASSUME Faults = {}
  PROVE  Spec => ServiceSpec
<1>1. Init => NothingLeaked /\ Service!Init
  <2>1. PhaseOf("idle") = "out"
    BY DEF PhaseOf, Admitted, HoldsConcurrency, HoldsLock
  <2> QED
    BY <2>1 DEF Init, NothingLeaked, Service!Init, phase
<1>2. NothingLeaked /\ Inv /\ Inv' /\ [Next]_vars => NothingLeaked' /\ [Service!Next]_phase
  BY StepRefines
<1> QED
  BY <1>1, <1>2, InvHolds, PTL DEF Spec, ServiceSpec, Service!Spec

\* NFR-RL-03 holds but for the faults of response construction: every other
\* exit of a request gives its queue permit and its file back.
THEOREM OnlyResponsesLeak ==
  ASSUME Faults = {}
  PROVE  Spec => []NothingLeaked
<1>1. Init => NothingLeaked
  BY DEF Init, NothingLeaked
<1>2. NothingLeaked /\ Inv /\ Inv' /\ [Next]_vars => NothingLeaked'
  BY StepRefines
<1> QED
  BY <1>1, <1>2, InvHolds, PTL DEF Spec
=============================================================================
