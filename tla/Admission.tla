----------------------------- MODULE Admission -----------------------------
(***************************************************************************)
(* Admission and scheduling of syntheses: services/synthesize_service.py   *)
(* from the creation of the temporary voice file on (synthesize_core),     *)
(* with the buffered path (_run_synthesis) and the streaming one           *)
(* (_stream_synthesis_chunks).                                             *)
(*                                                                         *)
(* Each action is what one asyncio task does between two suspensions, or   *)
(* one event of the outside world: a worker thread ending, the ASGI server *)
(* accepting a body chunk, a client going away.  A slot in Requests issues *)
(* one request after another.                                              *)
(***************************************************************************)
EXTENDS AsyncSemaphore

CONSTANTS
  Buffered,     \* request slots with payload.stream = FALSE
  Streaming,    \* request slots with payload.stream = TRUE
  Models,       \* (provider, model) keys
  ModelOf,      \* the model each slot asks for
  QueueDepth,   \* TTS_MAX_QUEUE_DEPTH
  Cap,          \* TTS_MAX_CONCURRENT_REQUESTS
  MaxChunks,    \* bound: chunks split_text_semantic cuts an input into
  Faults        \* which faults of response construction may happen

Requests == Buffered \cup Streaming

ASSUME AdmissionAssumption ==
  /\ IsFiniteSet(Requests)
  /\ Buffered \cap Streaming = {}
  /\ ModelOf \in [Requests -> Models]
  /\ QueueDepth \in Nat           \* config.py accepts 0
  /\ Cap \in Nat \ {0}            \* config.py clamps to at least 1
  /\ MaxChunks \in Nat \ {0}
  /\ Faults \subseteq {"unencodable_header", "start_cancelled"}

VARIABLES
  pc,            \* where the task of each slot is suspended
  left,          \* chunks the request has not dispatched yet
  gone,          \* `left` when the client went away, Connected before that
  tmp_files,     \* slots whose live request has its temporary voice file
  queue_permits, \* app.state.queue_semaphore._value; it never has waiters
  concurrency,   \* app.state.concurrency_semaphore
  model_locks,   \* app.state.model_locks, one asyncio.Lock per model key
  leaked         \* queue permits (each with its temporary file) nobody owns

vars == <<pc, left, gone, tmp_files, queue_permits, concurrency, model_locks,
          leaked>>

Connected == -1
Gone(r) == gone[r] # Connected

Out == {"idle", "done", "failed", "refused", "cancelled"}
HoldsLock == {"poll", "dispatch", "thread", "send", "abandoned"}
HoldsConcurrency == HoldsLock \cup {"lock"}
Admitted == HoldsConcurrency \cup {"response", "concurrency"}

\* What /health and the drain can tell of the semaphores: their _value.
Used(value, capacity) == IF capacity > value THEN capacity - value ELSE 0
queue_depth == Used(queue_permits, QueueDepth)
concurrent_active == Used(concurrency.value, Cap)

At(S) == {r \in Requests : pc[r] \in S}
HoldersOf(m) == {r \in At(HoldsLock) : ModelOf[r] = m}
WaitersFor(m) == {r \in At({"lock"}) : ModelOf[r] = m}

Init ==
  /\ pc = [r \in Requests |-> "idle"]
  /\ left = [r \in Requests |-> 0]
  /\ gone = [r \in Requests |-> Connected]
  /\ tmp_files = {}
  /\ queue_permits = QueueDepth
  /\ concurrency = Fresh(Cap)
  /\ model_locks = [m \in Models |-> Fresh(1)]
  /\ leaked = 0

-----------------------------------------------------------------------------
(* Pieces of a step.  None of them suspends, so an action chains them.     *)

Goto(r, to) == pc' = [pc EXCEPT ![r] = to]

\* (faulty: a new asyncio.Lock per request instead of model_locks[key])
EnterOwnLock(r) ==
  /\ model_locks' = [model_locks EXCEPT ![ModelOf[r]] = Take(@)]
  /\ Goto(r, IF r \in Buffered THEN "poll" ELSE "dispatch")

\* async with lock: once it is held the task heads for its first chunk.
EnterModelLock(r) ==
  LET m == ModelOf[r] IN
  \/ /\ ~Locked(model_locks[m])
     /\ model_locks' = [model_locks EXCEPT ![m] = Take(@)]
     /\ Goto(r, IF r \in Buffered THEN "poll" ELSE "dispatch")
  \/ /\ Locked(model_locks[m])
     /\ model_locks' = [model_locks EXCEPT ![m] = Enqueue(@, r)]
     /\ Goto(r, "lock")

\* async with concur_sem
EnterConcurrency(r) ==
  \/ /\ ~Locked(concurrency)
     /\ concurrency' = Take(concurrency)
     /\ EnterModelLock(r)
  \/ /\ Locked(concurrency)
     /\ concurrency' = Enqueue(concurrency, r)
     /\ Goto(r, "concurrency")
     /\ UNCHANGED model_locks

\* The queue permit and the temporary file go, whatever ended the request.
LeaveQueue(r, outcome) ==
  /\ queue_permits' = queue_permits + 1
  /\ tmp_files' = tmp_files \ {r}
  /\ left' = [left EXCEPT ![r] = 0]
  /\ gone' = [gone EXCEPT ![r] = Connected]
  /\ Goto(r, outcome)
  /\ UNCHANGED leaked

\* Unwinding from inside both async withs: lock, permit, then the finally.
Unwind(r, outcome) ==
  /\ model_locks' = [model_locks EXCEPT ![ModelOf[r]] = Release(@)]
  /\ concurrency' = Release(concurrency)
  /\ LeaveQueue(r, outcome)

\* A new request of slot r has its voice file and text chunks.
Begin(r) ==
  /\ pc[r] \in Out
  /\ gone' = [gone EXCEPT ![r] = Connected]

-----------------------------------------------------------------------------
(* Admission: locked() and acquire() on the queue, with no await between.  *)

\* (faulty: the locked() test stands inside the try whose finally releases)
RefuseInsideTry(r) ==
  /\ Begin(r)
  /\ queue_permits = 0
  /\ queue_permits' = queue_permits + 1
  /\ Goto(r, "refused")
  /\ UNCHANGED <<left, tmp_files, concurrency, model_locks, leaked>>

\* (faulty: refuses one request early)
RefuseEarly(r) ==
  /\ Begin(r)
  /\ queue_permits <= 1
  /\ Goto(r, "refused")
  /\ UNCHANGED <<left, tmp_files, queue_permits, concurrency, model_locks,
                 leaked>>

\* 429 capacity_error.queue_full; synthesize_core's finally drops the file.
Refuse(r) ==
  /\ Begin(r)
  /\ queue_permits = 0
  /\ Goto(r, "refused")
  /\ UNCHANGED <<left, tmp_files, queue_permits, concurrency, model_locks,
                 leaked>>

Acquire(r) ==
  /\ Begin(r)
  /\ queue_permits > 0
  /\ queue_permits' = queue_permits - 1

AdmitBuffered(r) ==
  /\ r \in Buffered
  /\ Acquire(r)
  /\ tmp_files' = tmp_files \cup {r}
  /\ \E n \in 1..MaxChunks : left' = [left EXCEPT ![r] = n]
  /\ EnterConcurrency(r)
  /\ UNCHANGED leaked

\* (faulty: synthesize_core keeps tmp_path, so its finally removes the file)
AdmitStreamingKeepingFile(r) ==
  /\ r \in Streaming
  /\ Acquire(r)
  /\ \E n \in 1..MaxChunks : left' = [left EXCEPT ![r] = n]
  /\ Goto(r, "response")
  /\ UNCHANGED <<tmp_files, concurrency, model_locks, leaked>>

\* The generator takes over the file (owned_tmp_path) and the permit; it
\* has not started when synthesize_core returns the response.
AdmitStreaming(r) ==
  /\ r \in Streaming
  /\ Acquire(r)
  /\ tmp_files' = tmp_files \cup {r}
  /\ \E n \in 1..MaxChunks : left' = [left EXCEPT ![r] = n]
  /\ Goto(r, "response")
  /\ UNCHANGED <<concurrency, model_locks, leaked>>

\* Building the streaming response raises after the permit is taken (a
\* header value outside latin-1): 500, and the generator never existed.
AdmitUnencodable(r) ==
  /\ "unencodable_header" \in Faults
  /\ r \in Streaming
  /\ Acquire(r)
  /\ leaked' = leaked + 1
  /\ Goto(r, "failed")
  /\ UNCHANGED <<left, tmp_files, concurrency, model_locks>>

-----------------------------------------------------------------------------
(* The task of an admitted request.                                        *)

\* http.response.start is sent and the generator's body begins.
StartStream(r) ==
  /\ pc[r] = "response"
  /\ EnterConcurrency(r)
  /\ UNCHANGED <<left, gone, tmp_files, queue_permits, leaked>>

\* Sending http.response.start is cancelled: a generator that was never
\* started has no finally to run.
LoseStream(r) ==
  /\ "start_cancelled" \in Faults
  /\ pc[r] = "response" /\ Gone(r)
  /\ leaked' = leaked + 1
  /\ tmp_files' = tmp_files \ {r}
  /\ left' = [left EXCEPT ![r] = 0]
  /\ gone' = [gone EXCEPT ![r] = Connected]
  /\ Goto(r, "cancelled")
  /\ UNCHANGED <<queue_permits, concurrency, model_locks>>

ResumeConcurrency(r) ==
  /\ r \in concurrency.granted
  /\ concurrency' = Resume(concurrency, r)
  /\ EnterModelLock(r)
  /\ UNCHANGED <<left, gone, tmp_files, queue_permits, leaked>>

ResumeModelLock(r) ==
  LET m == ModelOf[r] IN
  /\ r \in model_locks[m].granted
  /\ model_locks' = [model_locks EXCEPT ![m] = Resume(@, r)]
  /\ Goto(r, IF r \in Buffered THEN "poll" ELSE "dispatch")
  /\ UNCHANGED <<left, gone, tmp_files, queue_permits, concurrency, leaked>>

\* (faulty: the loop no longer asks is_disconnected)
PollNothing(r) ==
  /\ pc[r] = "poll"
  /\ Goto(r, "dispatch")
  /\ UNCHANGED <<left, gone, tmp_files, queue_permits, concurrency,
                 model_locks, leaked>>

\* await request.is_disconnected() before every chunk of a buffered request
PollConnected(r) ==
  /\ pc[r] = "poll" /\ ~Gone(r)
  /\ Goto(r, "dispatch")
  /\ UNCHANGED <<left, gone, tmp_files, queue_permits, concurrency,
                 model_locks, leaked>>

PollDisconnected(r) ==
  /\ pc[r] = "poll" /\ Gone(r)
  /\ Unwind(r, "cancelled")

\* anyio.to_thread.run_sync: past its first checkpoint the thread runs.  A
\* disconnect cancels the task of a stream (Starlette), never a buffered one.
Dispatch(r) ==
  /\ pc[r] = "dispatch"
  /\ r \in Streaming => ~Gone(r)
  /\ left' = [left EXCEPT ![r] = @ - 1]
  /\ Goto(r, "thread")
  /\ UNCHANGED <<gone, tmp_files, queue_permits, concurrency, model_locks,
                 leaked>>

DispatchCancelled(r) ==
  /\ pc[r] = "dispatch" /\ r \in Streaming /\ Gone(r)
  /\ Unwind(r, "cancelled")

\* (faulty: a dropped generator is never closed)
FinalizeNothing(r) ==
  /\ pc[r] = "abandoned"
  /\ UNCHANGED vars

\* The asyncgen finalizer closes a generator that its consumer dropped.
FinalizeAbandoned(r) ==
  /\ pc[r] = "abandoned"
  /\ Unwind(r, "cancelled")

\* (faulty: the try that releases the queue starts inside async with)
CancelWithoutFinally(r) ==
  /\ pc[r] = "concurrency" /\ r \in Streaming /\ Gone(r)
  /\ concurrency' = CancelWait(concurrency, r)
  /\ left' = [left EXCEPT ![r] = 0]
  /\ gone' = [gone EXCEPT ![r] = Connected]
  /\ tmp_files' = tmp_files \ {r}
  /\ Goto(r, "cancelled")
  /\ UNCHANGED <<queue_permits, model_locks, leaked>>

\* CancelledError inside acquire(), for a stream whose client went away
CancelConcurrencyWait(r) ==
  /\ pc[r] = "concurrency" /\ r \in Streaming /\ Gone(r)
  /\ concurrency' = CancelWait(concurrency, r)
  /\ LeaveQueue(r, "cancelled")
  /\ UNCHANGED model_locks

CancelLockWait(r) ==
  /\ pc[r] = "lock" /\ r \in Streaming /\ Gone(r)
  /\ model_locks' = [model_locks EXCEPT ![ModelOf[r]] = CancelWait(@, r)]
  /\ concurrency' = Release(concurrency)
  /\ LeaveQueue(r, "cancelled")

-----------------------------------------------------------------------------
(* The worker thread and the ASGI server.  run_sync shields the await, so  *)
(* the task stays in "thread" until the provider call returns.             *)

ThreadReturns(r) ==
  /\ pc[r] = "thread"
  /\ IF r \in Streaming
     THEN /\ Goto(r, "send")                   \* yield chunk_wav
          /\ UNCHANGED <<left, gone, tmp_files, queue_permits, concurrency,
                         model_locks, leaked>>
     ELSE IF left[r] > 0
     THEN /\ Goto(r, "poll")
          /\ UNCHANGED <<left, gone, tmp_files, queue_permits, concurrency,
                         model_locks, leaked>>
     ELSE Unwind(r, "done")

ThreadRaises(r) ==
  /\ pc[r] = "thread"
  /\ Unwind(r, "failed")

\* send() of the chunk returned; the generator goes on or ends.
ChunkSent(r) ==
  /\ pc[r] = "send"
  /\ \/ /\ left[r] > 0
        /\ Goto(r, "dispatch")
        /\ UNCHANGED <<left, gone, tmp_files, queue_permits, concurrency,
                       model_locks, leaked>>
     \/ /\ left[r] = 0
        /\ Unwind(r, "done")

\* send() itself is cancelled: the generator stays suspended at its yield
\* with everything it holds, until it is finalized.
AbandonStream(r) ==
  /\ pc[r] = "send" /\ Gone(r)
  /\ Goto(r, "abandoned")
  /\ UNCHANGED <<left, gone, tmp_files, queue_permits, concurrency,
                 model_locks, leaked>>

Disconnect(r) ==
  /\ pc[r] \in Admitted \ {"abandoned"} /\ ~Gone(r)
  /\ gone' = [gone EXCEPT ![r] = left[r]]
  /\ UNCHANGED <<pc, left, tmp_files, queue_permits, concurrency,
                 model_locks, leaked>>

-----------------------------------------------------------------------------
Submit(r) ==
  Refuse(r) \/ AdmitBuffered(r) \/ AdmitStreaming(r) \/ AdmitUnencodable(r)

\* What the event loop runs of its own accord
Advance(r) ==
  \/ StartStream(r) \/ ResumeConcurrency(r) \/ ResumeModelLock(r)
  \/ PollConnected(r) \/ PollDisconnected(r)
  \/ DispatchCancelled(r) \/ FinalizeAbandoned(r)

TaskStep(r) == Advance(r) \/ Dispatch(r)

Cancellation(r) ==
  LoseStream(r) \/ CancelConcurrencyWait(r) \/ CancelLockWait(r)

ThreadEnds(r) == ThreadReturns(r) \/ ThreadRaises(r)

SendEnds(r) == ChunkSent(r) \/ AbandonStream(r)

Next ==
  \E r \in Requests :
    \/ Submit(r) \/ TaskStep(r) \/ Cancellation(r) \/ Disconnect(r)
    \/ ThreadEnds(r) \/ SendEnds(r)

Spec == Init /\ [][Next]_vars

\* The event loop runs every ready task.
LoopFairness == \A r \in Requests : WF_vars(TaskStep(r))
\* The server accepts every chunk, or reports the client gone.
SendFairness == \A r \in Requests : WF_vars(SendEnds(r))
\* Provider calls return or raise.
ThreadFairness == \A r \in Requests : WF_vars(ThreadEnds(r))

FairSpec == Spec /\ LoopFairness /\ SendFairness /\ ThreadFairness
-----------------------------------------------------------------------------
(* Properties *)

\* Type invariant.
TypeOK ==
  /\ pc \in [Requests -> Out \cup Admitted]
  /\ left \in [Requests -> 0..MaxChunks]
  /\ gone \in [Requests -> Connected..MaxChunks]
  /\ tmp_files \subseteq Requests
  /\ queue_permits \in 0..QueueDepth
  /\ concurrency \in [value: 0..Cap, waiting: Seq(Requests), granted: SUBSET Requests]
  /\ model_locks \in [Models -> [value: 0..1, waiting: Seq(Requests), granted: SUBSET Requests]]
  /\ leaked \in 0..QueueDepth

\* Every permit of the three gates is either free, reserved for a woken
\* waiter, held by exactly one live request, or counted as leaked: no exit
\* path of _run_synthesis or _stream_synthesis_chunks returns one twice or
\* keeps one, whatever the interleaving.
PermitsAccounted ==
  /\ queue_permits + Cardinality(At(Admitted)) + leaked = QueueDepth
  /\ Permits(concurrency) + Cardinality(At(HoldsConcurrency)) = Cap
  /\ \A m \in Models : Permits(model_locks[m]) + Cardinality(HoldersOf(m)) = 1

\* FR-CC-01 and FR-CC-04: at most Cap provider calls run, and no two of
\* them in the same model.
ExclusiveInference ==
  /\ Cardinality(At({"thread"})) <= Cap
  /\ \A r, s \in At({"thread"}) : ModelOf[r] = ModelOf[s] => r = s

\* No lost wake-up: a task waits at a gate only while somebody else holds
\* it or has been granted it, so a release is still to come.
NoStrandedWaiter ==
  /\ concurrency.waiting # << >> =>
       concurrency.granted # {} \/ Cardinality(At(HoldsConcurrency)) = Cap
  /\ \A m \in Models : model_locks[m].waiting # << >> =>
       model_locks[m].granted # {} \/ HoldersOf(m) # {}

\* The queues of the gates and the control states of the tasks agree: a
\* suspended task is exactly once in the line it waits in, so it can be
\* neither forgotten nor granted a permit after it left.
WaitersAreQueued ==
  /\ InLine(concurrency, Requests, At({"concurrency"}))
  /\ \A m \in Models : InLine(model_locks[m], Requests, WaitersFor(m))

\* The worker thread reads the reference audio through the temporary file:
\* it must outlive every provider call although synthesize_core's finally
\* has long run for a stream, and no file may outlive its request.
VoiceFileLifetime ==
  /\ At({"thread"}) \subseteq tmp_files
  /\ tmp_files \subseteq At(Admitted)

\* What every step preserves, and what the invariants above follow from.
\* The gates agree with the control states of the tasks, the live requests
\* are those with a file, and a task short of its provider call has a chunk.
ConcurrencyGate ==
  Gate(concurrency, Requests, At({"concurrency"}), At(HoldsConcurrency), Cap)
LockGates ==
  /\ model_locks \in [Models -> [value: Nat, waiting: Seq(Requests), granted: SUBSET Requests]]
  /\ \A m \in Models :
       Gate(model_locks[m], Requests, WaitersFor(m), HoldersOf(m), 1)
QueueGate ==
  /\ queue_permits \in Nat /\ leaked \in Nat
  /\ queue_permits + Cardinality(At(Admitted)) + leaked = QueueDepth
Progress ==
  /\ pc \in [Requests -> Out \cup Admitted]
  /\ left \in [Requests -> 0..MaxChunks]
  /\ gone \in [Requests -> Connected..MaxChunks]
  /\ \A r \in At(Admitted \ {"thread", "send", "abandoned"}) : left[r] > 0
FilesOwned == tmp_files = At(Admitted)
Inv == Progress /\ QueueGate /\ FilesOwned /\ ConcurrencyGate /\ LockGates

\* FR-CC-05: after the client went away a stream dispatches no further
\* chunk and a buffered request at most the one it had already polled for.
StopsAtChunkBoundary ==
  \A r \in Requests :
    Gone(r) => gone[r] - left[r] <= (IF r \in Buffered THEN 1 ELSE 0)

\* What an operator reads from /health, and what the drain of a shutdown
\* goes by, is true of the tasks: queue_depth counts the live requests and
\* the leaked permits, and when concurrent_active is 0 nobody holds a gate or
\* waits at one; only streams that have not started yet may be left.
HealthHonest ==
  /\ queue_depth = Cardinality(At(Admitted)) + leaked
  /\ concurrent_active = 0 => At(Admitted) \subseteq At({"response"})

\* NFR-RL-03: a request that is over, however it ended, has given back its
\* queue permit and its temporary file.
NothingLeaked == leaked = 0

\* The phase a client could tell, and the promise of BoundedService: each
\* step of the gates is one step of it or none.
PhaseOf(p) ==
  IF p \in HoldsLock THEN "active"
  ELSE IF p \in Admitted THEN "pending"
  ELSE IF p = "refused" THEN "refused" ELSE "out"

phase == [r \in Requests |-> PhaseOf(pc[r])]

Service == INSTANCE BoundedService WITH phase <- phase
ServiceSpec == Service!Spec

\* Every admitted request ends, buffered or streamed, however the others
\* behave: FIFO gates starve nobody and no cycle of waits exists.
AdmittedFinishes ==
  \A r \in Requests : pc[r] \in Admitted ~> pc[r] \in Out
=============================================================================
