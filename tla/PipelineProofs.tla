--------------------------- MODULE PipelineProofs ---------------------------
(***************************************************************************)
(* Theorems about the gates and the model cache together.  The pipeline    *)
(* implements both of its parts, so what is proved of each holds of it;    *)
(* what is left to prove is what the two have to do with each other.       *)
(***************************************************************************)
EXTENDS SynthesisPipeline, AdmissionProofs, ModelCacheProofs

-----------------------------------------------------------------------------
(* The two parts                                                           *)

\* The pipeline is an admission service ...
LEMMA PipelineIsAdmission == PipelineSpec => Spec
<1>1. PipelineInit => Init
  BY DEF PipelineInit
<1>2. [PipelineNext]_pipelineVars => [Next]_vars
  BY DEF PipelineNext, pipelineVars, DispatchCall, ProviderStep, CallEnds, GateStep,
         Next, TaskStep, Advance, ThreadEnds
<1> QED
  BY <1>1, <1>2, PTL DEF PipelineSpec, Spec

\* ... and its provider calls use the cache as any threads would.
LEMMA PipelineIsCache == PipelineSpec => CacheSpec
<1>1. PipelineInit => CacheInit
  BY DEF PipelineInit
<1>2. [PipelineNext]_pipelineVars => [CacheNext]_cacheVars
  BY Constants, PipelineAssumption DEF PipelineNext, pipelineVars, DispatchCall, ProviderStep,
     CallEnds, GateStep, CacheNext
<1> QED
  BY <1>1, <1>2, PTL DEF PipelineSpec, CacheSpec

\* What the gates promise of the threads, and the cache of its calls.
Parts ==
  /\ Inv /\ ExclusiveInference
  /\ CacheInv /\ CacheCoherent /\ VictimsAreUnloading

LEMMA PartsHold == PipelineSpec => []Parts
<1>1. Inv /\ ExclusiveInference /\ CacheInv /\ CacheCoherent /\ VictimsAreUnloading => Parts
  BY DEF Parts
<1> QED
  BY <1>1, PipelineIsAdmission, PipelineIsCache, InvHolds, MutualExclusion,
     CacheInvHolds, CacheAlwaysCoherent, VictimsAreDropped, PTL

-----------------------------------------------------------------------------
(* A thread holds the gates for as long as its call is in the provider      *)

LEMMA CallTypes ==
  ASSUME Parts
  PROVE  /\ CacheTypeOK
         /\ pc \in [Requests -> Out \cup Admitted]
         /\ call \in [Requests -> Phases] /\ key \in [Requests -> Models \cup {None}]
         /\ held \in [Requests -> Objects \cup {None}]
         /\ victim \in [Requests -> Objects \cup {None}]
         /\ model \in [Models -> Objects \cup {None}]
  BY PipelineAssumption DEF Parts, Inv, Progress, CacheInv, CacheTypeOK

\* No step of the gates moves a task whose thread runs.
LEMMA GateStepsMoveOthers ==
  ASSUME Inv, NEW r \in Requests,
         Submit(r) \/ Advance(r) \/ Cancellation(r) \/ Disconnect(r) \/ SendEnds(r)
  PROVE  \/ pc' = pc
         \/ pc[r] # "thread" /\ \E to : Goto(r, to)
<1>1. EnterModelLock(r) => \E to : Goto(r, to)
  BY DEF EnterModelLock
<1>2. EnterConcurrency(r) => \E to : Goto(r, to)
  BY <1>1 DEF EnterConcurrency
<1>3. CASE Submit(r)
  BY <1>2, <1>3 DEF Submit, Refuse, AdmitBuffered, AdmitStreaming, AdmitUnencodable, Acquire,
     Begin, Out
<1>4. CASE Advance(r)
  <2>1. r \in concurrency.granted => pc[r] = "concurrency"
    BY ConcurrencyGranted DEF Inv
  <2>2. r \in model_locks[ModelOf[r]].granted => pc[r] = "lock"
    BY LockGranted DEF Inv
  <2> QED
    BY <1>1, <1>2, <1>4, <2>1, <2>2 DEF Advance, StartStream, ResumeConcurrency,
       ResumeModelLock, PollConnected, PollDisconnected, DispatchCancelled,
       FinalizeAbandoned, Unwind, LeaveQueue
<1>5. CASE Cancellation(r) \/ Disconnect(r) \/ SendEnds(r)
  BY <1>5 DEF Cancellation, LoseStream, CancelConcurrencyWait, CancelLockWait, LeaveQueue,
     Disconnect, SendEnds, ChunkSent, AbandonStream, Unwind
<1> QED
  BY <1>3, <1>4, <1>5

\* synthesize_service.py: run_sync is awaited inside both gates, so a call is
\* in the provider only while its request is past them.
THEOREM ThreadsStayGated == PipelineSpec => []CallsAreGated
<1>1. PipelineInit => CallsAreGated
  BY PipelineAssumption DEF PipelineInit, CacheInit, CallsAreGated, Resting
<1>2. Parts /\ CallsAreGated /\ [PipelineNext]_pipelineVars => CallsAreGated'
  <2> SUFFICES ASSUME Parts, CallsAreGated, PipelineNext
               PROVE  CallsAreGated'
    BY DEF CallsAreGated, pipelineVars, cacheVars, vars
  <2>1. PICK r \in Requests :
          DispatchCall(r) \/ ProviderStep(r) \/ CallEnds(r) \/ GateStep(r)
    BY DEF PipelineNext
  <2>2. CASE DispatchCall(r)
    BY <2>2, CallTypes DEF DispatchCall, Dispatch, Goto, Call, Hit, Reject,
       Miss, Step, Resting, CallsAreGated
  <2>3. CASE ProviderStep(r)
    BY <2>3, CallTypes DEF ProviderStep, vars, Inside, GenerateEnds, LoadReturns,
       LoadRaises, Adopt, Insert, Unload, Generate,
       EndCall, Step, Resting, CallsAreGated
  <2>4. CASE CallEnds(r)
    BY <2>4, CallTypes DEF CallEnds, cacheVars, ThreadReturns, ThreadRaises, Unwind, LeaveQueue,
       Goto, Resting, CallsAreGated
  <2>5. CASE GateStep(r)
    BY <2>5, CallTypes, GateStepsMoveOthers DEF GateStep, Parts, cacheVars, Goto, CallsAreGated
  <2> QED
    BY <2>1, <2>2, <2>3, <2>4, <2>5
<1> QED
  BY <1>1, <1>2, PartsHold, PTL DEF PipelineSpec

-----------------------------------------------------------------------------
(* How many models are alive                                               *)

InProvider == {r \in Requests : call[r] \notin Resting}

\* The calls that still unload another model when theirs has left the cache.
Overtaken ==
  {r \in Requests : call[r] = "unloading" /\ \A m \in Models : model[m] # held[r]}

OneNotOvertaken == Cardinality(Overtaken) <= Cap - 1

LEMMA ThreadsAreFew ==
  ASSUME Parts, CallsAreGated
  PROVE  /\ InProvider \subseteq At({"thread"})
         /\ IsFiniteSet(At({"thread"})) /\ Cardinality(At({"thread"})) \in Nat
         /\ Cardinality(At({"thread"})) <= Cap
<1>1. At({"thread"}) \subseteq Requests
  BY DEF At
<1>2. IsFiniteSet(At({"thread"})) /\ Cardinality(At({"thread"})) \in Nat
  BY <1>1, Constants, FS_Subset, FS_CardinalityType
<1> QED
  BY <1>2 DEF Parts, ExclusiveInference, InProvider, CallsAreGated, At

\* The last of the calls that run to install its model still has it there.
LEMMA OneNotOvertakenHolds == PipelineSpec => []OneNotOvertaken
<1>1. PipelineInit => OneNotOvertaken
  <2> SUFFICES ASSUME PipelineInit PROVE OneNotOvertaken
    OBVIOUS
  <2>1. Overtaken = {}
    BY PipelineAssumption DEF PipelineInit, CacheInit, Overtaken
  <2> QED
    BY <2>1, FS_EmptySet, Constants DEF OneNotOvertaken
<1>2. /\ Parts /\ CallsAreGated /\ CallsAreGated' /\ OneNotOvertaken
      /\ [PipelineNext]_pipelineVars
      => OneNotOvertaken'
  <2> SUFFICES ASSUME Parts, CallsAreGated, CallsAreGated', OneNotOvertaken, PipelineNext
               PROVE  OneNotOvertaken'
    BY DEF OneNotOvertaken, Overtaken, pipelineVars, cacheVars
  <2>1. PICK r \in Requests :
          DispatchCall(r) \/ ProviderStep(r) \/ CallEnds(r) \/ GateStep(r)
    BY DEF PipelineNext
  <2>2. CASE Insert(r) /\ pc' = pc
    \* The others that run are at most Cap - 1, and r itself is not overtaken.
    <3>1. key[r] \in Models
      BY <2>2, CallTypes, PipelineAssumption DEF Insert, CacheTypeOK, Resting
    <3>2. call'[r] \in {"ready", "unloading"} /\ model'[key[r]] = held[r] /\ held' = held
      BY <2>2, <3>1, CallTypes DEF Insert, Step
    <3>3. r \in At({"thread"}) /\ Overtaken' \subseteq At({"thread"}) \ {r}
      BY <2>2, <3>1, <3>2 DEF Overtaken, CallsAreGated, At, Resting
    <3>4. /\ IsFiniteSet(At({"thread"}) \ {r})
          /\ Cardinality(At({"thread"}) \ {r}) = Cardinality(At({"thread"})) - 1
      BY <3>3, ThreadsAreFew, FS_RemoveElement
    <3>5. /\ Cardinality(Overtaken') <= Cardinality(At({"thread"}) \ {r})
          /\ Cardinality(Overtaken') \in Nat
      BY <3>3, <3>4, FS_Subset, FS_CardinalityType
    <3> QED
      BY <3>4, <3>5, ThreadsAreFew, Constants DEF OneNotOvertaken
  <2>3. CASE model' = model /\ \A s \in Requests : call'[s] = "unloading" =>
                                 call[s] = "unloading" /\ held'[s] = held[s]
    <3>1. Overtaken' \subseteq Overtaken
      BY <2>3 DEF Overtaken
    <3>2. IsFiniteSet(Overtaken) /\ IsFiniteSet(Overtaken')
      BY Constants, FS_Subset DEF Overtaken
    <3>3. /\ Cardinality(Overtaken') <= Cardinality(Overtaken)
          /\ Cardinality(Overtaken') \in Nat /\ Cardinality(Overtaken) \in Nat
      BY <3>1, <3>2, FS_Subset, FS_CardinalityType
    <3> QED
      BY <3>3, Constants DEF OneNotOvertaken
  <2>4. CASE UNCHANGED cacheVars
    BY <2>3, <2>4 DEF cacheVars
  <2>5. CASE DispatchCall(r)
    BY <2>3, <2>5, CallTypes DEF DispatchCall, Call, Hit, Reject, Miss, Step
  <2>6. CASE ProviderStep(r) /\ ~Insert(r)
    BY <2>3, <2>6, CallTypes DEF ProviderStep, Inside, LoadReturns, LoadRaises, Adopt, Unload,
       Generate, GenerateEnds, EndCall, Step, Resting
  <2> QED
    BY <2>1, <2>2, <2>4, <2>5, <2>6 DEF CallEnds, GateStep, ProviderStep, vars
<1> QED
  BY <1>1, <1>2, PartsHold, ThreadsStayGated, PTL DEF PipelineSpec

\* A bound of a set bounds its image, and bounds of two sets their union.
LEMMA BoundedImage ==
  ASSUME NEW S, IsFiniteSet(S), NEW f, NEW n \in Nat, Cardinality(S) <= n
  PROVE  LET T == {f[x] : x \in S}
         IN  IsFiniteSet(T) /\ Cardinality(T) \in Nat /\ Cardinality(T) <= n
<1> DEFINE T == {f[x] : x \in S}
           g == [x \in S |-> f[x]]
<1>1. g \in Surjection(S, T)
  BY DEF Surjection
<1>2. IsFiniteSet(T) /\ Cardinality(T) <= Cardinality(S)
  BY <1>1, FS_Surjection
<1>3. Cardinality(T) \in Nat /\ Cardinality(S) \in Nat
  BY <1>2, FS_CardinalityType
<1> QED
  BY <1>2, <1>3

LEMMA BoundedUnion ==
  ASSUME NEW S, IsFiniteSet(S), NEW m \in Nat, Cardinality(S) <= m,
         NEW T, IsFiniteSet(T), NEW n \in Nat, Cardinality(T) <= n
  PROVE  /\ IsFiniteSet(S \cup T) /\ Cardinality(S \cup T) \in Nat
         /\ Cardinality(S \cup T) <= m + n
<1>1. S \cap T \in SUBSET S
  OBVIOUS
<1>2. IsFiniteSet(S \cap T)
  BY <1>1, FS_Subset
<1>3. IsFiniteSet(S \cup T)
      /\ Cardinality(S \cup T) = Cardinality(S) + Cardinality(T) - Cardinality(S \cap T)
  BY FS_Union
<1>4. /\ Cardinality(S) \in Nat /\ Cardinality(T) \in Nat /\ Cardinality(S \cap T) \in Nat
      /\ Cardinality(S \cup T) \in Nat
  BY <1>2, <1>3, FS_CardinalityType
<1> QED
  BY <1>3, <1>4

\* model_cache.py:108: TTS_MODEL_CACHE_SIZE bounds what is cached; with the
\* calls in flight the models alive are at most twice the permits more.
THEOREM MemoryBounded == PipelineSpec => []LoadedModelsBounded
<1>1. Parts /\ CallsAreGated /\ OneNotOvertaken => LoadedModelsBounded
  <2> SUFFICES ASSUME Parts, CallsAreGated, OneNotOvertaken
               PROVE  LoadedModelsBounded
    OBVIOUS
  <2> DEFINE own == [r \in Requests |-> IF call[r] = "unloading" THEN victim[r] ELSE held[r]]
             A == {model[m] : m \in Cached}
             B == {own[r] : r \in InProvider}
             C == {held[r] : r \in Overtaken}
  <2>1. Referenced \ {None} \subseteq (A \cup B) \cup C
    <3>1. \A m \in Models : model[m] # None => m \in Cached
      BY PipelineAssumption DEF Parts, CacheCoherent
    <3>2. \A r \in Requests : victim[r] # None => r \in InProvider /\ own[r] = victim[r]
      BY PipelineAssumption DEF Parts, VictimsAreUnloading, InProvider, Resting
    <3>3. \A r \in Requests : held[r] # None =>
            \/ r \in InProvider /\ own[r] = held[r]
            \/ r \in Overtaken
            \/ \E m \in Models : model[m] = held[r]
      BY CallTypes, PipelineAssumption DEF CacheTypeOK, InProvider, Overtaken
    <3> QED
      BY <3>1, <3>2, <3>3, PipelineAssumption DEF Referenced
  <2>2. MaxSize \in Nat /\ Cap \in Nat /\ Cap - 1 \in Nat
    BY Constants, ModelCacheAssumption
  <2>3. IsFiniteSet(Cached) /\ Cardinality(Cached) <= MaxSize
    <3>1. entries \in Seq(Keys) /\ Len(entries) <= MaxSize
          /\ Cardinality(Cached) = Len(entries)
      BY CallTypes DEF CacheTypeOK, Parts, CacheCoherent
    <3>2. IsFiniteSet(1..Len(entries)) /\ Cardinality(1..Len(entries)) <= MaxSize
      <4>1. Len(entries) \in Nat /\ 1 \in Int /\ Len(entries) \in Int
        BY <3>1
      <4>2. /\ IsFiniteSet(1..Len(entries))
            /\ Cardinality(1..Len(entries)) =
                 IF 1 > Len(entries) THEN 0 ELSE Len(entries) - 1 + 1
        BY <4>1, FS_Interval
      <4> QED
        BY <2>2, <3>1, <4>1, <4>2
    <3>3. Cached = {entries[i] : i \in 1..Len(entries)}
      BY <3>1 DEF Cached, ToSet
    <3> QED
      BY <2>2, <3>1, <3>2, <3>3, BoundedImage
  <2>4. IsFiniteSet(A) /\ Cardinality(A) <= MaxSize
    BY <2>2, <2>3, BoundedImage
  <2>5. IsFiniteSet(InProvider) /\ Cardinality(InProvider) <= Cap
    <3>1. /\ IsFiniteSet(InProvider)
          /\ Cardinality(InProvider) <= Cardinality(At({"thread"}))
      BY ThreadsAreFew, FS_Subset
    <3>2. Cardinality(InProvider) \in Nat
      BY <3>1, FS_CardinalityType
    <3> QED
      BY <2>2, <3>1, <3>2, ThreadsAreFew
  <2>6. IsFiniteSet(B) /\ Cardinality(B) <= Cap
    BY <2>2, <2>5, BoundedImage
  <2>7. IsFiniteSet(Overtaken)
    BY Constants, FS_Subset DEF Overtaken
  <2>8. IsFiniteSet(C) /\ Cardinality(C) <= Cap - 1
    BY <2>2, <2>7, BoundedImage DEF OneNotOvertaken
  <2> HIDE DEF A, B, C
  <2>9. IsFiniteSet(A \cup B) /\ Cardinality(A \cup B) <= MaxSize + Cap
    BY <2>2, <2>4, <2>6, BoundedUnion
  <2>10. /\ IsFiniteSet((A \cup B) \cup C)
         /\ Cardinality((A \cup B) \cup C) \in Nat
         /\ Cardinality((A \cup B) \cup C) <= (MaxSize + Cap) + (Cap - 1)
    <3>1. MaxSize + Cap \in Nat
      BY <2>2
    <3> QED
      BY <2>2, <2>8, <2>9, <3>1, BoundedUnion
  <2>11. /\ Cardinality(Referenced \ {None}) <= Cardinality((A \cup B) \cup C)
         /\ Cardinality(Referenced \ {None}) \in Nat
    BY <2>1, <2>10, FS_Subset, FS_CardinalityType
  <2> QED
    BY <2>2, <2>10, <2>11 DEF LoadedModelsBounded
<1> QED
  BY <1>1, PartsHold, ThreadsStayGated, OneNotOvertakenHolds, PTL

-----------------------------------------------------------------------------
(* When nobody generates with an unloaded model                             *)

\* A call past its load has in hand what the cache has under its key; the
\* object that it has just loaded is new.
InHandIsCached ==
  \A r \in Requests :
    /\ call[r] \in {"unloading", "ready", "generating"} =>
         key[r] \in Models /\ held[r] = model[key[r]]
    /\ call[r] = "loaded" => held[r] \notin unloaded

LEMMA OneAtATime ==
  ASSUME Cap = 1, Parts, CallsAreGated,
         NEW r \in InProvider, NEW s \in InProvider
  PROVE  r = s
<1>1. At({"thread"}) # {}
  BY ThreadsAreFew
<1>2. Cardinality(At({"thread"})) = 1
  BY <1>1, ThreadsAreFew, FS_EmptySet
<1>3. \E x : At({"thread"}) = {x}
  BY <1>2, ThreadsAreFew, FS_Singleton
<1> QED
  BY <1>3, ThreadsAreFew

LEMMA AloneKeepsItsModel ==
  ASSUME Cap = 1, Parts, Parts', CallsAreGated, InHandIsCached,
         NEW r \in Requests, DispatchCall(r) \/ ProviderStep(r)
  PROVE  InHandIsCached'
<1>1. \A s \in Requests \ {r} : call'[s] = call[s] /\ key'[s] = key[s] /\ held'[s] = held[s]
  BY CallTypes DEF DispatchCall, Call, Hit, Reject, Miss, ProviderStep, Inside, LoadReturns,
     LoadRaises, Adopt, Insert, Unload, Generate, GenerateEnds, EndCall, Step
<1>2. ASSUME call[r] \in Resting => model' = model /\ unloaded' = unloaded
      PROVE  \A s \in Requests \ {r} :
               /\ call'[s] \in {"unloading", "ready", "generating"} =>
                    key'[s] \in Models /\ held'[s] = model'[key'[s]]
               /\ call'[s] = "loaded" => held'[s] \notin unloaded'
  <2> TAKE s \in Requests \ {r}
  <2>1. CASE call[r] \in Resting
    BY <1>1, <1>2, <2>1 DEF InHandIsCached
  <2>2. CASE call[r] \notin Resting
    <3>1. call[s] \in Resting
      BY <2>2, OneAtATime DEF InProvider
    <3> QED
      BY <1>1, <3>1 DEF Resting
  <2> QED
    BY <2>1, <2>2
<1>3. call[r] \in Resting => model' = model /\ unloaded' = unloaded
  BY CallTypes DEF DispatchCall, Call, Hit, Reject, Miss, ProviderStep, Inside, LoadReturns,
     LoadRaises, Adopt, Insert, Unload, Generate, GenerateEnds, EndCall, Step, Resting
<1>4. /\ call'[r] \in {"unloading", "ready", "generating"} =>
           key'[r] \in Models /\ held'[r] = model'[key'[r]]
      /\ call'[r] = "loaded" => held'[r] \notin unloaded'
  <2>1. CASE DispatchCall(r)
    <3>1. ModelOf[r] \in Models
      BY Constants
    <3> QED
      BY <2>1, <3>1, CallTypes DEF DispatchCall, Call, Hit, Reject, Miss, Step, Resting
  <2>2. CASE LoadReturns(r)
    BY <2>2, CallTypes DEF LoadReturns, Step
  <2>3. CASE LoadRaises(r) \/ \E outcome \in Resting : GenerateEnds(r, outcome)
    BY <2>3, CallTypes DEF LoadRaises, GenerateEnds, EndCall, Step, Resting
  <2>4. CASE Adopt(r)
    BY <2>4, CallTypes, PipelineAssumption DEF Adopt, Step, CacheTypeOK, Resting
  <2>5. CASE Insert(r)
    BY <2>5, CallTypes, PipelineAssumption DEF Insert, Step, CacheTypeOK, Resting
  <2>6. CASE Unload(r) \/ Generate(r)
    BY <2>6, CallTypes DEF Unload, Generate, Step, InHandIsCached
  <2> QED
    BY <2>1, <2>2, <2>3, <2>4, <2>5, <2>6 DEF ProviderStep, Inside
<1> QED
  BY <1>2, <1>3, <1>4 DEF InHandIsCached

\* FR-CA-02 does hold with one concurrency permit: the pipeline_inuse run
\* needs a second call, and what it finds has no other cause.
THEOREM OneCallIsSafe ==
  ASSUME Cap = 1
  PROVE  PipelineSpec => []NoUseAfterUnload
<1>1. PipelineInit => InHandIsCached
  BY PipelineAssumption DEF PipelineInit, CacheInit, InHandIsCached
<1>2. /\ Parts /\ Parts' /\ CallsAreGated /\ InHandIsCached /\ [PipelineNext]_pipelineVars
      => InHandIsCached'
  <2> SUFFICES ASSUME Parts, Parts', CallsAreGated, InHandIsCached,
                      [PipelineNext]_pipelineVars
               PROVE  InHandIsCached'
    OBVIOUS
  <2>1. CASE UNCHANGED cacheVars
    BY <2>1 DEF InHandIsCached, cacheVars
  <2>2. CASE \E r \in Requests : DispatchCall(r) \/ ProviderStep(r)
    BY <2>2, AloneKeepsItsModel
  <2> QED
    BY <2>1, <2>2 DEF PipelineNext, pipelineVars, CallEnds, GateStep
<1>3. Parts /\ InHandIsCached => NoUseAfterUnload
  <2> SUFFICES ASSUME Parts, InHandIsCached, NEW r \in Requests, held[r] # None
               PROVE  held[r] \notin unloaded
    BY PipelineAssumption DEF NoUseAfterUnload
  <2>1. CASE call[r] \in {"unloading", "ready", "generating"}
    BY <2>1, PipelineAssumption DEF Parts, CacheCoherent, InHandIsCached
  <2>2. CASE call[r] = "loaded"
    BY <2>2 DEF InHandIsCached
  <2>3. call[r] \in {"unloading", "ready", "generating", "loaded"}
    BY CallTypes, PipelineAssumption DEF CacheTypeOK, Phases, Resting
  <2> QED
    BY <2>1, <2>2, <2>3
<1> QED
  BY <1>1, <1>2, <1>3, PartsHold, ThreadsStayGated, PTL DEF PipelineSpec
=============================================================================
