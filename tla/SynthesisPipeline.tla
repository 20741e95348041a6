------------------------- MODULE SynthesisPipeline -------------------------
(***************************************************************************)
(* Admission and the model cache together: the worker thread of a chunk    *)
(* (anyio.to_thread.run_sync in synthesize_service.py) runs the provider   *)
(* call of ModelCache, so the calls in the cache are those the gates let   *)
(* through, and a gate is held until the call in the cache has ended.      *)
(***************************************************************************)
EXTENDS Admission, ModelCache

\* One thread slot for each request slot: a request makes one call at a time.
ASSUME PipelineAssumption == Threads = Requests /\ Keys = Models

PipelineInit == Init /\ CacheInit

-----------------------------------------------------------------------------
\* run_sync starts the thread, which looks its model up first.
DispatchCall(r) ==
  /\ Dispatch(r)
  /\ Call(r, ModelOf[r])

ProviderStep(r) ==
  /\ Inside(r) \/ \E outcome \in Resting : GenerateEnds(r, outcome)
  /\ UNCHANGED vars

\* (faulty: run_sync(..., abandon_on_cancel=True) leaves the thread behind)
AbandonThread(r) ==
  /\ \/ call[r] = "failed" /\ ThreadRaises(r)
     \/ call[r] = "idle" /\ ThreadReturns(r)
     \/ Gone(r) /\ ThreadRaises(r)
  /\ UNCHANGED cacheVars

\* The thread hands its result or its exception back to the task.
CallEnds(r) ==
  /\ \/ call[r] = "failed" /\ ThreadRaises(r)
     \/ call[r] = "idle" /\ ThreadReturns(r)
  /\ UNCHANGED cacheVars

\* Everything else leaves the cache alone.
GateStep(r) ==
  /\ Submit(r) \/ Advance(r) \/ Cancellation(r) \/ Disconnect(r) \/ SendEnds(r)
  /\ UNCHANGED cacheVars

PipelineNext ==
  \E r \in Requests :
    DispatchCall(r) \/ ProviderStep(r) \/ CallEnds(r) \/ GateStep(r)

pipelineVars == <<vars, cacheVars>>

PipelineSpec == PipelineInit /\ [][PipelineNext]_pipelineVars

-----------------------------------------------------------------------------
(* Properties *)

\* Memory: besides the cached models each concurrent call may keep alive the
\* one that it evicted and the one that it returns, which others may have
\* evicted meanwhile; but of Cap calls, one still has its own in the cache.
LoadedModelsBounded ==
  Cardinality(Referenced \ {None}) <= MaxSize + 2 * Cap - 1

\* A thread is in the provider only while its request holds the gates, and for
\* the model of that request.
CallsAreGated ==
  \A r \in Requests :
    call[r] \notin Resting => pc[r] = "thread" /\ key[r] = ModelOf[r]
=============================================================================
