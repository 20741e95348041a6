# TLA+ models and proofs of llm-tts-api

`llm-tts-api` is a FastAPI server that turns text into speech with a cloned
voice. This directory holds TLA+ modules translated from its source, TLC
configurations that check them on small instances, and TLAPS proofs about
every part that is modelled: admission control, the model cache and the two together, the
voice store, the life of a process, and a request from its text to its answer.
Every safety property that a passing run checks is also stated by a theorem, for
all values of the constants. Paths below are relative to
`src/src/llm_tts_api/` unless they say otherwise; `PROJECT.json` maps every
definition to the lines it models.

Run `tlc -config X.cfg MCY.tla` for a model and `tlapm Z.tla` for the proofs.

## 1. Inventory

### How the parts interact

One process runs one asyncio event loop. `lifespan` (main.py) builds every
shared object, starts two watcher tasks and serves until the ASGI server ends
it. A synthesis (`/v1/tts/synthesize`, or `/v1/audio/speech`, which only
translates its body) takes the current preset registry along, resolves preset,
provider and model, reads the voice from the voice store, writes the reference
audio to a temporary file, cuts the text into chunks, passes three gates (queue,
concurrency, per-model lock) and calls the provider in a worker thread once per
chunk. The provider looks its model up in a cache shared by all threads. The
voices router and seed ingestion write the voice store meanwhile.

| Component | State | Operations | What is hard |
|---|---|---|---|
| Admission and scheduling (services/synthesize_service.py) | queue and concurrency semaphores, one `asyncio.Lock` per model, temporary files, generators | admit or refuse, wait, poll, dispatch a chunk, send, unwind | interleaving of tasks, client disconnects, cancellation, generators that never start or are dropped |
| Model cache (services/model_cache.py, tts_providers/cached_model_provider.py and the three providers) | an `OrderedDict`, per-model `threading.Lock`s | hit, reject, load, install, evict, unload, generate | three critical sections per call, threads loading one key, unloading what another call uses |
| Voice store (services/voice_store/, routers/voices.py) | metadata records; audio blobs | create, update, delete, read for a synthesis | two stores and no transaction; crashes and failures between the calls; tasks and processes that interleave |
| Seed ingestion (voice_store/seed_ingestion.py) | the voice_map.json pass | check, put, create | overlap with the handlers, crash in a pass, restart |
| Presets and hot reload (services/presets/, services/config_watcher.py) | `app.state.preset_registry`, the watched file | validate, swap, snapshot per request | edits at any moment, watcher failure, requests in flight |
| Lifespan, readiness, drain (main.py, routers/health.py) | `app.state.ready`, the two tasks | startup steps, readiness, cancellation, drain | failure at any step, shutdown with work in flight |
| Provider selection and device (engine/device.py, tts_providers/auto_select.py), settings (config.py) | chosen once | probe, override, select, preload | combinations of overrides, blanks and hosts |
| Request resolution (resolve_preset, _resolve_provider_and_model, _build_voice_config) | none | precedence of request, preset, voice record, default | validation of presets and resolution are separate code |
| One synthesis (routers/synthesize.py, routers/audio.py, synthesize_core) | the chunks, the pieces of audio, the answer | translate, refuse, split, call once per chunk, assemble or stream | chunks that give no audio or two pieces, failures after the first byte |
| Text splitting (services/text_preprocessing.py) | none | group sentences into chunks | boundaries of two limits, over-long sentences |
| Voice arguments (tts_providers/voice_args.py, synthesize_chunks of the providers) | none | keyword arguments of `generate()` from its signature, fallbacks | signatures of third-party models, aliases, assertions |
| Request ids and errors (middleware/request_id.py, errors.py, main.py's handlers) | a context variable per request | choose the id, map exceptions to envelopes, stamp the response | four handlers in two layers, streams that have begun |
| Audio postprocessing, 501 stubs, schemas, logging | none that is shared | | pure or numeric |

### What makes each part correct

* Admission: no permit is lost or returned twice; at most the cap of provider
  calls, never two in one model; no waiter is forgotten; the voice file lives
  as long as a provider call needs it; a client that left costs no further
  chunk; every admitted request ends; what `/health` says is true.
* Model cache: bounded, coherent, least-recently-used; one unload per object;
  with the gates in front: no call outlives its gates, bounded memory.
* Voice store: a record has its audio, whatever crashes; no write takes another
  one back; nothing deleted comes back; ingestion does not touch uploaded voices (as
  its docstring says; the repository's README says otherwise, see finding 3), and
  takes in no file that would keep the process from its next start.
* Presets: only validated registries go live, every edit that is reported does,
  requests in flight keep theirs, and a pin that was accepted turns out neither
  unknown nor not allowed when a request resolves it.
* Lifespan: ready exactly while serving; a server that starts has a provider for
  its device, its default model loaded and numbers that fit the code that uses
  them; shutdown leaves no task, waits for
  running syntheses within its budget, and ends.
* Text: nothing lost or reordered, both limits kept, no needless cut.
* A synthesis: a success is the whole text, in order, in the voice asked for.
* Errors: every answer carries the id under which the code inside logged it.

## 2. Modules

| Module | Models | Notes |
|---|---|---|
| `AsyncSemaphore` | `asyncio.Semaphore` and `asyncio.Lock` of CPython 3.11+ (external) | operators on a record `value`, `waiting`, `granted`; `Gate` is the invariant of one gate |
| `Admission` | `synthesize_core` from the voice file on, `_run_synthesis`, `_stream_synthesis_chunks`, the two counters of `/health` | the core |
| `BoundedService` | what admission promises, with no semaphore in sight | abstract specification |
| `ModelCache` | `LRUModelCache` and `CachedModelProvider` | threads and their critical sections |
| `SynthesisPipeline` | `Admission` composed with `ModelCache` (threads are requests, keys are models) | extends both: every step of the one is joined with a step or a stutter of the other |
| `SeedFile` | the two validators of the seed file | pure operators |
| `VoiceStore` | repositories, CRUD handlers, ingestion, readers, crashes and restarts | one action per repository call; extends `SeedFile` |
| `PresetResolution` | device, provider, allow-lists, preloads, validation of presets, resolution of a request | pure operators |
| `Settings` | the constructor of the settings: numbers, choices, blanks | pure operators |
| `ServerLife` | lifespan (with one step per preloaded model), watcher and reload, requests against the registry, shutdown and drain | extends `PresetResolution` and `Settings` |
| `TextSplit` | `split_text_semantic` | the loop, one action per branch, and one step per piece of an over-long sentence (`cut`) |
| `VoiceArguments` | which arguments each provider gives to `generate()`, and its fallbacks | pure operators |
| `ErrorEnvelope` | the resolution of the id, the exceptions, the four handlers | pure operators |
| `SpeechRequest` | one request to either endpoint, from its headers to the end of its answer | extends the three above |
| `MC...` | instances for TLC | constants only |
| `AsyncSemaphoreProofs`, `AdmissionProofs`, `ModelCacheProofs`, `PipelineProofs`, `VoiceStoreProofs`, `ServerLifeProofs`, `SpeechRequestProofs`; `SequenceLemmas` | TLAPS proofs | no specification of their own |

### Correspondence with the code

**Granularity.** A step of `Admission` is what one asyncio task does between two
suspension points; small operators (`EnterConcurrency`, `EnterModelLock`,
`Unwind`, `LeaveQueue`) are the pieces of a step, chained because the code runs
them without an await that suspends. `pc[r]` names the await where the task of
slot `r` is suspended:

| `pc` | where |
|---|---|
| `response` | a stream admitted, its generator not started |
| `concurrency`, `lock` | waiting in `async with concur_sem`, `async with lock` |
| `poll` | `await request.is_disconnected()` (buffered) |
| `dispatch` | the checkpoint in `anyio.to_thread.run_sync` |
| `thread` | the provider call runs; `run_sync` shields the await |
| `send` | the chunk was yielded and `send()` is awaited |
| `abandoned` | `send()` was cancelled; the generator is suspended at its yield |
| `done`, `failed`, `refused`, `cancelled`, `idle` | outside |

`left` counts chunks not dispatched; `gone` is `left` at the moment the client
disconnected. `leaked` counts queue permits (each with its file) that nobody
owns any more. A disconnect of a stream cancels its task (Starlette); a buffered
request only sees it at the next poll.

`ModelCache` has a step for every critical section of the cache lock and for the
load, the unload and the generation between them; `call[t]` is where thread `t`
is between two of them. `since` is a history variable
for the least-recently-used property. `VoiceStore` makes every repository call a
step, and lets other tasks of the same process run between two calls only if one
of the repositories suspends (`suspending`): the file system ones contain no
await that does. `ServerLife` splits `lifespan` at the points where it can fail
or where other tasks run. The presets file may change between any two steps.

`SpeechRequest` follows one request alone: each request has its own task and
context, and what requests do to each other is in `Admission`. `stage` is where
it is: `arrived` at the middleware, `handling` (before the split), `splitting`,
`speaking` (the loop over the chunks), `raised` (an exception on its way to a
handler inside the middleware), `escaped` (to the one outside), `answered`,
`done`. `calls` has the keyword arguments and the outcome of each `generate()`,
`audio` the pieces `<<chunk, result>>` they gave. A text is a sequence of
sentences, a sentence one of letters and blanks, each letter marked with its place,
so that loss, repetition and order are visible; a model is a record of what
its signature declares, accepts and asserts against, and of how many results
a call may give.

**Variants for mutation.** Each module holds operators marked `(faulty: ...)`:
plausible mistakes of the code, used by no specification. `PROJECT.json` pairs
each property with one of them, and TLC must refute the property once the
variant takes the place of the real operator.

## 3. Runs

Every cfg gives values to constants only. "States" are distinct states.

| Run | Instance | Shows |
|---|---|---|
| `admission_safety` | 2 buffered + 2 streamed slots, one model, 4 queue permits, cap 2, up to 2 chunks, both faults of response construction; symmetry among buffered and among streams | all safety properties of admission, and that `Inv` holds before it is proved inductive |
| `admission_service` | 3 buffered + 1 stream on two models, 3 queue permits for 4 slots (so that refusals occur), cap 2, no faults, fairness | refinement of `BoundedService`; every admitted request ends |
| `admission_leak` | violation | see findings |
| `model_cache` | 3 threads, 4 keys (one outside the allow-list), cache of 2, 5 objects; about 22,000 states | the cache alone, with threads that may load one key at once |
| `pipeline` | two buffered requests and a stream, each of a model of its own; cache of 1 (the default), cap 2; about 639,000 states | what the gates add to the cache; the memory bound is reached |
| `pipeline_inuse` | violation | see findings |
| `voice_store` | 2 voices, 2 requests, 1 worker; blobs on disk or in S3; crash, failing put, rollback and read; seed files with entries at and past each bound of both validators; about 1,549,000 states | the store with ingestion and restarts |
| `voice_store_seed` | violation | see findings |
| `server_life` | 2 presets, 6 files (3 valid, 3 not), 17 environments (14 of which must not start), 2 requests; about 271,000 states | startup, settings, reload, requests, shutdown |
| `server_life_edits` | violation | see findings |
| `speech_request` | 5 requests to the two endpoints and another route, 11 models, every text of 1 to 3 sentences of 4 shapes, limits 2, 4 and 5, groups of 0 or 2; about 3,227,000 states | splitting, provider arguments, assembly, streaming, errors and ids |
| `speech_request_escape` | violation | see findings |

**Bounds and why they are enough.** In `Admission`, two slots of each kind let a
task wait behind a holder of the same and of the other kind at every gate, with
one more granted at the same time; two chunks distinguish the first from a
later one. `MaxChunks` bounds the model only (the code has no bound on chunks). The proofs then
cover every number of slots, models, permits and chunks. Three threads let one
evict while two race for a key; with a cache of two, the order of the entries
matters. In the pipeline it takes three models for a call to lose its own entry
while it still unloads the one it evicted: two of the models would hide that,
and the bound would look smaller than it is. `Objects` bounds model objects alive at once: an object is
reused as soon as nothing refers to it, and the instances have more objects
than can be referred to. Two requests and one ingestor on two voices are
enough for a check and its use to be overtaken, and for two writes to
different voices to collide in one document. In `TextSplit`, `MaxText` bounds
the sentences; the limits are scaled down (the real minimum is 256, config.py),
the sentences with them: shorter than, equal to and longer than each limit. A
sentence longer than the limit does arise in the code, from spelled-out numbers
and dates, since the raw input has the same limit. The eleven models declare all,
some or none of the aliases, a transcript without audio, or no text; cannot be inspected;
assert against a way of naming the voice; or yield 0, 1 or 2 results. Each path through
the three providers has one. The drain's budget is counted in polling periods.

**Fairness.** `admission_service` assumes weak fairness of the event loop
(`LoopFairness`: asyncio runs every ready callback, and the asyncgen hooks
finalize dropped generators), of provider calls (`ThreadFairness`: they return
or raise; nothing in the code bounds one, so this is an assumption about the
models) and of sending (`SendFairness`: the ASGI server accepts a chunk or
reports the client gone; an assumption about server and client). Nothing is
assumed of clients: they need not submit, and need not stay. `server_life` assumes
weak fairness of the reloader task and of the steps of the teardown, both
driven by the loop; startup may fail, operators need not edit, and a synthesis
need not end, so the drain must end without it. The other runs check safety
only and have no fairness.

**Deadlock** is checked except where a system may really stop: `ServerLife` (the
process ends) and `SpeechRequest` (the request is answered).

### Where properties are limited

* `RecordsHaveAudio`, `VoiceResolves` and `PassCoversFile` are stated of the default
  deployment (file system repositories in one process), where nothing runs between
  the calls of a handler: what they exercise is crashes and failing calls. With
  Postgres or S3 the handlers interleave and none of them holds; no document
  promises them there.
* `NoLostRecord` and `NoResurrection` hold of one worker process, or of Postgres:
  two processes that load, change and replace the JSON document lose each other's
  records (fs_json_metadata.py:143-170, whose lines 9-10 promise consistency to
  multi-worker deployments). Their theorems have that as an assumption.
* `ReportedEditsLive` and `EditsLand` say nothing once an edit went unreported
  (`missed`) or the watcher has ended.
* `PinsResolve` compares two pieces of code, validation and resolution. It does not
  say that the provider of a pin can run: the device counts only where neither the
  request nor its preset names a provider. See "Observed" below.
* `CleanStop` says that a stopped process has no reloader; that no synthesis runs
  unless the budget is used up is what the drain's own guard says.
* `StartupFits` promises that the default model is loaded, not that every preload is.
* `HealthHonest` says exactly how much the drain sees: when `concurrent_active`
  is 0, admitted streams that have not started may be left, and they can still
  take a permit. `ServerLife` lets any request that has entered do so.
* `CallsAreGated` says that a provider call runs only inside its request's gates;
  it rests on `run_sync` shielding its await. A thread that outlived its task
  (loop shutdown) is outside the model.
* `LoadedModelsBounded` is `MaxSize + 2 * Cap - 1`, not `MaxSize + Cap`: a call that
  unloads the entry it evicted still has a reference to it, and its own new
  entry may be evicted meanwhile by another call.
* `AnswerFollowsText` promises all of the text, one piece per chunk and the right
  `X-Chunks` of models that give one result for a chunk. Of others it says what is
  true: the chunks keep their order and none comes twice, a stream has the first
  result of each and counts chunks, a buffered answer keeps the results of a chunk
  together. It does not say that a stream has the later results, nor that a buffered
  answer has every chunk: neither is so. See "Observed" below.
* `VoiceHonoured` is about any signature. It lets voxtral pass parameters outside of it
  (they are fixed there), vllm-omni speak without the voice when its model takes
  none or asserts against it, and a model with a parameter for the transcript
  and none for the audio get the transcript alone. Every call has the text,
  whether or not the model declares a parameter for it.
* `ChunksFit` counts only the sentences that are within the limit: of an over-long
  one a chunk has a piece, and that piece is alone in it.
* `ErrorsIdentified` leaves out the handler of unexpected exceptions (finding 5), and is
  about the id only: `X-Error-Code` is not in the model.

## 4. Findings

Each is a run whose single property, taken from the repository's own words, TLC
refutes.

1. `admission_leak`: NFR-RL-03 (docs/specs/writer-nfr.md:74) says a failing
   synthesis must not corrupt the semaphores. The streaming branch takes the
   queue permit and hands over the file before it builds the response; if the
   constructor raises (a header value outside latin-1), the generator never
   starts and both are lost.
2. `pipeline_inuse`: FR-CA-02 (docs/specs/analyst-frs.md:193) says eviction must
   not interrupt a request in flight. Eviction calls `unload()` on the object at
   once, even while another thread generates with it. It takes a cap of 2, two
   models, and a model class that has `unload()`; with the default cap of 1 it
   cannot happen (theorem `OneCallIsSafe`).
3. `voice_store_seed`: seed_ingestion.py:7-8 says CRUD-created records are never
   touched. Ingestion asks `exists`, puts the audio, then creates the record: a
   create in between has its audio overwritten when repositories suspend. The
   repository's README.md:319-322 disagrees with that docstring: an edit of the seed file
   is meant to overwrite a CRUD record of the same id. The code does neither: a
   pass skips every id that has a record, and its overlap with a create replaces the
   audio and leaves the record. For the same reason an edit of an entry that
   was ingested before does not land, although README.md:314-317 says that records are
   upserted and edits land.
4. `server_life_edits`: main.py:221-223 promises a swap on every valid edit. An
   edit between the load at startup and the first run of the watcher task, or
   through a symbolic link that is pointed elsewhere, is not noticed. An edit of the
   file that a link points to in another directory need not be either, since only
   the directory of the link is watched (config_watcher.py:64).
5. `speech_request_escape`: FR-ER-03 (docs/specs/analyst-frs.md:247) wants
   `X-Request-ID` on every error path, README.md:151 "always". The handler of
   `Exception` (main.py:298) runs outside of the request id middleware, after its
   `finally` has reset the context variable (request_id.py:72-73): the answer has
   neither the header nor an id in its envelope (errors.py:337-350).

Observed while reading, and not the subject of a run:

* **Pins and devices.** README.md:201-204, BR-16 (docs/specs/analyst-frs.md:365) and
  startup.py:51-54 want a pin that does not fit the selected provider, or one of a
  provider that auto-selection filtered out, refused at startup and not at the first
  request. Validation looks at the registered providers, and all three are registered
  on every device; `supports_devices` is read by auto-selection only. With
  `TTS_DEVICE=cuda` the shipped config/presets.json, whose three presets all
  pin `mlx_audio` (mps only), is accepted, and a request that leaves the provider to one of them fails.
  (README.md:197-198 says that two of the three pin nothing.)
* **Results and chunks.** BR-4 (docs/specs/analyst-frs.md:354) says that a stream differs
  from a buffered answer only in when bytes are flushed. A stream takes the first
  result of each chunk (synthesize_service.py:450), a buffered answer all of
  them (542); a chunk without result fails the stream and is left out of a buffered
  200, whose body may be empty. README.md:158 calls `X-Chunks` the number of
  chunks; a buffered answer counts results. uvicorn sends no trailers.
* **Transcript without audio.** A model with a parameter for the transcript and none
  for the audio is given the transcript alone, and no name even if it takes one
  (voice_args.py:50-56, 69-72).
* `TTS_MAX_QUEUE_DEPTH=0` refuses every request; README.md:375-377 says it
  refuses once the concurrency semaphore is busy.
* `TTS_INFERENCE_TIMEOUT_SECONDS` is read (config.py:356) and never used;
  README.md:380-381 and FR-CF-03 say it wraps the call.
* All preloads share one cache of `TTS_MODEL_CACHE_SIZE` (default 1) with the
  default model, loaded last: with a smaller cache all but the last are evicted
  before the first request, contrary to dependencies.py:152-154. `Preload` and `WarmUp` model
  it, and `StartupFits` promises only the default model.
* FR-VS-09 (retry) is not implemented. FR-HL-04 (refuse new requests while
  draining) is left to the ASGI server.
* Settings: blanks in `TTS_MAX_INPUT_CHARS` and `TTS_MAX_CONCURRENT_REQUESTS` are
  refused, where a blank means the default in the others; a blank
  `TTS_*_MODEL_DEFAULT` gives an empty model name; a missing DSN is found only after the
  models are loaded (dependencies.py:101-105); FR-CF-02 requires a region for S3,
  the code does not.
* Seed files: an invalid one is fatal at startup and only skipped later; the
  startup validator accepts bad names and empty audio paths that void a pass;
  records accept a blank language and `max_sentences` below 1; the watcher
  starts only if the file exists at startup; a `UnicodeDecodeError` passes the except
  clauses of both. Two worker processes that ingest one file into Postgres: the slower
  one's create raises.
* A PUT that a DELETE overtakes raises `VoiceNotFoundError` past its except clauses
  (voices.py:337), so it is answered 500 by the outer handler.
* Providers: `require_any` of `select_voice_args` has no effect; the fallbacks to
  cloning of mlx-audio and vllm-omni cannot be reached; an `AssertionError`
  raised when a lazy generator is consumed passes the except clause meant for it.
  A model that cannot be loaded is answered 400 `invalid_parameter`, not
  `provider_error.model_load_failed`.

## 5. Proofs

**Assumptions.** `AdmissionAssumption`: finitely many slots, each buffered or
streaming and with a model; any queue depth in `Nat` (config.py accepts 0); cap
and `MaxChunks` at least 1; any subset of the faults. `ModelCacheAssumption`: a
bound of at least 1. `PipelineAssumption`: a thread for each request, a key for
each model. `VoiceStoreAssumption`, `LifeAssumption`, `ResolutionAssumption` and
`RequestAssumption` say what kind of thing each parameter is (and that a JSON document
is read without suspending). Of models `RequestAssumption` says nothing but that a
call gives some number of results and that the provider is one of the three: any
signature is allowed. It also says that uuid4 repeats no id of a client. `SplitAssumption`: a sentence
begins and ends with a letter (it is stripped), and a limit is at least 1
(`SettingsFit`).

**Gates.** `AsyncSemaphoreProofs` proves, for any set of tasks, that each
operation of a semaphore keeps `Gate(g, T, waiters, holders, n)`: free,
granted and held permits add up to `n`; the line and the granted set hold each
waiter exactly once; nobody is left in line while a permit is free. The hard ones
are `ReleaseGate` (the permit goes to the oldest waiter) and `CancelGate` (a
waiter cancelled in line, or after it was granted a permit, which it passes on).

**Inductive invariant of admission.** `Inv == Progress /\ QueueGate /\ FilesOwned /\
ConcurrencyGate /\ LockGates`. The properties are not inductive by themselves:
permits are conserved only because a task that releases does hold one, which
the control states say (`ConcurrencyGate`, `LockGates`); a waiter that resumes
was granted its permit only if the line agrees with the control states; and
`left` stays in range because whoever is short of a provider call still has a
chunk (`Progress`). The proof is one lemma per action group (`SubmitKeepsInv`,
`TaskStepKeepsInv`, `CancellationKeepsInv`, `ThreadEndsKeepsInv`,
`SendEndsKeepsInv`, `DisconnectKeepsInv`), each built from lemmas that move one
task between control states and one gate along with it.

**Theorems** (`AdmissionProofs`):

| Theorem | States |
|---|---|
| `InvHolds` | `Spec => []Inv` |
| `TypeCorrect` | `[]TypeOK` |
| `PermitsConserved` | `[]PermitsAccounted` |
| `MutualExclusion` | `[]ExclusiveInference` |
| `NoLostWakeup` | `[]NoStrandedWaiter` |
| `LinesAgree` | `[]WaitersAreQueued`: the lines of the gates and the control states agree |
| `HealthTruthful` | `[]HealthHonest` |
| `VoiceFileOutlivesCalls` | `[]VoiceFileLifetime` |
| `DisconnectHonoured` | `[]StopsAtChunkBoundary`, by an invariant on top of `Inv` |
| `ImplementsService` | `Faults = {}` implies that `Spec` implements `BoundedService` under the mapping `phase` |
| `OnlyResponsesLeak` | `Faults = {}` implies `[]NothingLeaked`: finding 1 has no other cause |

`ImplementsService` follows the initial states and each step: a step of a task
that takes the model lock is `Activate` or an immediate `Enter`, one that unwinds
is `Leave`, and the others stutter. That an activation respects the cap and
the exclusion (`NewHolderCanRun`) follows from the gates. With faults a permit
can leak, and then a refusal may come although the service is not full, so the
assumption is needed.

**The model cache** (`ModelCacheProofs`), for any threads, keys, objects and bound.
`CacheInv == CacheTypeOK /\ Listing /\ Ownership /\ OneGenerates`. `Listing` orders
the entries by the history of uses, which makes the head the least recently
used one. `Ownership` is why nothing is unloaded twice: an object belongs to one
key of the cache, or to one call that has just loaded it, or to one call that
will unload it, and moves between them in the critical sections. `SequenceLemmas`
says what moving an element of a sequence to its end does.

| Theorem | States |
|---|---|
| `CacheTypeCorrect` | `[]CacheTypeOK` |
| `CacheAlwaysCoherent` | `[]CacheCoherent` |
| `EachUnloadedOnce` | `[]UnloadedOnce` |
| `EvictionFollowsUse` | `EvictsLeastRecent`, an action property |

**The pipeline** (`PipelineProofs`). `PipelineIsAdmission` and `PipelineIsCache` show
that it implements both parts, so every theorem of theirs holds of it.

| Theorem | States | Argument |
|---|---|---|
| `ThreadsStayGated` | `[]CallsAreGated` | no step of the gates moves a task whose thread runs |
| `MemoryBounded` | `[]LoadedModelsBounded` | the objects alive are the cached ones, the victims and those whose call has lost its entry; at most `Cap` calls run (`ThreadsAreFew`), and if all of them are unloading, the one that inserted last still has its entry (`OneNotOvertaken`) |
| `OneCallIsSafe` | `[]NoUseAfterUnload`, if `Cap = 1` | a call alone has in hand what the cache has under its key (`InHandIsCached`), which is never unloaded; so finding 2 needs a second call |

**The voice store** (`VoiceStoreProofs`), for any voices, requests, workers, seed files,
deployments and faults:

| Theorem | States | Under |
|---|---|---|
| `StoreTypeCorrect` | `[]StoreTypeOK` | |
| `IngestedFilesAlwaysRestart` | `[]IngestedFilesRestart`: what the ingestor's validator accepts, the startup's does | |
| `NoWriteLosesAnother`, `DeletedStaysDeleted` | `NoLostRecord`, `NoResurrection` | `OneWriter`: one worker, or no JSON document |
| `RecordsKeepAudio`, `FoundVoicesResolve`, `PassesCoverFiles` | `[]RecordsHaveAudio`, `[]VoiceResolves`, `[]PassCoversFile` | `OneProcess`: one worker |

`Current` says that a document in hand is the one in the file, since nobody runs
between its load and its replacement; each write is then one of a single record.
`DiskInv` says, of deployments in which nothing suspends, that what a task has read
or done still stands (`Settled`), since it is the only one under way.

**The preset registry and the lifespan** (`ServerLifeProofs`), for every set of
files, environments and requests:

| Theorem | States | Argument |
|---|---|---|
| `RegistryAlwaysValid` | `[]RegistryValid` | inductive: two steps write the registry, each after the whole validation |
| `ReportedEditsApplied` | `[]ReportedEditsLive` | `UpToDate` adds the time before the watcher first runs |
| `RequestsKeepPresets` | `[]NoVanishingPreset` | `Served`: every request under way has a valid snapshot, so only a preset it named can be missing (`UnknownOnlyIfNamed`) |
| `AcceptedPinsResolve` | `[]PinsResolve` | `Served` and `PinAgrees`: validation and resolution agree on pinned providers and their allow-lists; `Equipped` carries the device of the selected provider from startup (`AlwaysEquipped`) |
| `ReadyIffServing` | `[]ReadyWhileServing` | inductive |
| `StopsCleanly` | `[]CleanStop` | `Quiet` adds that no reloader is left during the drain |
| `SettingsAlwaysFit` | `[]SettingsFit` | nothing gets past the first step of startup with a setting that was refused |
| `StartupAlwaysFits` | `[]StartupFits` | `Decided` keeps what each step of startup has decided from the environment; the default model is loaded last, and a cache has room for one (`TouchFits`); that a request may name what was preloaded takes the checks of the settings and of the registry together |
| `LifeTypes` | `[]LifeTypeOK` | `StartupTypes`, `PresetTypes`, `CallsTyped`: one lemma for each group of variables that change together |

**Identity and voice** (`SpeechRequestProofs`). `AnswersIdentified` states
`[]ErrorsIdentified` for any headers, texts, records and models. `IdInv`
strengthens it: while the code inside the middleware runs, its context has the
id of the response (`SameId`), which was taken from the headers or is fresh
(`IdFrom`); and the answer is still empty when an exception is handled, or is a
stream that began with that id (`AnswersInOrder`).

`VoicesHonoured` states `[]VoiceHonoured` for every signature, without assumptions on it.
All calls of a request are made in the same way (`CallsAlike`); a call clones, names
or leaves the voice open according to what `CloneArgs` and `NameArgs` find in the
signature, and `VoxtralHonours` and `SelectingProvidersHonour` follow each of the three
through the provider and its fallbacks.

**Text and audio** (`SpeechRequestProofs`), for any sentences, any limit of at
least 1, any group size and any number of results per call:

| Theorem | States | Inductive invariant |
|---|---|---|
| `NothingIsLost` | `[]NothingLost` | `SplitInv` |
| `ChunksAlwaysFit` | `[]ChunksFit` | `SplitInv` |
| `AnswersFollowText` | `[]AnswerFollowsText` | `SpeechInv`, with the two above |

`SplitInv` says where the loop is: the chunks have, in order, exactly the letters
before the first sentence gathered (`Spoken`), and what is gathered is a run of
whole sentences that would fit into a chunk (`Gathered`). `NothingLost` alone is
not inductive, since it does not say that what is gathered fits and that
stripping it takes no letter away (its first and its last character are
letters: sentences come stripped). While an over-long sentence is cut, nothing
is gathered, and the chunks end at `cut`. `Sized` says of each chunk what
`ChunksFit` only counts: it is a piece of one over-long sentence, or whole
sentences in a row. `PieceCut` is the hard step: the piece between two cuts
has exactly the letters between them, wherever its blanks are.

`SpeechInv` says that, while the loop over the chunks runs, the audio is what
the calls made so far have given (`AudioOf`): one block per chunk, the blocks in
the order of the chunks; a block has what the call gave, in a stream the first of it.
A success is then sent only when the calls are as many as the chunks (`Complete`),
so it has a block for each; what that says of the text follows with `SplitInv`, and
depends on how many results the model's calls may give.

**Induction over data.** The induction theorems of the library take an operator
as a parameter, which the provers cannot instantiate. `SequenceLemmas` does
without: a set of numbers that is not empty has a least one (`LeastNat`, from the
well-foundedness of `<`), so a property of all lengths holds if no length is
the least without it. That gives what `FlattenSeq` computes (`FlatteningExists`,
`FlattenSeqRec`, `FlattenAppend`), on which `Join` rests. The models state
everything else without recursion over data: startup loads a model, and the
splitter cuts a piece, per step.

**Only model-checked.** Liveness: `AdmittedFinishes`, `EditsLand` and
`ShutdownEnds`; liveness under fairness, and ENABLED, are out of the prover's
reach. And that the findings do happen: they are counterexamples, which TLC gives.

## 6. Not modelled

* 501 stubs, schemas, logging: no shared state to check. That a schema may refuse
  a request is in `SpeechRequest`.
* Audio postprocessing, spelling of numbers and dates, cutting a text into
  sentences: numerics and regular expressions. That postprocessing may raise is
  modelled (`CannotAssemble`).
* Messages of errors and the informative response headers: formatting.
* Lazy initialisation of Postgres and S3; the seed watcher's own failure, since its
  loop is the presets file's.
* anyio's limit of 40 worker threads: the cap is below it in every documented
  profile. Cancellation at the end of the ASGI server's grace period.
* Abandoned threads after a loop shutdown; the drain does not look at them.
* The legacy `SpeechSynthesizer` of tts_service.py: reached by no route. Its
  constructor's preload and `_concat_wav_bytes` are modelled.
* Five hazards that no property covers, each with the reason in `PROJECT.json`: a
  provider call that never returns, a slow reader of a stream, a delete that a
  create overtakes between its two writes, an error that ends a watcher, a pin that
  the device rules out.

## 7. Plan

Written in this order, the most important first: `AsyncSemaphore`, `Admission`,
`BoundedService` and their proofs; `ModelCache`; `SynthesisPipeline`;
`VoiceStore`; `PresetResolution`, `ServerLife` and its proofs; `TextSplit`,
`VoiceArguments`, `ErrorEnvelope`, `SpeechRequest`; `Settings`, `SeedFile`; the
proofs of the cache, the pipeline, the store, the answers, the startup, and the
text with its audio. What is left:

1. Models: Postgres and S3 initialisation; several workers that ingest one file at startup.
2. Runs: the evicted preloads and the pins that the device rules out as findings of their own; liveness of a pass of
   ingestion; a drain over `Admission`'s own states in place of the over-approximation
   in `ServerLife`.
3. Theorems: an abstract voice store (a map of records with their audio) that
   `VoiceStore` implements under `OneProcess`; that each step of the splitter moves on,
   so that it ends. (What the findings need in order to happen is proved of three:
   `OnlyResponsesLeak`, `OneCallIsSafe`, `ReportedEditsApplied`.)
