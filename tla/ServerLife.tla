----------------------------- MODULE ServerLife -----------------------------
(***************************************************************************)
(* The life of a server process: lifespan startup, readiness, the watcher  *)
(* of the presets file with its reloads, the requests that resolve against *)
(* the preset registry, and shutdown with its drain.                       *)
(*                                                                         *)
(* Everything up to the first await (the seed pass) is one run of the      *)
(* event loop, but the presets file belongs to other processes and may     *)
(* change between any two steps.                                           *)
(***************************************************************************)
EXTENDS Settings, FiniteSets

CONSTANTS
  Requests,
  Documents,     \* what an operator may put in the presets file
  Calls,         \* the bodies that the client of each request may send to
                 \* /v1/tts/synthesize
  SpeechCalls,   \* ... and to /v1/audio/speech
  Environments,  \* TTS_DEVICE, TTS_PROVIDER, TTS_PRELOAD_MODELS, the other
                 \* variables, the host, and whether the presets file has a
                 \* safe owner and mode
  NoRegistry     \* app.state.preset_registry before it is set

ASSUME LifeAssumption ==
  /\ Documents \subseteq {Malformed} \cup UNION {[names -> Pins] : names \in SUBSET Names}
  /\ Calls \in [Requests -> SUBSET Bodies]
  /\ SpeechCalls \in [Requests -> SUBSET SpeechBodies]
  /\ Environments \subseteq [device : Devices \cup {"auto", Blank, Unknown}, host : Hosts,
                             provider : Providers \cup {"auto", Blank, Unknown},
                             preload : Seq(Preloads), safe : BOOLEAN, knobs : Knobs]
  /\ NoRegistry \notin Documents \cup {Malformed}

VARIABLES
  env,       \* the process environment; constant
  stage,     \* of lifespan
  device,    \* app.state.device_profile.device
  selected,  \* app.state.provider_selection.provider_name
  loaded,    \* the model cache at startup, least recently used first
  warmed,    \* how many of TTS_PRELOAD_MODELS have been loaded
  registry,  \* app.state.preset_registry
  readiness, \* app.state.ready and ready_reason
  disk,      \* the presets file
  watcher,   \* the preset-registry-reloader task
  linked,    \* the path still resolves to the file it did when the watch began
  pending,   \* awatch has a change to report
  missed,    \* history: a change since the last load that no event will report
  pc, body, snapshot,  \* of each request
  budget     \* what is left of the drain

chosen == <<device, selected, loaded, warmed>>
life == <<stage, chosen, readiness, budget>>
presets == <<registry, disk, watcher, linked, pending, missed>>
calls == <<pc, body, snapshot>>
vars == <<env, life, presets, calls>>

Stages == {"boot", "selected", "warm", "seeding", "serving",
           "cancel_seed_watcher", "cancel_reloader", "drain", "stopped"}
Refusals == {"preset_unknown", "provider_unsupported", "unknown_model", "invalid_format"}
Watching == {"waiting", "fired"}
ShuttingDown == {"cancel_seed_watcher", "cancel_reloader", "drain"}

Init ==
  /\ env \in Environments
  /\ stage = "boot" /\ device = None /\ selected = None
  /\ loaded = << >> /\ warmed = 0
  /\ registry = NoRegistry /\ readiness = "warming_up"
  /\ disk \in Documents
  /\ watcher = "none" /\ linked = TRUE /\ pending = FALSE /\ missed = FALSE
  /\ pc = [r \in Requests |-> "idle"]
  /\ body = [r \in Requests |-> None]
  /\ snapshot = [r \in Requests |-> NoRegistry]
  /\ budget = 0

-----------------------------------------------------------------------------
(* Startup *)

\* The try block is left: the finally clause clears readiness first.
Unwind ==
  /\ stage' = "cancel_seed_watcher"
  /\ readiness' = "draining"

\* Settings(), at the beginning of build_default_dependencies.
settings == LoadSettings(env.knobs)

SettingsValid ==
  /\ Usable(settings) /\ Unknown \notin {env.device, env.provider}
  /\ \A i \in DOMAIN env.preload : PreloadAllowed(env.preload[i])

RefuseSettings ==
  /\ stage = "boot" /\ ~SettingsValid
  /\ Unwind
  /\ UNCHANGED <<env, chosen, presets, calls, budget>>

\* ... goes on to the device and the provider; no viable one is fatal ...
SelectDevice ==
  /\ stage = "boot" /\ SettingsValid
  /\ device' = DetectDevice(env.device, env.host)
  /\ selected' = SelectProvider(env.provider, device')
  /\ IF selected' = None THEN Unwind ELSE stage' = "selected" /\ UNCHANGED readiness
  /\ UNCHANGED <<env, loaded, warmed, presets, calls, budget>>

\* ... and loads the models of TTS_PRELOAD_MODELS one after the other ...
Preload ==
  /\ stage = "selected" /\ warmed < Len(env.preload)
  /\ loaded' = Touch(loaded, env.preload[warmed + 1], settings.cache)
  /\ warmed' = warmed + 1
  /\ UNCHANGED <<stage, env, device, selected, readiness, presets, calls, budget>>

\* ... and at last (TTSService) the one that the provider selected takes by
\* default;
Default(p) == [provider |-> p, model |-> DefaultModel[p]]

WarmUp ==
  /\ stage = "selected" /\ warmed = Len(env.preload)
  /\ loaded' = Touch(loaded, Default(selected), settings.cache)
  /\ stage' = "warm"
  /\ UNCHANGED <<env, device, selected, warmed, readiness, presets, calls, budget>>

\* one that cannot be loaded ends the startup.
LoadFails ==
  /\ stage = "selected"
  /\ Unwind
  /\ UNCHANGED <<env, chosen, presets, calls, budget>>

\* The repositories are built, _load_presets_or_exit, then the reloader task
\* is created.
LoadPresets ==
  /\ stage = "warm"
  /\ \/ /\ MetadataBuildable(settings) /\ AcceptableAtStartup(env.safe, disk)
        /\ registry' = disk /\ missed' = FALSE
        /\ watcher' = "scheduled"
        /\ stage' = "seeding"
        /\ UNCHANGED readiness
     \/ /\ Unwind
        /\ UNCHANGED <<registry, missed, watcher>>
  /\ UNCHANGED <<env, chosen, disk, linked, pending, calls, budget>>

\* (faulty: ready as soon as the pass has begun)
ReadyEarly ==
  /\ stage = "seeding"
  /\ readiness' = "ready" /\ budget' = settings.drain
  /\ UNCHANGED <<stage, env, chosen, presets, calls>>

\* The seed pass is over, or has raised; the lifespan yields.
BecomeReady ==
  /\ stage = "seeding"
  /\ \/ stage' = "serving" /\ readiness' = "ready" /\ budget' = settings.drain
     \/ Unwind /\ UNCHANGED budget
  /\ UNCHANGED <<env, chosen, presets, calls>>

-----------------------------------------------------------------------------
(* The presets file and its watcher *)

\* Another process replaces the contents, in place or by a rename; or (as
\* mounted configuration does) points the path at another file.  Only the
\* directory of the path is watched: nothing tells of an edit of a symbolic
\* link's target somewhere else.
Edit ==
  /\ stage # "stopped"
  /\ \E doc \in Documents \ {disk} : disk' = doc
  /\ \/ /\ watcher \in Watching
        /\ pending' = TRUE /\ linked' \in {linked, FALSE}
        /\ UNCHANGED missed
     \/ missed' = TRUE /\ UNCHANGED <<linked, pending>>
  /\ UNCHANGED <<env, life, registry, watcher, calls>>

\* ConfigWatcher.watch first runs: the target is resolved, awatch begins.
WatchStarts ==
  /\ watcher = "scheduled"
  /\ watcher' = "waiting"
  /\ UNCHANGED <<env, life, registry, disk, linked, pending, missed, calls>>

\* awatch yields what has changed; changes of other files are skipped.
ChangeReported ==
  /\ watcher = "waiting" /\ pending
  /\ pending' = FALSE
  /\ \/ linked /\ watcher' = "fired" /\ UNCHANGED missed
     \/ ~linked /\ missed' = TRUE /\ UNCHANGED watcher
  /\ UNCHANGED <<env, life, registry, disk, linked, calls>>

\* (faulty: the document is swapped in before it is validated)
ReloadUnchecked ==
  /\ watcher = "fired"
  /\ registry' = (IF disk = Malformed THEN registry ELSE disk)
  /\ watcher' = "waiting" /\ missed' = FALSE
  /\ UNCHANGED <<env, life, disk, linked, pending, calls>>

\* (faulty: a file that defines the same presets is taken for unchanged)
ReloadNewNames ==
  /\ watcher = "fired"
  /\ registry' = (IF Acceptable(disk) /\ DOMAIN disk # DOMAIN registry THEN disk ELSE registry)
  /\ watcher' = "waiting" /\ missed' = FALSE
  /\ UNCHANGED <<env, life, disk, linked, pending, calls>>

\* reload_once: load, validate, swap, without a suspension; whatever it
\* raises is swallowed by the watcher, and the registry stays.
ReloadOnce ==
  /\ watcher = "fired"
  /\ registry' = (IF Acceptable(disk) THEN disk ELSE registry)
  /\ watcher' = "waiting" /\ missed' = FALSE
  /\ UNCHANGED <<env, life, disk, linked, pending, calls>>

\* awatch raises, or cannot be imported: the task ends for good.
WatchFails ==
  /\ watcher \in {"scheduled", "waiting"}
  /\ watcher' = "ended" /\ pending' = FALSE
  /\ missed' = (missed \/ pending)
  /\ UNCHANGED <<env, life, registry, disk, linked, calls>>

-----------------------------------------------------------------------------
(* Requests *)

\* (faulty: the registry is not taken along)
EnterBare(r) ==
  /\ stage = "serving" /\ pc[r] = "idle"
  /\ \E call \in Calls[r] : body' = [body EXCEPT ![r] = call]
  /\ pc' = [pc EXCEPT ![r] = "entered"]
  /\ UNCHANGED <<env, life, presets, snapshot>>

\* The dependencies of a request are resolved, one worker thread call each.
Enter(r) ==
  /\ stage = "serving" /\ pc[r] = "idle"
  /\ \E call \in Calls[r] : body' = [body EXCEPT ![r] = call]
  /\ snapshot' = [snapshot EXCEPT ![r] = registry]
  /\ pc' = [pc EXCEPT ![r] = "entered"]
  /\ UNCHANGED <<env, life, presets>>

\* create_speech: what is not WAV is refused, the rest is translated.
EnterSpeech(r) ==
  /\ stage = "serving" /\ pc[r] = "idle"
  /\ \E req \in SpeechCalls[r] :
       /\ body' = [body EXCEPT ![r] = Translate(req)]
       /\ pc' = [pc EXCEPT ![r] = IF req.wav THEN "entered" ELSE "invalid_format"]
  /\ snapshot' = [snapshot EXCEPT ![r] = registry]
  /\ UNCHANGED <<env, life, presets>>

\* (faulty: app.state is read again)
ResolveLive(r) ==
  /\ stage # "stopped" /\ pc[r] = "entered"
  /\ pc' = [pc EXCEPT ![r] = Resolve(body[r], registry, selected)]
  /\ UNCHANGED <<env, life, presets, body, snapshot>>

\* resolve_preset and _resolve_provider_and_model
ResolveCall(r) ==
  /\ stage # "stopped" /\ pc[r] = "entered"
  /\ pc' = [pc EXCEPT ![r] = Resolve(body[r], snapshot[r], selected)]
  /\ UNCHANGED <<env, life, presets, body, snapshot>>

Running == {r \in Requests : pc[r] = "running"}

\* The concurrency semaphore (Admission has the whole protocol).
Run(r) ==
  /\ stage # "stopped" /\ pc[r] = "resolved" /\ Cardinality(Running) < settings.concurrent
  /\ pc' = [pc EXCEPT ![r] = "running"]
  /\ UNCHANGED <<env, life, presets, body, snapshot>>

\* The answer, whatever it is, is sent.
Leave(r) ==
  /\ stage # "stopped" /\ pc[r] \in {"running", "resolved"} \cup Refusals
  /\ pc' = [pc EXCEPT ![r] = "idle"]
  /\ body' = [body EXCEPT ![r] = None]
  /\ snapshot' = [snapshot EXCEPT ![r] = NoRegistry]
  /\ UNCHANGED <<env, life, presets>>

-----------------------------------------------------------------------------
(* Shutdown *)

\* The ASGI server ends the lifespan; it may still have requests to answer.
Shutdown ==
  /\ stage = "serving"
  /\ Unwind
  /\ UNCHANGED <<env, chosen, budget, presets, calls>>

\* The seed watcher has been cancelled; other tasks ran while it unwound.
SeedWatcherCancelled ==
  /\ stage = "cancel_seed_watcher"
  /\ stage' = "cancel_reloader"
  /\ UNCHANGED <<env, chosen, readiness, budget, presets, calls>>

\* (faulty: only a server that was ready has a task to cancel)
ReloaderCancelledIfReady ==
  /\ stage = "cancel_reloader"
  /\ stage' = "drain"
  /\ watcher' = (IF budget > 0 THEN "ended" ELSE watcher)
  /\ UNCHANGED <<env, chosen, readiness, budget, registry, disk, linked,
                 pending, missed, calls>>

ReloaderCancelled ==
  /\ stage = "cancel_reloader"
  /\ stage' = "drain"
  /\ watcher' = (IF watcher = "none" THEN "none" ELSE "ended")
  /\ UNCHANGED <<env, chosen, readiness, budget, registry, disk, linked,
                 pending, missed, calls>>

\* (faulty: the deadline is never looked at)
DrainWithoutDeadline ==
  /\ stage = "drain"
  /\ Running = {}
  /\ stage' = "stopped"
  /\ UNCHANGED <<env, chosen, readiness, budget, presets, calls>>

\* _drain_concurrency: every permit is back, or the budget is used up (a
\* startup that failed, and a budget of 0, do not wait at all).
DrainEnds ==
  /\ stage = "drain"
  /\ budget = 0 \/ Running = {}
  /\ stage' = "stopped"
  /\ UNCHANGED <<env, chosen, readiness, budget, presets, calls>>

DrainTick ==
  /\ stage = "drain" /\ budget > 0 /\ Running # {}
  /\ budget' = budget - 1
  /\ UNCHANGED <<env, stage, chosen, readiness, presets, calls>>

-----------------------------------------------------------------------------
Startup ==
  \/ RefuseSettings \/ SelectDevice \/ Preload \/ WarmUp \/ LoadFails
  \/ LoadPresets \/ BecomeReady
Reloader == WatchStarts \/ ChangeReported \/ ReloadOnce
Serve(r) == Enter(r) \/ EnterSpeech(r) \/ ResolveCall(r) \/ Run(r) \/ Leave(r)
Teardown == SeedWatcherCancelled \/ ReloaderCancelled \/ DrainEnds \/ DrainTick

Next ==
  \/ Startup \/ Reloader \/ WatchFails \/ Edit
  \/ \E r \in Requests : Serve(r)
  \/ Shutdown \/ Teardown

Spec == Init /\ [][Next]_vars

\* The loop runs what is ready, and watchfiles reports what it has seen;
\* nothing makes a startup succeed, operators edit, clients call, inferences
\* end or the ASGI server shut down.
Fairness == WF_vars(Reloader) /\ WF_vars(Teardown)
FairSpec == Spec /\ Fairness
-----------------------------------------------------------------------------
(* Properties *)

\* Type invariant; tasks and requests fit the stage of the lifespan.
LifeTypeOK ==
  /\ env \in Environments
  /\ stage \in Stages
  /\ device \in Devices \cup {None} /\ selected \in Providers \cup {None}
  /\ loaded \in Seq(Preloads) /\ (loaded # << >> => Len(loaded) <= settings.cache)
  /\ warmed \in 0..Len(env.preload)
  /\ registry \in Documents \cup {NoRegistry} /\ registry # Malformed
  /\ readiness \in {"warming_up", "ready", "draining"}
  /\ disk \in Documents
  /\ watcher \in {"none", "scheduled", "ended"} \cup Watching
  /\ linked \in BOOLEAN /\ pending \in BOOLEAN /\ missed \in BOOLEAN
  /\ pc \in [Requests -> {"idle", "entered", "resolved", "running"} \cup Refusals]
  /\ DOMAIN body = Requests
  /\ snapshot \in [Requests -> Documents \cup {NoRegistry}]
  /\ budget \in Nat /\ (budget > 0 => budget <= settings.drain)
  /\ \A r \in Requests :
       IF pc[r] = "idle" THEN body[r] = None
       ELSE body[r] \in Calls[r] \cup {Translate(q) : q \in SpeechCalls[r]} /\ snapshot[r] # NoRegistry

\* NFR-SE-10 and FR-PR-13: whatever is written to the file and whenever, the
\* registry that requests see has passed the whole validation.
RegistryValid == registry # NoRegistry => Acceptable(registry)

\* main.py: the reloader "atomically swaps ... on every valid edit".  Once
\* the watcher has nothing left to do, a valid file is the registry ...
ValidEditsLive ==
  watcher = "waiting" /\ ~pending /\ Acceptable(disk) => registry = disk

\* ... provided that the watcher could see every edit ...
ReportedEditsLive == ~missed => ValidEditsLive

\* ... and it does get there, even while edits go on, unless the file turns
\* invalid or the watcher stops.
EditsLand ==
  watcher \in Watching /\ Acceptable(disk) /\ ~missed ~>
    registry = disk \/ ~Acceptable(disk) \/ missed \/ watcher \notin Watching

\* NFR-PR-04: a reload never takes a preset from a request in flight; one
\* is unknown only to a request that names it (so to none of /v1/audio/speech)
\* and whose registry lacked it at its entry.
NoVanishingPreset ==
  \A r \in Requests : pc[r] = "preset_unknown" =>
    body[r].preset \notin DOMAIN snapshot[r] \cup {None}

\* FR-PR-13: a preset that the load has let pass does not fail to resolve.
\* Validation and resolution are separate code and agree on the providers that
\* there are and the models each allows: whoever leaves provider and model to a
\* preset that pins a provider gets past them.  Of the device they know
\* nothing: it is sure to be one that the provider supports only where neither
\* the request nor its preset names the provider.  (BR-16 and the README want
\* a pin of another provider refused at startup; here it resolves, and what
\* its synthesis does is not said.)
PinsResolve ==
  \A r \in Requests :
    LET pins == snapshot[r][PresetNamed(body[r])]
        named == {body[r].provider} \cup (IF body[r].provider = None THEN {pins.provider} ELSE {})
    IN /\ pc[r] \in Refusals \ {"preset_unknown"} /\ body[r].provider = None /\ body[r].model = None =>
            pins.provider = None
       /\ pc[r] \in {"resolved", "running"} =>
            device \in SupportsDevices(ProviderFor(body[r], pins, selected))
              \/ named \cap Providers # {}

\* FR-HW-04 to -06: a server gets past startup only with a provider for its
\* device, the one asked for or else the first one registered.  Every model
\* it was told to preload is one that requests may name, and the model that
\* a request gets by default is loaded, however small the cache is.
StartupFits ==
  LET Bare(entry) == [preset |-> None, provider |-> entry.provider, model |-> entry.model] IN
  stage \in {"seeding", "serving"} =>
    /\ device \in SupportsDevices(selected)
    /\ env.device \in Devices => device = env.device
    /\ env.provider \notin {"auto", Blank} => selected = env.provider
    /\ env.provider \in {"auto", Blank} =>
         selected = (IF device = "cuda" THEN "vllm-omni" ELSE "mlx_audio")
    /\ \A entry \in ToSet(env.preload) : Resolve(Bare(entry), registry, selected) = "resolved"
    /\ Default(selected) \in ToSet(loaded)

\* config.py: "invalid values fail fast during startup, so runtime requests do
\* not discover misconfiguration late".  Past Settings() every number is one
\* that the component it is for is made for - what Admission, ModelCache and
\* TextSplit assume of their constants, and the drain here - and past the
\* repositories each backend has what it cannot work without.
SettingsFit ==
  /\ stage \in {"selected", "warm", "seeding", "serving"} =>
       /\ settings.concurrent \in Nat \ {0} /\ settings.queue \in Nat
       /\ settings.cache \in Nat \ {0} /\ settings.chars \in Nat \ {0}
       /\ settings.drain \in Nat /\ settings.upload \in Nat \ {0}
       /\ settings.blob \in {"fs", "s3"} /\ (settings.blob = "s3" => settings.bucket = "bucket")
  /\ stage \in {"seeding", "serving"} =>
       \/ settings.metadata = "fs_json"
       \/ settings.metadata = "postgres" /\ settings.dsn = "dsn"

\* FR-HL-02: /ready says yes exactly while requests can be served.
ReadyWhileServing == readiness = "ready" <=> stage = "serving"

\* The finally clause of lifespan leaves no reloader behind, however far the
\* startup had come; FR-HL-04: the process goes down under a running
\* synthesis only when the drain budget is used up ...
CleanStop ==
  stage = "stopped" => watcher \in {"none", "ended"} /\ (budget = 0 \/ Running = {})

\* ... and goes down in the end, even if no synthesis ever finishes.
ShutdownEnds == stage \in ShuttingDown ~> stage = "stopped"
=============================================================================
