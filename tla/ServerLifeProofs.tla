-------------------------- MODULE ServerLifeProofs --------------------------
(***************************************************************************)
(* Proofs about ServerLife, for every presets file, every environment and  *)
(* every number of requests.                                               *)
(***************************************************************************)
EXTENDS ServerLife, SequenceLemmas

\* NFR-SE-10 and FR-PR-13: the registry is written by the startup and by
\* the reloader only, and both look at all of a document first.
THEOREM RegistryAlwaysValid == Spec => []RegistryValid
<1>1. Init => RegistryValid
  BY DEF Init, RegistryValid
<1>2. RegistryValid /\ [Next]_vars => RegistryValid'
  <2> SUFFICES ASSUME RegistryValid, [Next]_vars
               PROVE  RegistryValid'
    OBVIOUS
  <2>1. ASSUME registry' = registry
        PROVE  RegistryValid'
    BY <2>1 DEF RegistryValid, Acceptable, PinsAllowed, AllowedModels
  <2>2. CASE LoadPresets
    BY <2>1, <2>2 DEF LoadPresets, AcceptableAtStartup, RegistryValid, Acceptable
  <2>3. CASE ReloadOnce
    BY <2>1, <2>3 DEF ReloadOnce, RegistryValid, Acceptable
  <2>4. CASE RefuseSettings \/ SelectDevice \/ Preload \/ WarmUp \/ LoadFails \/ BecomeReady
    BY <2>1, <2>4 DEF RefuseSettings, SelectDevice, Preload, WarmUp, LoadFails, BecomeReady, presets
  <2>5. CASE WatchStarts \/ ChangeReported \/ WatchFails \/ Edit
    BY <2>1, <2>5 DEF WatchStarts, ChangeReported, WatchFails, Edit
  <2>6. ASSUME NEW r \in Requests, Serve(r)
        PROVE  RegistryValid'
    BY <2>1, <2>6 DEF Serve, Enter, EnterSpeech, ResolveCall, Run, Leave, presets
  <2>7. CASE Shutdown \/ Teardown
    BY <2>1, <2>7 DEF Shutdown, Teardown, SeedWatcherCancelled, ReloaderCancelled,
       DrainEnds, DrainTick, presets
  <2>8. CASE UNCHANGED vars
    BY <2>1, <2>8 DEF vars, presets
  <2> QED
    BY <2>2, <2>3, <2>4, <2>5, <2>6, <2>7, <2>8 DEF Next, Startup, Reloader
<1> QED
  BY <1>1, <1>2, PTL DEF Spec
-----------------------------------------------------------------------------
(* Readiness and shutdown *)

\* FR-HL-02: each step of lifespan moves readiness along with the stage.
THEOREM ReadyIffServing == Spec => []ReadyWhileServing
<1>1. Init => ReadyWhileServing
  BY DEF Init, ReadyWhileServing
<1>2. ReadyWhileServing /\ [Next]_vars => ReadyWhileServing'
  <2> SUFFICES ASSUME ReadyWhileServing, [Next]_vars
               PROVE  ReadyWhileServing'
    OBVIOUS
  <2> USE DEF ReadyWhileServing
  <2>1. CASE Startup
    BY <2>1 DEF Startup, RefuseSettings, SelectDevice, Preload, WarmUp, LoadFails,
       LoadPresets, BecomeReady, Unwind
  <2>2. CASE Reloader \/ WatchFails \/ Edit
    BY <2>2 DEF Reloader, WatchStarts, ChangeReported, ReloadOnce, WatchFails, Edit, life
  <2>3. ASSUME NEW r \in Requests, Serve(r)
        PROVE  ReadyWhileServing'
    BY <2>3 DEF Serve, Enter, EnterSpeech, ResolveCall, Run, Leave, life
  <2>4. CASE Shutdown \/ Teardown
    BY <2>4 DEF Shutdown, Unwind, Teardown, SeedWatcherCancelled, ReloaderCancelled,
       DrainEnds, DrainTick
  <2>5. CASE UNCHANGED vars
    BY <2>5 DEF vars, life
  <2> QED
    BY <2>1, <2>2, <2>3, <2>4, <2>5 DEF Next
<1> QED
  BY <1>1, <1>2, PTL DEF Spec

\* The reloader is gone from the drain on, not only in the end.
Quiet ==
  /\ stage \in {"drain", "stopped"} => watcher \in {"none", "ended"}
  /\ stage = "stopped" => budget = 0 \/ Running = {}

\* The finally clause of lifespan cancels the reloader however far the
\* startup had come, and _drain_concurrency keeps to its budget (FR-HL-04).
THEOREM StopsCleanly == Spec => []CleanStop
<1>1. Init => Quiet
  BY DEF Init, Quiet
<1>2. Quiet /\ [Next]_vars => Quiet'
  <2> SUFFICES ASSUME Quiet, [Next]_vars
               PROVE  Quiet'
    OBVIOUS
  <2> USE DEF Quiet, Running
  <2>1. CASE Startup
    BY <2>1 DEF Startup, RefuseSettings, SelectDevice, Preload, WarmUp, LoadFails,
       LoadPresets, BecomeReady, Unwind
  <2>2. CASE Reloader \/ WatchFails \/ Edit
    BY <2>2 DEF Reloader, WatchStarts, ChangeReported, ReloadOnce, WatchFails, Edit,
       Watching, life, calls
  <2>3. ASSUME NEW r \in Requests, Serve(r)
        PROVE  Quiet'
    BY <2>3 DEF Serve, Enter, EnterSpeech, ResolveCall, Run, Leave, life, presets
  <2>4. CASE Shutdown
    BY <2>4 DEF Shutdown, Unwind
  <2>5. CASE Teardown
    BY <2>5 DEF Teardown, SeedWatcherCancelled, ReloaderCancelled, DrainEnds, DrainTick,
       presets, calls
  <2>6. CASE UNCHANGED vars
    BY <2>6 DEF vars, life, presets, calls
  <2> QED
    BY <2>1, <2>2, <2>3, <2>4, <2>5, <2>6 DEF Next
<1>3. Quiet => CleanStop
  BY DEF Quiet, CleanStop
<1> QED
  BY <1>1, <1>2, <1>3, PTL DEF Spec

-----------------------------------------------------------------------------
(* Edits of the presets file *)

\* Unless the watcher is about to reload, is to be told of a change, or has
\* missed one, the registry is the file.
UpToDate ==
  watcher \in {"scheduled", "waiting"} /\ ~pending /\ ~missed /\ Acceptable(disk) =>
    registry = disk

\* main.py, of the reloader: every valid edit is swapped in, if reported.
THEOREM ReportedEditsApplied == Spec => []ReportedEditsLive
<1>1. Init => UpToDate
  BY DEF Init, UpToDate
<1>2. UpToDate /\ [Next]_vars => UpToDate'
  <2> SUFFICES ASSUME UpToDate, [Next]_vars
               PROVE  UpToDate'
    OBVIOUS
  <2>1. ASSUME presets' = presets
        PROVE  UpToDate'
    BY <2>1 DEF presets, UpToDate
  <2>2. CASE LoadPresets
    BY <2>2 DEF LoadPresets, UpToDate
  <2>3. CASE RefuseSettings \/ SelectDevice \/ Preload \/ WarmUp \/ LoadFails \/ BecomeReady
    BY <2>1, <2>3 DEF RefuseSettings, SelectDevice, Preload, WarmUp, LoadFails, BecomeReady
  <2>4. CASE Edit
    BY <2>4 DEF Edit, Watching, UpToDate
  <2>5. CASE WatchStarts
    BY <2>5 DEF WatchStarts, UpToDate
  <2>6. CASE ChangeReported
    BY <2>6 DEF ChangeReported, UpToDate
  <2>7. CASE ReloadOnce
    BY <2>7 DEF ReloadOnce, UpToDate
  <2>8. CASE WatchFails
    BY <2>8 DEF WatchFails, UpToDate
  <2>9. ASSUME NEW r \in Requests, Serve(r)
        PROVE  UpToDate'
    BY <2>1, <2>9 DEF Serve, Enter, EnterSpeech, ResolveCall, Run, Leave
  <2>10. CASE ReloaderCancelled
    BY <2>10 DEF ReloaderCancelled, UpToDate
  <2>11. CASE Shutdown \/ SeedWatcherCancelled \/ DrainEnds \/ DrainTick \/ UNCHANGED vars
    BY <2>1, <2>11 DEF Shutdown, SeedWatcherCancelled, DrainEnds, DrainTick, vars
  <2> QED
    BY <2>2, <2>3, <2>4, <2>5, <2>6, <2>7, <2>8, <2>9, <2>10, <2>11
       DEF Next, Startup, Reloader, Teardown
<1>3. UpToDate => ReportedEditsLive
  BY DEF UpToDate, ReportedEditsLive, ValidEditsLive
<1> QED
  BY <1>1, <1>2, <1>3, PTL DEF Spec

-----------------------------------------------------------------------------
(* Requests *)

\* A request finds its preset in a valid registry, or had named it.
LEMMA UnknownOnlyIfNamed ==
  ASSUME NEW req, NEW reg, NEW sel, Acceptable(reg),
         Resolve(req, reg, sel) = "preset_unknown"
  PROVE  req.preset \notin DOMAIN reg \cup {None}
<1>1. PresetNamed(req) \notin DOMAIN reg
  BY DEF Resolve
<1>2. DefaultPreset \in DOMAIN reg
  BY DEF Acceptable
<1> QED
  BY <1>1, <1>2 DEF PresetNamed

\* What validation accepts and what a request resolves agree.
LEMMA PinAgrees ==
  ASSUME NEW req, NEW reg, NEW sel, Acceptable(reg),
         req.provider = None, req.model = None,
         Resolve(req, reg, sel) \in Refusals \ {"preset_unknown"}
  PROVE  reg[PresetNamed(req)].provider = None
<1> DEFINE pins == reg[PresetNamed(req)]
<1> SUFFICES ASSUME pins.provider # None
             PROVE  FALSE
  OBVIOUS
<1>1. PresetNamed(req) \in DOMAIN reg
  BY DEF Resolve, Refusals
<1>2. pins.provider \in Providers /\ pins.model \in AllowedModels(pins.provider) \cup {None}
  BY <1>1 DEF Acceptable, PinsAllowed
<1>3. OrDefault(Pick(req.provider, pins.provider), sel) = pins.provider
  BY <1>2, ResolutionAssumption DEF OrDefault, Pick
<1>4. OrDefault(Pick(req.model, pins.model), DefaultModel[pins.provider])
        \in AllowedModels(pins.provider)
  BY <1>2 DEF OrDefault, Pick, AllowedModels
<1>5. Resolve(req, reg, sel) = "resolved"
  BY <1>1, <1>2, <1>3, <1>4 DEF Resolve, ProviderFor
<1> QED
  BY <1>5 DEF Refusals

\* What a request took along at its entry is valid and stays, and so does
\* the reason of a refusal ...
Answer(r) ==
  /\ pc[r] # "idle" => Acceptable(snapshot[r])
  /\ pc[r] = "preset_unknown" => body[r].preset \notin DOMAIN snapshot[r] \cup {None}
  /\ pc[r] \in Refusals \ {"preset_unknown"} /\ body[r].provider = None /\ body[r].model = None =>
       snapshot[r][PresetNamed(body[r])].provider = None

\* ... since requests only enter while there is a registry.
Served ==
  /\ disk \in Documents
  /\ stage \in {"seeding", "serving"} => registry # NoRegistry
  /\ pc = [r \in Requests |-> pc[r]]
  /\ body = [r \in Requests |-> body[r]]
  /\ snapshot = [r \in Requests |-> snapshot[r]]
  /\ \A r \in Requests : Answer(r)

\* A step of a request changes nothing of the others.
LEMMA OneRequestMoves ==
  ASSUME Served, NEW r \in Requests, UNCHANGED <<disk, stage, registry>>,
         NEW to, NEW call, NEW doc,
         pc' = [pc EXCEPT ![r] = to], body' = [body EXCEPT ![r] = call],
         snapshot' = [snapshot EXCEPT ![r] = doc],
         Answer(r)'
  PROVE  Served'
<1>1. /\ pc' = [s \in Requests |-> pc'[s]]
      /\ body' = [s \in Requests |-> body'[s]]
      /\ snapshot' = [s \in Requests |-> snapshot'[s]]
  BY DEF Served
<1>2. ASSUME NEW s \in Requests, s # r
      PROVE  Answer(s)'
  <2>1. pc'[s] = pc[s] /\ body'[s] = body[s] /\ snapshot'[s] = snapshot[s]
    BY <1>2 DEF Served
  <2>2. Answer(s)
    BY DEF Served
  <2> QED
    BY <2>1, <2>2 DEF Answer
<1> QED
  BY <1>1, <1>2 DEF Served

\* Entering, resolving, running and leaving keep every answer as it should be.
LEMMA ServeKeepsServed ==
  ASSUME Served, RegistryValid, NEW r \in Requests, Serve(r)
  PROVE  Served'
<1>1. r \in DOMAIN pc /\ r \in DOMAIN body /\ r \in DOMAIN snapshot /\ Answer(r)
  BY DEF Served
<1>2. UNCHANGED <<disk, stage, registry>>
  BY DEF Serve, Enter, EnterSpeech, ResolveCall, Run, Leave, life, presets
<1>3. stage = "serving" => Acceptable(registry)
  BY DEF Served, RegistryValid
<1>4. CASE Enter(r)
  <2>1. PICK call \in Calls[r] : body' = [body EXCEPT ![r] = call]
    BY <1>4 DEF Enter
  <2>2. Answer(r)'
    BY <1>1, <1>3, <1>4 DEF Enter, Answer, Refusals
  <2> QED
    BY <1>2, <1>4, <2>1, <2>2, OneRequestMoves DEF Enter
<1>5. CASE EnterSpeech(r)
  <2>1. PICK req \in SpeechCalls[r] :
          /\ body' = [body EXCEPT ![r] = Translate(req)]
          /\ pc' = [pc EXCEPT ![r] = IF req.wav THEN "entered" ELSE "invalid_format"]
    BY <1>5 DEF EnterSpeech
  <2>2. req.model # None
    BY LifeAssumption, ResolutionAssumption DEF SpeechBodies
  <2>3. snapshot' = [snapshot EXCEPT ![r] = registry] /\ stage = "serving"
    BY <1>5 DEF EnterSpeech
  <2>4. Answer(r)'
    BY <1>1, <1>3, <2>1, <2>2, <2>3 DEF Answer, Refusals, Translate
  <2> QED
    BY <1>2, <2>1, <2>3, <2>4, OneRequestMoves
<1>6. CASE ResolveCall(r)
  <2>1. /\ pc[r] = "entered"
        /\ pc' = [pc EXCEPT ![r] = Resolve(body[r], snapshot[r], selected)]
        /\ body' = body /\ snapshot' = snapshot
    BY <1>6 DEF ResolveCall
  <2>2. Acceptable(snapshot[r])
    BY <1>1, <2>1 DEF Answer
  <2>3. pc'[r] = Resolve(body[r], snapshot[r], selected)
    BY <1>1, <2>1
  <2>4. pc'[r] = "preset_unknown" => body[r].preset \notin DOMAIN snapshot[r] \cup {None}
    BY <2>2, <2>3, UnknownOnlyIfNamed
  <2>5. pc'[r] \in Refusals \ {"preset_unknown"} /\ body[r].provider = None /\ body[r].model = None =>
          snapshot[r][PresetNamed(body[r])].provider = None
    BY <2>2, <2>3, PinAgrees
  <2>6. Answer(r)'
    BY <2>1, <2>2, <2>4, <2>5 DEF Answer
  <2>7. body' = [body EXCEPT ![r] = body[r]] /\ snapshot' = [snapshot EXCEPT ![r] = snapshot[r]]
    BY <2>1 DEF Served
  <2> QED
    BY <1>2, <2>1, <2>6, <2>7, OneRequestMoves
<1>7. CASE Run(r)
  <2>1. /\ pc[r] = "resolved" /\ pc' = [pc EXCEPT ![r] = "running"]
        /\ body' = body /\ snapshot' = snapshot
    BY <1>7 DEF Run
  <2>2. Answer(r)'
    BY <1>1, <2>1 DEF Answer, Refusals
  <2>3. body' = [body EXCEPT ![r] = body[r]] /\ snapshot' = [snapshot EXCEPT ![r] = snapshot[r]]
    BY <2>1 DEF Served
  <2> QED
    BY <1>2, <2>1, <2>2, <2>3, OneRequestMoves
<1>8. CASE Leave(r)
  <2>1. Answer(r)'
    BY <1>1, <1>8 DEF Leave, Answer, Refusals
  <2> QED
    BY <1>2, <1>8, <2>1, OneRequestMoves DEF Leave
<1> QED
  BY <1>4, <1>5, <1>6, <1>7, <1>8 DEF Serve

\* Served is inductive with the validity of the registry, which was proved
\* on its own.
LEMMA ServedHolds == Spec => []Served
<1>1. Init => Served
  BY DEF Init, Served, Answer, Refusals
<1>2. Served /\ RegistryValid /\ [Next]_vars => Served'
  <2> SUFFICES ASSUME Served, RegistryValid, [Next]_vars
               PROVE  Served'
    OBVIOUS
  <2>1. ASSUME UNCHANGED calls, disk' \in Documents,
               stage' \in {"seeding", "serving"} => registry' # NoRegistry
        PROVE  Served'
    BY <2>1 DEF calls, Served, Answer
  <2>2. disk \in Documents /\ NoRegistry \notin Documents
        /\ (stage \in {"seeding", "serving"} => registry # NoRegistry)
    BY LifeAssumption DEF Served
  <2>3. CASE Startup
    BY <2>1, <2>2, <2>3 DEF Startup, RefuseSettings, SelectDevice, Preload, WarmUp, LoadFails,
       LoadPresets, BecomeReady, Unwind, presets
  <2>4. CASE Reloader \/ WatchFails \/ Edit
    BY <2>1, <2>2, <2>4 DEF Reloader, WatchStarts, ChangeReported, ReloadOnce, WatchFails,
       Edit, life
  <2>5. ASSUME NEW r \in Requests, Serve(r)
        PROVE  Served'
    BY <2>5, ServeKeepsServed
  <2>6. CASE Shutdown \/ Teardown
    BY <2>1, <2>2, <2>6 DEF Shutdown, Unwind, Teardown, SeedWatcherCancelled,
       ReloaderCancelled, DrainEnds, DrainTick, presets
  <2>7. CASE UNCHANGED vars
    BY <2>1, <2>2, <2>7 DEF vars, life, presets
  <2> QED
    BY <2>3, <2>4, <2>5, <2>6, <2>7 DEF Next
<1> QED
  BY <1>1, <1>2, RegistryAlwaysValid, PTL DEF Spec

\* NFR-PR-04: a reload takes no preset from a request in flight, and none
\* of /v1/audio/speech ever lacks its preset.
THEOREM RequestsKeepPresets == Spec => []NoVanishingPreset
<1>1. Served => NoVanishingPreset
  BY DEF Served, Answer, NoVanishingPreset
<1> QED
  BY <1>1, ServedHolds, PTL

-----------------------------------------------------------------------------
(* Settings *)

\* What Settings() makes of a number is one that is asked for, or refused.
LEMMA LoadIntFits ==
  ASSUME NEW raw \in Raw, NEW default \in Nat, NEW minimum \in Nat, default >= minimum,
         LoadInt(raw, default, minimum) # Junk
  PROVE  LoadInt(raw, default, minimum) \in Nat /\ LoadInt(raw, default, minimum) >= minimum
BY SettingsAssumption DEF LoadInt, Raw

\* Whatever the environment, usable settings are what the components are
\* made for.
LEMMA UsableFits ==
  ASSUME NEW knobs \in Knobs, Usable(LoadSettings(knobs))
  PROVE  LET s == LoadSettings(knobs)
         IN /\ s.concurrent \in Nat \ {0} /\ s.queue \in Nat
            /\ s.cache \in Nat \ {0} /\ s.chars \in Nat \ {0}
            /\ s.drain \in Nat /\ s.upload \in Nat \ {0}
            /\ s.blob \in {"fs", "s3"} /\ (s.blob = "s3" => s.bucket = "bucket")
            /\ MetadataBuildable(s) =>
                 \/ s.metadata = "fs_json"
                 \/ s.metadata = "postgres" /\ s.dsn = "dsn"
<1> DEFINE s == LoadSettings(knobs)
<1>1. /\ s.chars # Junk /\ s.concurrent # Junk /\ s.queue # Junk /\ s.cache # Junk
      /\ s.drain # Junk /\ s.upload # Junk /\ s.metadata # Junk /\ s.blob # Junk
      /\ s.blob = "s3" => s.bucket # None
  BY DEF Usable, LoadSettings
<1>2. s.concurrent \in Nat \ {0}
  BY <1>1, SettingsAssumption DEF LoadSettings, LoadConcurrent, Knobs, Raw
<1>3. s.chars \in Nat \ {0}
  BY <1>1, SettingsAssumption DEF LoadSettings, LoadMaxChars, Knobs, Raw
<1>4. s.queue \in Nat /\ s.drain \in Nat
  BY <1>1, LoadIntFits DEF LoadSettings, Knobs
<1>5. s.cache \in Nat \ {0} /\ s.upload \in Nat \ {0}
  <2>1. s.cache = LoadInt(knobs.cache, 1, 1) /\ s.upload = LoadInt(knobs.upload, 10485760, 1)
    BY DEF LoadSettings
  <2>2. knobs.cache \in Raw /\ knobs.upload \in Raw
    BY DEF Knobs
  <2> QED
    BY <1>1, <2>1, <2>2, LoadIntFits
<1>6. s.blob \in {"fs", "s3"} /\ (s.blob = "s3" => s.bucket = "bucket")
  BY <1>1 DEF LoadSettings, LoadChoice, LoadName, Knobs
<1>7. MetadataBuildable(s) =>
        \/ s.metadata = "fs_json"
        \/ s.metadata = "postgres" /\ s.dsn = "dsn"
  BY <1>1 DEF MetadataBuildable, LoadSettings, LoadChoice, LoadName, Knobs
<1> QED
  BY <1>2, <1>3, <1>4, <1>5, <1>6, <1>7

\* How far the startup came, as far as the settings are concerned.
Checked ==
  /\ env \in Environments
  /\ stage \in {"selected", "warm", "seeding", "serving"} => Usable(settings)
  /\ stage \in {"seeding", "serving"} => MetadataBuildable(settings)

\* config.py: invalid values fail at startup, not in a request.
THEOREM SettingsAlwaysFit == Spec => []SettingsFit
<1>1. Init => Checked
  BY DEF Init, Checked
<1>2. Checked /\ [Next]_vars => Checked'
  <2> SUFFICES ASSUME Checked, [Next]_vars
               PROVE  Checked'
    OBVIOUS
  <2>1. env' = env /\ settings' = settings
    <3>1. env' = env
      BY DEF Next, Startup, RefuseSettings, SelectDevice, Preload, WarmUp, LoadFails,
         LoadPresets, BecomeReady,
         Reloader, WatchStarts, ChangeReported, ReloadOnce, WatchFails, Edit,
         Serve, Enter, EnterSpeech, ResolveCall, Run, Leave, Shutdown,
         Teardown, SeedWatcherCancelled, ReloaderCancelled, DrainEnds, DrainTick, vars
    <3> QED
      BY <3>1 DEF settings
  <2> USE <2>1 DEF Checked
  <2>2. CASE Startup
    BY <2>2 DEF Startup, RefuseSettings, SelectDevice, Preload, WarmUp, LoadFails,
       LoadPresets, BecomeReady, Unwind,
       SettingsValid
  <2>3. CASE Reloader \/ WatchFails \/ Edit
    BY <2>3 DEF Reloader, WatchStarts, ChangeReported, ReloadOnce, WatchFails, Edit, life
  <2>4. ASSUME NEW r \in Requests, Serve(r)
        PROVE  Checked'
    BY <2>4 DEF Serve, Enter, EnterSpeech, ResolveCall, Run, Leave, life
  <2>5. CASE Shutdown \/ Teardown
    BY <2>5 DEF Shutdown, Unwind, Teardown, SeedWatcherCancelled, ReloaderCancelled,
       DrainEnds, DrainTick
  <2>6. CASE UNCHANGED vars
    BY <2>6 DEF vars, life
  <2> QED
    BY <2>2, <2>3, <2>4, <2>5, <2>6 DEF Next
<1>3. Checked => SettingsFit
  <2> SUFFICES ASSUME Checked
               PROVE  SettingsFit
    OBVIOUS
  <2>1. env.knobs \in Knobs
    BY LifeAssumption DEF Checked
  <2> QED
    BY <2>1, UsableFits DEF Checked, SettingsFit, settings
<1> QED
  BY <1>1, <1>2, <1>3, PTL DEF Spec
-----------------------------------------------------------------------------
(* What startup decides, and the type invariant *)

\* Of the registered providers the first that supports the device is taken.
LEMMA FirstViableFits ==
  ASSUME NEW d \in Devices, FirstViable(d) # None
  PROVE  /\ FirstViable(d) \in Providers /\ d \in SupportsDevices(FirstViable(d))
         /\ FirstViable(d) = (IF d = "cuda" THEN "vllm-omni" ELSE "mlx_audio")
<1> DEFINE viable == {i \in DOMAIN Registered : d \in SupportsDevices(Registered[i])}
<1>1. /\ DOMAIN Registered = 1..3
      /\ Registered[1] = "mlx_audio" /\ Registered[2] = "voxtral" /\ Registered[3] = "vllm-omni"
  BY DEF Registered
<1>2. viable = (CASE d = "mps" -> {1, 2} [] d = "cuda" -> {3} [] d = "cpu" -> {})
  BY <1>1 DEF Devices, SupportsDevices
<1>3. FirstViable(d) = Registered[CHOOSE i \in viable : \A j \in viable : i <= j]
      /\ viable # {}
  BY DEF FirstViable
<1>4. CASE d = "mps"
  <2>1. (CHOOSE i \in viable : \A j \in viable : i <= j) = 1
    BY <1>2, <1>4
  <2> QED
    BY <1>1, <1>3, <1>4, <2>1 DEF Providers, SupportsDevices
<1>5. CASE d = "cuda"
  <2>1. (CHOOSE i \in viable : \A j \in viable : i <= j) = 3
    BY <1>2, <1>5
  <2> QED
    BY <1>1, <1>3, <1>5, <2>1 DEF Providers, SupportsDevices
<1>6. d # "cpu"
  BY <1>2, <1>3
<1> QED
  BY <1>4, <1>5, <1>6 DEF Devices

LEMMA SelectionFits ==
  ASSUME NEW d \in Devices, NEW override, SelectProvider(override, d) # None
  PROVE  LET p == SelectProvider(override, d)
         IN /\ p \in Providers /\ d \in SupportsDevices(p)
            /\ override \notin {"auto", Blank} => p = override
            /\ override \in {"auto", Blank} =>
                 p = (IF d = "cuda" THEN "vllm-omni" ELSE "mlx_audio")
BY FirstViableFits DEF SelectProvider

\* A pair that goes through the cache is in it afterwards, and the cache
\* within its bound.
LEMMA TouchFits ==
  ASSUME NEW cache \in Seq(Preloads), NEW pair \in Preloads, NEW size \in Nat \ {0},
         Len(cache) <= size
  PROVE  /\ Touch(cache, pair, size) \in Seq(Preloads)
         /\ Len(Touch(cache, pair, size)) <= size
         /\ pair \in ToSet(Touch(cache, pair, size))
<1>1. ASSUME NEW s \in Seq(Preloads), Len(s) < size, Touch(cache, pair, size) = Append(s, pair)
      PROVE  /\ Touch(cache, pair, size) \in Seq(Preloads)
             /\ Len(Touch(cache, pair, size)) <= size
             /\ pair \in ToSet(Touch(cache, pair, size))
  <2>1. /\ Append(s, pair) \in Seq(Preloads) /\ Len(Append(s, pair)) = Len(s) + 1
        /\ Append(s, pair)[Len(s) + 1] = pair
    BY <1>1
  <2>2. Len(s) + 1 \in DOMAIN Append(s, pair)
    BY <1>1, <2>1
  <2>3. pair \in ToSet(Append(s, pair))
    BY <2>1, <2>2 DEF ToSet
  <2> QED
    BY <1>1, <2>1, <2>3
<1>2. CASE pair \in ToSet(cache)
  <2> DEFINE k == CHOOSE i \in DOMAIN cache : cache[i] = pair
  <2>1. k \in 1..Len(cache)
    BY <1>2 DEF ToSet
  <2>2. RemoveAt(cache, k) \in Seq(Preloads) /\ Len(RemoveAt(cache, k)) = Len(cache) - 1
    BY <2>1, RemoveAtSeq
  <2>3. Touch(cache, pair, size) = Append(RemoveAt(cache, k), pair)
    BY <1>2 DEF Touch
  <2> HIDE DEF k
  <2> QED
    BY <1>1, <2>2, <2>3
<1>3. CASE pair \notin ToSet(cache)
  <2> DEFINE s == IF Len(cache) = size THEN Tail(cache) ELSE cache
  <2>1. s \in Seq(Preloads) /\ Len(s) < size
    OBVIOUS
  <2>2. Touch(cache, pair, size) = Append(s, pair)
    BY <1>3 DEF Touch
  <2> QED
    BY <1>1, <2>1, <2>2
<1> QED
  BY <1>2, <1>3

\* The decisions of a startup that has come so far ...
Decided ==
  /\ stage \in {"selected", "warm", "seeding", "serving"} =>
       /\ SettingsValid
       /\ device = DetectDevice(env.device, env.host)
       /\ selected = SelectProvider(env.provider, device) /\ selected # None
  /\ stage \in {"warm", "seeding", "serving"} => Default(selected) \in ToSet(loaded)
  /\ budget > 0 => SettingsValid

\* ... and what it has brought about, by the type of each variable.
StartupTypes ==
  /\ env \in Environments /\ stage \in Stages
  /\ device \in Devices \cup {None} /\ selected \in Providers \cup {None}
  /\ loaded \in Seq(Preloads) /\ (loaded # << >> => Len(loaded) <= settings.cache)
  /\ warmed \in 0..Len(env.preload)
  /\ readiness \in {"warming_up", "ready", "draining"}
  /\ budget \in Nat /\ (budget > 0 => budget <= settings.drain)

PresetTypes ==
  /\ registry \in Documents \cup {NoRegistry} /\ registry # Malformed
  /\ disk \in Documents
  /\ watcher \in {"none", "scheduled", "ended"} \cup Watching
  /\ linked \in BOOLEAN /\ pending \in BOOLEAN /\ missed \in BOOLEAN

CallTypes(r) ==
  /\ pc[r] \in {"idle", "entered", "resolved", "running"} \cup Refusals
  /\ snapshot[r] \in Documents \cup {NoRegistry}
  /\ IF pc[r] = "idle" THEN body[r] = None
     ELSE body[r] \in Calls[r] \cup {Translate(q) : q \in SpeechCalls[r]} /\ snapshot[r] # NoRegistry

CallsTyped ==
  /\ pc = [r \in Requests |-> pc[r]]
  /\ body = [r \in Requests |-> body[r]]
  /\ snapshot = [r \in Requests |-> snapshot[r]]
  /\ \A r \in Requests : CallTypes(r)

\* What environments offer, and what Settings() makes of it.
LEMMA EnvironmentFits ==
  ASSUME env \in Environments
  PROVE  /\ env.host \in Hosts /\ env.preload \in Seq(Preloads)
         /\ env.device \in Devices \cup {"auto", Blank, Unknown}
         /\ SettingsValid =>
              /\ DetectDevice(env.device, env.host) \in Devices
              /\ settings.cache \in Nat \ {0} /\ settings.drain \in Nat
<1>1. /\ env.host \in Hosts /\ env.preload \in Seq(Preloads) /\ env.knobs \in Knobs
      /\ env.device \in Devices \cup {"auto", Blank, Unknown}
  BY LifeAssumption
<1>2. SettingsValid => settings.cache \in Nat \ {0} /\ settings.drain \in Nat
  BY <1>1, UsableFits DEF SettingsValid, settings
<1>3. SettingsValid => DetectDevice(env.device, env.host) \in Devices
  BY <1>1 DEF SettingsValid, DetectDevice, ProbeDevice, Devices
<1> QED
  BY <1>1, <1>2, <1>3

LEMMA StartupKeepsTypes ==
  ASSUME Decided, StartupTypes, Startup
  PROVE  Decided' /\ StartupTypes'
<1>1. UNCHANGED env /\ env \in Environments
  BY DEF Startup, RefuseSettings, SelectDevice, Preload, WarmUp, LoadFails, LoadPresets,
     BecomeReady, StartupTypes
<1>2. settings' = settings /\ (SettingsValid' <=> SettingsValid)
  BY <1>1 DEF settings, SettingsValid
<1>3. CASE RefuseSettings \/ LoadFails
  BY <1>1, <1>2, <1>3 DEF RefuseSettings, LoadFails, Unwind, chosen, Decided, StartupTypes, Stages
<1>4. CASE SelectDevice
  <2>1. device' \in Devices /\ device' = DetectDevice(env.device, env.host)
    BY <1>1, <1>4, EnvironmentFits DEF SelectDevice
  <2>2. selected' # None => selected' \in Providers
    BY <1>4, <2>1, SelectionFits DEF SelectDevice
  <2> QED
    BY <1>1, <1>2, <1>4, <2>1, <2>2 DEF SelectDevice, Unwind, Decided, StartupTypes, Stages
<1>5. CASE Preload \/ WarmUp
  <2> DEFINE pair == IF Preload THEN env.preload[warmed + 1] ELSE Default(selected)
  <2>1. SettingsValid /\ selected \in Providers
    BY <1>5 DEF Preload, WarmUp, Decided, StartupTypes
  <2>2. loaded' = Touch(loaded, pair, settings.cache)
    BY <1>5 DEF Preload, WarmUp
  <2>3. /\ settings.cache \in Nat \ {0}
        /\ loaded \in Seq(Preloads) /\ Len(loaded) <= settings.cache
    BY <1>1, <2>1, EnvironmentFits DEF StartupTypes
  <2>4. pair \in Preloads
    <3>1. CASE Preload
      <4>1. warmed + 1 \in 1..Len(env.preload) /\ env.preload \in Seq(Preloads)
        BY <1>1, <3>1, EnvironmentFits DEF Preload, StartupTypes
      <4> QED
        BY <3>1, <4>1
    <3>2. CASE ~Preload
      BY <2>1, <3>2, ResolutionAssumption DEF Default, Preloads
    <3> QED
      BY <3>1, <3>2
  <2>5. /\ loaded' \in Seq(Preloads) /\ Len(loaded') <= settings.cache
        /\ pair \in ToSet(loaded')
    BY <2>2, <2>3, <2>4, TouchFits
  <2>6. CASE Preload
    <3>1. warmed + 1 \in 0..Len(env.preload)
      BY <1>1, <2>6, EnvironmentFits DEF Preload, StartupTypes
    <3> QED
      BY <1>1, <1>2, <2>5, <2>6, <3>1 DEF Preload, Decided, StartupTypes
  <2>7. CASE WarmUp
    <3>1. ~Preload
      BY <2>7 DEF WarmUp, Preload
    <3>2. Default(selected') \in ToSet(loaded')
      BY <2>5, <2>7, <3>1 DEF WarmUp
    <3> QED
      BY <1>1, <1>2, <2>5, <2>7, <3>2 DEF WarmUp, Decided, StartupTypes, Stages
  <2> QED
    BY <1>5, <2>6, <2>7
<1>6. CASE LoadPresets
  BY <1>1, <1>2, <1>6 DEF LoadPresets, Unwind, chosen, Decided, StartupTypes, Stages
<1>7. CASE BecomeReady
  <2>1. stage = "seeding" => settings.drain \in Nat
    BY <1>1, EnvironmentFits DEF Decided
  <2> QED
    BY <1>1, <1>2, <1>7, <2>1 DEF BecomeReady, Unwind, chosen, Decided, StartupTypes, Stages
<1> QED
  BY <1>3, <1>4, <1>5, <1>6, <1>7 DEF Startup

\* Steps that leave what startup has chosen alone.
LEMMA OtherStepsKeepTypes ==
  ASSUME Decided, StartupTypes, UNCHANGED <<env, chosen>>,
         \/ UNCHANGED <<stage, readiness, budget>>
         \/ Shutdown \/ Teardown
  PROVE  Decided' /\ StartupTypes'
<1>1. settings' = settings /\ (SettingsValid' <=> SettingsValid)
  BY DEF settings, SettingsValid
<1>2. CASE UNCHANGED <<stage, readiness, budget>>
  BY <1>1, <1>2 DEF chosen, Decided, StartupTypes
<1>3. CASE Shutdown \/ SeedWatcherCancelled \/ ReloaderCancelled \/ DrainEnds
  BY <1>1, <1>3 DEF Shutdown, SeedWatcherCancelled, ReloaderCancelled, DrainEnds, Unwind,
     chosen, Decided, StartupTypes, Stages
<1>4. CASE DrainTick
  <2>1. budget > 0 => settings.drain \in Nat
    BY EnvironmentFits DEF Decided, StartupTypes
  <2>2. /\ budget \in Nat /\ budget > 0 /\ budget' = budget - 1 /\ budget <= settings.drain
        /\ UNCHANGED <<env, stage, device, selected, loaded, warmed, readiness>>
    BY <1>4 DEF DrainTick, chosen, StartupTypes
  <2>3. budget' \in Nat /\ budget' <= settings.drain
    BY <2>1, <2>2
  <2>4. StartupTypes'
    BY <1>1, <2>2, <2>3 DEF StartupTypes
  <2>5. Decided'
    BY <1>1, <2>2 DEF Decided
  <2> QED
    BY <2>4, <2>5
<1> QED
  BY <1>2, <1>3, <1>4 DEF Teardown

LEMMA StartupTyped == Spec => [](Decided /\ StartupTypes)
<1>1. Init => Decided /\ StartupTypes
  <2> SUFFICES ASSUME Init PROVE Decided /\ StartupTypes
    OBVIOUS
  <2>1. env.preload \in Seq(Preloads)
    BY EnvironmentFits DEF Init
  <2> QED
    BY <2>1 DEF Init, Decided, StartupTypes, Stages
<1>2. Decided /\ StartupTypes /\ [Next]_vars => Decided' /\ StartupTypes'
  <2> SUFFICES ASSUME Decided, StartupTypes, [Next]_vars
               PROVE  Decided' /\ StartupTypes'
    OBVIOUS
  <2>1. CASE Startup
    BY <2>1, StartupKeepsTypes
  <2>2. CASE Reloader \/ WatchFails \/ Edit
    BY <2>2, OtherStepsKeepTypes DEF Reloader, WatchStarts, ChangeReported, ReloadOnce,
       WatchFails, Edit, life
  <2>3. ASSUME NEW r \in Requests, Serve(r)
        PROVE  Decided' /\ StartupTypes'
    BY <2>3, OtherStepsKeepTypes DEF Serve, Enter, EnterSpeech, ResolveCall, Run, Leave, life
  <2>4. CASE Shutdown \/ Teardown
    BY <2>4, OtherStepsKeepTypes DEF Shutdown, Teardown, SeedWatcherCancelled,
       ReloaderCancelled, DrainEnds, DrainTick
  <2>5. CASE UNCHANGED vars
    BY <2>5, OtherStepsKeepTypes DEF vars, life
  <2> QED
    BY <2>1, <2>2, <2>3, <2>4, <2>5 DEF Next
<1> QED
  BY <1>1, <1>2, PTL DEF Spec

LEMMA PresetsTyped == Spec => []PresetTypes
<1>1. Init => PresetTypes
  BY LifeAssumption DEF Init, PresetTypes
<1>2. PresetTypes /\ [Next]_vars => PresetTypes'
  <2> SUFFICES ASSUME PresetTypes, [Next]_vars
               PROVE  PresetTypes'
    OBVIOUS
  <2> USE DEF PresetTypes, Watching
  <2>1. CASE UNCHANGED presets
    BY <2>1 DEF presets
  <2>2. CASE LoadPresets
    BY <2>2 DEF LoadPresets, AcceptableAtStartup, Acceptable
  <2>3. CASE Edit
    BY <2>3 DEF Edit
  <2>4. CASE WatchStarts \/ ChangeReported \/ WatchFails
    BY <2>4 DEF WatchStarts, ChangeReported, WatchFails
  <2>5. CASE ReloadOnce
    BY <2>5 DEF ReloadOnce, Acceptable
  <2>6. CASE ReloaderCancelled
    BY <2>6 DEF ReloaderCancelled
  <2>7. CASE RefuseSettings \/ SelectDevice \/ Preload \/ WarmUp \/ LoadFails \/ BecomeReady
    BY <2>1, <2>7 DEF RefuseSettings, SelectDevice, Preload, WarmUp, LoadFails, BecomeReady
  <2>8. ASSUME NEW r \in Requests, Serve(r)
        PROVE  PresetTypes'
    BY <2>1, <2>8 DEF Serve, Enter, EnterSpeech, ResolveCall, Run, Leave
  <2>9. CASE Shutdown \/ SeedWatcherCancelled \/ DrainEnds \/ DrainTick \/ UNCHANGED vars
    BY <2>1, <2>9 DEF Shutdown, SeedWatcherCancelled, DrainEnds, DrainTick, vars
  <2> QED
    BY <2>2, <2>3, <2>4, <2>5, <2>6, <2>7, <2>8, <2>9 DEF Next, Startup, Reloader, Teardown
<1> QED
  BY <1>1, <1>2, PTL DEF Spec

LEMMA OneRequestTyped ==
  ASSUME CallsTyped, NEW r \in Requests, NEW to, NEW call, NEW doc,
         pc' = [pc EXCEPT ![r] = to], body' = [body EXCEPT ![r] = call],
         snapshot' = [snapshot EXCEPT ![r] = doc],
         to \in {"idle", "entered", "resolved", "running"} \cup Refusals,
         doc \in Documents \cup {NoRegistry},
         IF to = "idle" THEN call = None
         ELSE call \in Calls[r] \cup {Translate(q) : q \in SpeechCalls[r]} /\ doc # NoRegistry
  PROVE  CallsTyped'
<1>1. /\ pc' = [s \in Requests |-> pc'[s]] /\ body' = [s \in Requests |-> body'[s]]
      /\ snapshot' = [s \in Requests |-> snapshot'[s]]
      /\ pc'[r] = to /\ body'[r] = call /\ snapshot'[r] = doc
  BY DEF CallsTyped
<1>2. ASSUME NEW s \in Requests, s # r
      PROVE  CallTypes(s)'
  <2>1. pc'[s] = pc[s] /\ body'[s] = body[s] /\ snapshot'[s] = snapshot[s] /\ CallTypes(s)
    BY <1>2 DEF CallsTyped
  <2> QED
    BY <2>1 DEF CallTypes
<1>3. CallTypes(r)'
  BY <1>1 DEF CallTypes
<1> QED
  BY <1>1, <1>2, <1>3 DEF CallsTyped

\* A request's own step; Served says that there is a registry to take along.
LEMMA ServeKeepsTypes ==
  ASSUME CallsTyped, PresetTypes, Served, NEW r \in Requests, Serve(r)
  PROVE  CallsTyped'
<1>1. /\ body = [body EXCEPT ![r] = body[r]] /\ snapshot = [snapshot EXCEPT ![r] = snapshot[r]]
      /\ CallTypes(r)
  BY DEF CallsTyped
<1>2. stage = "serving" => registry \in Documents /\ registry # NoRegistry
  BY DEF Served, PresetTypes
<1>3. CASE Enter(r)
  <2>1. PICK call \in Calls[r] : body' = [body EXCEPT ![r] = call]
    BY <1>3 DEF Enter
  <2> QED
    BY <1>2, <1>3, <2>1, OneRequestTyped DEF Enter
<1>4. CASE EnterSpeech(r)
  <2>1. PICK req \in SpeechCalls[r] :
          /\ body' = [body EXCEPT ![r] = Translate(req)]
          /\ pc' = [pc EXCEPT ![r] = IF req.wav THEN "entered" ELSE "invalid_format"]
    BY <1>4 DEF EnterSpeech
  <2>2. (IF req.wav THEN "entered" ELSE "invalid_format") \in {"entered"} \cup Refusals
    BY DEF Refusals
  <2>3. (IF req.wav THEN "entered" ELSE "invalid_format") # "idle"
    OBVIOUS
  <2> QED
    BY <1>2, <1>4, <2>1, <2>2, <2>3, OneRequestTyped DEF EnterSpeech
<1>5. CASE ResolveCall(r)
  <2>1. Resolve(body[r], snapshot[r], selected) \in {"resolved"} \cup Refusals
    BY DEF Resolve, Refusals
  <2>2. Resolve(body[r], snapshot[r], selected) # "idle"
    BY <2>1 DEF Refusals
  <2> QED
    BY <1>1, <1>5, <2>1, <2>2, OneRequestTyped DEF ResolveCall, CallTypes
<1>6. CASE Run(r)
  BY <1>1, <1>6, OneRequestTyped DEF Run, CallTypes
<1>7. CASE Leave(r)
  BY <1>7, OneRequestTyped DEF Leave
<1> QED
  BY <1>3, <1>4, <1>5, <1>6, <1>7 DEF Serve

LEMMA CallsAlwaysTyped == Spec => []CallsTyped
<1>1. Init => CallsTyped
  BY DEF Init, CallsTyped, CallTypes
<1>2. CallsTyped /\ PresetTypes /\ Served /\ [Next]_vars => CallsTyped'
  <2> SUFFICES ASSUME CallsTyped, PresetTypes, Served, [Next]_vars
               PROVE  CallsTyped'
    OBVIOUS
  <2>1. CASE UNCHANGED calls
    BY <2>1 DEF calls, CallsTyped, CallTypes
  <2>2. CASE Startup
    BY <2>1, <2>2 DEF Startup, RefuseSettings, SelectDevice, Preload, WarmUp, LoadFails,
       LoadPresets, BecomeReady
  <2>3. CASE Reloader \/ WatchFails \/ Edit
    BY <2>1, <2>3 DEF Reloader, WatchStarts, ChangeReported, ReloadOnce, WatchFails, Edit
  <2>4. ASSUME NEW r \in Requests, Serve(r)
        PROVE  CallsTyped'
    BY <2>4, ServeKeepsTypes
  <2>5. CASE Shutdown \/ Teardown \/ UNCHANGED vars
    BY <2>1, <2>5 DEF Shutdown, Teardown, SeedWatcherCancelled, ReloaderCancelled,
       DrainEnds, DrainTick, vars
  <2> QED
    BY <2>2, <2>3, <2>4, <2>5 DEF Next
<1> QED
  BY <1>1, <1>2, PresetsTyped, ServedHolds, PTL DEF Spec

\* The type invariant: a request has a body and a registry while it is in,
\* and the models loaded at startup fit into the cache.
THEOREM LifeTypes == Spec => []LifeTypeOK
<1>1. StartupTypes /\ PresetTypes /\ CallsTyped => LifeTypeOK
  BY DEF StartupTypes, PresetTypes, CallsTyped, CallTypes, LifeTypeOK
<1> QED
  BY <1>1, StartupTyped, PresetsTyped, CallsAlwaysTyped, PTL

\* A request is in only after startup has found a provider for the device, and
\* in synthesis only with a provider that is registered.
Equipped ==
  \A r \in Requests :
    /\ pc[r] # "idle" => stage # "boot" /\ device \in SupportsDevices(selected)
    /\ pc[r] \in {"resolved", "running"} =>
         ProviderFor(body[r], snapshot[r][PresetNamed(body[r])], selected) \in Providers

LEMMA RequestsKeepEquipped ==
  ASSUME Equipped, Served, Decided, StartupTypes, NEW q \in Requests, Serve(q)
  PROVE  Equipped'
<1>1. UNCHANGED <<stage, device, selected>>
  BY DEF Serve, Enter, EnterSpeech, ResolveCall, Run, Leave, life, chosen
<1>2. ASSUME stage = "serving"
      PROVE  device \in SupportsDevices(selected)
  <2>1. /\ env \in Environments /\ SettingsValid
        /\ device = DetectDevice(env.device, env.host)
        /\ selected = SelectProvider(env.provider, device) /\ selected # None
    BY <1>2 DEF Decided, StartupTypes
  <2>2. device \in Devices
    BY <2>1, EnvironmentFits
  <2>. QED
    BY <2>1, <2>2, SelectionFits
<1>3. q \in DOMAIN pc /\ q \in DOMAIN body /\ q \in DOMAIN snapshot
  BY DEF Served
<1>4. SUFFICES ASSUME NEW r \in Requests
               PROVE  /\ pc'[r] # "idle" => stage # "boot" /\ device \in SupportsDevices(selected)
                      /\ pc'[r] \in {"resolved", "running"} =>
                           ProviderFor(body'[r], snapshot'[r][PresetNamed(body'[r])], selected)
                             \in Providers
  BY <1>1 DEF Equipped
<1>5. CASE r # q
  <2>1. /\ pc' = pc \/ \E to : pc' = [pc EXCEPT ![q] = to]
        /\ body' = body \/ \E call : body' = [body EXCEPT ![q] = call]
        /\ snapshot' = snapshot \/ \E doc : snapshot' = [snapshot EXCEPT ![q] = doc]
    BY Zenon DEF Serve, Enter, EnterSpeech, ResolveCall, Run, Leave
  <2>2. r \in DOMAIN pc /\ r \in DOMAIN body /\ r \in DOMAIN snapshot
    BY DEF Served
  <2>3. pc'[r] = pc[r] /\ body'[r] = body[r] /\ snapshot'[r] = snapshot[r]
    BY <1>5, <2>1, <2>2
  <2>. QED
    BY <2>3 DEF Equipped
<1>6. CASE r = q
  <2>1. CASE Enter(q) \/ EnterSpeech(q)
    <3>1. pc'[r] \notin {"resolved", "running"} /\ stage = "serving"
      BY <1>3, <1>6, <2>1 DEF Enter, EnterSpeech
    <3>. QED
      BY <1>2, <3>1
  <2>2. CASE ResolveCall(q)
    <3>1. /\ pc[r] = "entered" /\ body'[r] = body[r] /\ snapshot'[r] = snapshot[r]
          /\ pc'[r] = Resolve(body[r], snapshot[r], selected)
      BY <1>3, <1>6, <2>2 DEF ResolveCall
    <3>2. Resolve(body[r], snapshot[r], selected) # "running"
      BY DEF Resolve
    <3>3. Resolve(body[r], snapshot[r], selected) = "resolved" =>
            ProviderFor(body[r], snapshot[r][PresetNamed(body[r])], selected) \in Providers
      BY DEF Resolve
    <3>. QED
      BY <3>1, <3>2, <3>3 DEF Equipped
  <2>3. CASE Run(q)
    <3>1. pc[r] = "resolved" /\ body'[r] = body[r] /\ snapshot'[r] = snapshot[r]
      BY <1>6, <2>3 DEF Run
    <3>. QED
      BY <3>1 DEF Equipped
  <2>4. CASE Leave(q)
    <3>1. pc'[r] = "idle"
      BY <1>3, <1>6, <2>4 DEF Leave
    <3>. QED
      BY <3>1
  <2>. QED
    BY <2>1, <2>2, <2>3, <2>4 DEF Serve
<1>. QED
  BY <1>5, <1>6

LEMMA AlwaysEquipped == Spec => []Equipped
<1>1. Init => Equipped
  BY DEF Init, Equipped
<1>2. Equipped /\ Served /\ Decided /\ StartupTypes /\ [Next]_vars => Equipped'
  <2> SUFFICES ASSUME Equipped, Served, Decided, StartupTypes, [Next]_vars
               PROVE  Equipped'
    OBVIOUS
  <2>1. ASSUME UNCHANGED <<device, selected, calls>>, stage # "boot" => stage' # "boot"
        PROVE  Equipped'
    BY <2>1 DEF Equipped, calls
  <2>2. CASE SelectDevice
    <3>1. UNCHANGED calls /\ \A r \in Requests : pc[r] = "idle"
      BY <2>2 DEF SelectDevice, Equipped
    <3>. QED
      BY <3>1 DEF Equipped, calls
  <2>3. CASE RefuseSettings \/ Preload \/ WarmUp \/ LoadFails \/ LoadPresets \/ BecomeReady
    BY <2>1, <2>3 DEF RefuseSettings, Preload, WarmUp, LoadFails, LoadPresets, BecomeReady,
       Unwind, chosen
  <2>4. CASE Reloader \/ WatchFails \/ Edit
    BY <2>1, <2>4 DEF Reloader, WatchStarts, ChangeReported, ReloadOnce, WatchFails, Edit,
       life, chosen
  <2>5. ASSUME NEW r \in Requests, Serve(r)
        PROVE  Equipped'
    BY <2>5, RequestsKeepEquipped
  <2>6. CASE Shutdown \/ Teardown
    BY <2>1, <2>6 DEF Shutdown, Unwind, Teardown, SeedWatcherCancelled, ReloaderCancelled,
       DrainEnds, DrainTick, chosen
  <2>7. CASE UNCHANGED vars
    BY <2>1, <2>7 DEF vars, life, chosen
  <2> QED
    BY <2>2, <2>3, <2>4, <2>5, <2>6, <2>7 DEF Next, Startup
<1> QED
  BY <1>1, <1>2, ServedHolds, StartupTyped, PTL DEF Spec

\* FR-PR-13: an accepted pin resolves for every request that leaves provider
\* and model to it; and where nobody names a provider, it is one that supports
\* the device.
THEOREM AcceptedPinsResolve == Spec => []PinsResolve
<1>1. Served /\ Equipped => PinsResolve
  <2> SUFFICES ASSUME Served, Equipped, NEW r \in Requests
               PROVE  LET pins == snapshot[r][PresetNamed(body[r])]
                          named == {body[r].provider}
                                     \cup (IF body[r].provider = None THEN {pins.provider} ELSE {})
                      IN /\ (pc[r] \in Refusals \ {"preset_unknown"} /\ body[r].provider = None
                               /\ body[r].model = None => pins.provider = None)
                         /\ (pc[r] \in {"resolved", "running"} =>
                               \/ device \in SupportsDevices(ProviderFor(body[r], pins, selected))
                               \/ named \cap Providers # {})
    BY DEF PinsResolve
  <2> DEFINE pins == snapshot[r][PresetNamed(body[r])]
             provider == ProviderFor(body[r], pins, selected)
             named == {body[r].provider}
                        \cup (IF body[r].provider = None THEN {pins.provider} ELSE {})
  <2>1. pc[r] \in Refusals \ {"preset_unknown"} /\ body[r].provider = None /\ body[r].model = None
          => pins.provider = None
    BY DEF Served, Answer
  <2>2. ASSUME pc[r] \in {"resolved", "running"}
        PROVE  device \in SupportsDevices(provider) \/ named \cap Providers # {}
    <3>1. provider \in Providers /\ device \in SupportsDevices(selected)
      BY <2>2 DEF Equipped
    <3>2. provider = selected \/ provider \in named
      BY DEF ProviderFor, OrDefault, Pick
    <3>. QED
      BY <3>1, <3>2
  <2>. QED
    BY <2>1, <2>2
<1>. QED
  BY <1>1, ServedHolds, AlwaysEquipped, PTL

\* FR-HW-04 to -06: what startup decided from the environment suits the
\* machine and serves the requests.
THEOREM StartupAlwaysFits == Spec => []StartupFits
<1>1. Decided /\ StartupTypes /\ RegistryValid /\ Served => StartupFits
  <2> SUFFICES ASSUME Decided, StartupTypes, RegistryValid, Served,
                      stage \in {"seeding", "serving"}
               PROVE  StartupFits
    BY DEF StartupFits
  <2>1. env \in Environments /\ SettingsValid
    BY DEF Decided, StartupTypes
  <2>2. /\ device \in Devices /\ device = DetectDevice(env.device, env.host)
        /\ selected = SelectProvider(env.provider, device) /\ selected # None
    BY <2>1, EnvironmentFits DEF Decided
  <2>3. env.device \in Devices => device = env.device
    BY <2>2, ResolutionAssumption DEF DetectDevice, Devices
  <2>4. ASSUME NEW entry \in ToSet(env.preload)
        PROVE  Resolve([preset |-> None, provider |-> entry.provider, model |-> entry.model],
                       registry, selected) = "resolved"
    <3> DEFINE body0 == [preset |-> None, provider |-> entry.provider, model |-> entry.model]
    <3>1. entry.provider \in Providers /\ entry.model \in AllowedModels(entry.provider)
      BY <2>1, <2>4 DEF SettingsValid, PreloadAllowed, ToSet
    <3>2. entry.model \in Models
      BY <3>1, ResolutionAssumption DEF AllowedModels
    <3>3. PresetNamed(body0) \in DOMAIN registry
      BY DEF Served, RegistryValid, Acceptable, PresetNamed
    <3>4. OrDefault(Pick(entry.provider, registry[PresetNamed(body0)].provider), selected)
            = entry.provider
      BY <3>1, ResolutionAssumption DEF OrDefault, Pick
    <3>5. OrDefault(Pick(entry.model, registry[PresetNamed(body0)].model),
                    DefaultModel[entry.provider]) = entry.model
      BY <3>2, ResolutionAssumption DEF OrDefault, Pick
    <3> QED
      BY <3>1, <3>3, <3>4, <3>5 DEF Resolve, ProviderFor
  <2>5. Default(selected) \in ToSet(loaded)
    BY DEF Decided
  <2> QED
    BY <2>2, <2>3, <2>4, <2>5, SelectionFits DEF StartupFits
<1> QED
  BY <1>1, StartupTyped, RegistryAlwaysValid, ServedHolds, PTL

=============================================================================
