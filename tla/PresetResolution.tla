-------------------------- MODULE PresetResolution --------------------------
(***************************************************************************)
(* The pure decisions about presets, providers and models: which device    *)
(* and provider a process runs with, which presets file it accepts, and    *)
(* what provider and model a request gets.  Of the fields of a preset only *)
(* provider and model are kept: the other ones follow the same precedence  *)
(* and have nothing to fail on.                                            *)
(***************************************************************************)
EXTENDS SequencesExt

CONSTANTS
  Names,             \* preset names
  DefaultPreset,     \* TTS_DEFAULT_PRESET
  Models,
  DefaultModel,      \* TTS_<provider>_MODEL_DEFAULT
  ConfiguredModels,  \* TTS_<provider>_MODEL_ALLOWED, {} when it is unset
  None,              \* a field left out
  Blank,             \* a field, or an environment variable, of spaces only
  Unknown,           \* a name that is no provider's
  Malformed          \* a presets file that is missing, unreadable or invalid

Devices == {"mps", "cuda", "cpu"}
Registered == <<"mlx_audio", "voxtral", "vllm-omni">>
Providers == {"mlx_audio", "voxtral", "vllm-omni"}

ASSUME ResolutionAssumption ==
  /\ DefaultPreset \in Names
  /\ DefaultModel \in [Providers -> Models]
  /\ ConfiguredModels \in [Providers -> SUBSET Models]
  /\ None \notin Models \cup Names \cup Providers /\ Blank # None
  /\ Blank \notin Models \cup Providers \cup Devices /\ Unknown \notin Providers \cup {None, Blank}

-----------------------------------------------------------------------------
(* Device and provider, chosen once at startup *)

\* What the host offers: torch with its backends, or a bare Apple machine.
Hosts == [torch : BOOLEAN, mps : BOOLEAN, cuda : BOOLEAN, apple : BOOLEAN]

ProbeDevice(host) ==
  IF host.torch
  THEN IF host.mps THEN "mps" ELSE IF host.cuda THEN "cuda" ELSE "cpu"
  ELSE IF host.apple THEN "mps" ELSE "cpu"

\* TTS_DEVICE names a device, or leaves the choice to the probe.
DetectDevice(requested, host) ==
  IF requested \in {"auto", Blank} THEN ProbeDevice(host) ELSE requested

SupportsDevices(p) == IF p = "vllm-omni" THEN {"cuda"} ELSE {"mps"}

\* The provider registered first of those that support the device.
FirstViable(device) ==
  LET viable == {i \in DOMAIN Registered : device \in SupportsDevices(Registered[i])}
  IN IF viable = {} THEN None
     ELSE Registered[CHOOSE i \in viable : \A j \in viable : i <= j]

\* (faulty: an explicit TTS_PROVIDER is taken as it is)
SelectUnchecked(override, device) ==
  IF override \in {"auto", Blank} THEN FirstViable(device) ELSE override

\* The override if it supports the device, else the first provider
\* registered that does; None when startup must fail.
SelectProvider(override, device) ==
  IF override \in {"auto", Blank} THEN FirstViable(device)
  ELSE IF override \in Providers /\ device \in SupportsDevices(override) THEN override
  ELSE None

\* The allow-list of a provider always has its default.
AllowedModels(p) == ConfiguredModels[p] \cup {DefaultModel[p]}

-----------------------------------------------------------------------------
(* The models loaded at startup *)

Preloads == [provider : Providers \cup {Unknown}, model : Models]

\* Settings refuses an entry that no request could name.
PreloadAllowed(entry) ==
  entry.provider \in Providers /\ entry.model \in AllowedModels(entry.provider)

\* A pair goes through the cache, least recently used first (ModelCache has
\* the whole protocol).
Touch(cache, pair, size) ==
  IF pair \in ToSet(cache)
  THEN Append(RemoveAt(cache, CHOOSE i \in DOMAIN cache : cache[i] = pair), pair)
  ELSE Append(IF Len(cache) = size THEN Tail(cache) ELSE cache, pair)

-----------------------------------------------------------------------------
(* The presets file: the pins of each preset it defines *)

Pins == [provider : Providers \cup {None, Blank, Unknown},
         model : Models \cup {None, Blank}]

\* (faulty: only the provider's name is looked up)
ProviderKnown(pins) == pins.provider \in Providers \cup {None}

\* validate_preset_providers: a pinned provider is registered and allows
\* the model pinned with it; a model pinned alone is not looked at.
PinsAllowed(pins) ==
  \/ pins.provider = None
  \/ /\ pins.provider \in Providers
     /\ pins.model \in AllowedModels(pins.provider) \cup {None}

\* The validation chain that startup and every reload go through.
Acceptable(doc) ==
  /\ doc # Malformed
  /\ DOMAIN doc # {} /\ DefaultPreset \in DOMAIN doc
  /\ \A name \in DOMAIN doc : PinsAllowed(doc[name])

\* At startup the owner and the mode of the file are looked at as well.
AcceptableAtStartup(safe, doc) == safe /\ Acceptable(doc)

-----------------------------------------------------------------------------
(* A request, against a registry and the provider selected at startup *)

Bodies == [preset : Names \cup {None},
           provider : Providers \cup {None, Blank, Unknown},
           model : Models \cup {None, Blank}]

\* /v1/audio/speech: no preset, a model always, perhaps another format.
SpeechBodies == [provider : Providers \cup {None, Blank, Unknown},
                 model : Models \cup {Blank}, wav : BOOLEAN]

Translate(req) == [preset |-> None, provider |-> req.provider, model |-> req.model]

PresetNamed(body) == IF body.preset = None THEN DefaultPreset ELSE body.preset

\* An explicit field wins over the preset, even when it is blank; a blank
\* outcome counts as none and gives way to the default.
Pick(explicit, pinned) == IF explicit = None THEN pinned ELSE explicit
OrDefault(picked, default) == IF picked \in {None, Blank} THEN default ELSE picked

\* The provider named by the request, or else by its preset, or else the one
\* selected at startup.  Only the last was asked whether it supports the device.
ProviderFor(body, pins, selected) == OrDefault(Pick(body.provider, pins.provider), selected)

Resolve(body, registry, selected) ==
  LET pins == registry[PresetNamed(body)]
      provider == ProviderFor(body, pins, selected)
      model == OrDefault(Pick(body.model, pins.model), DefaultModel[provider])
  IN IF PresetNamed(body) \notin DOMAIN registry THEN "preset_unknown"
     ELSE IF provider \notin Providers THEN "provider_unsupported"
     ELSE IF model \notin AllowedModels(provider) THEN "unknown_model"
     ELSE "resolved"
=============================================================================
