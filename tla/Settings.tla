------------------------------ MODULE Settings ------------------------------
(***************************************************************************)
(* Settings(): what the environment variables with numbers and choices     *)
(* make of themselves, or why a process refuses them (config.py).  A       *)
(* variable is unset (None), Blank, Junk (not a number, not a choice) or   *)
(* has a value; a setting that is refused is Junk.                         *)
(***************************************************************************)
EXTENDS PresetResolution, Integers

CONSTANT Junk

ASSUME SettingsAssumption == {None, Blank, Junk} \cap Int = {} /\ Junk \notin {None, Blank}

Raw == Int \cup {None, Blank, Junk}
Knobs == [chars : Raw, concurrent : Raw, queue : Raw, cache : Raw, drain : Raw, floor : Raw,
          upload : Raw, timeout : Raw,
          metadata : {"fs_json", "postgres", None, Blank, Junk}, dsn : {"dsn", None, Blank},
          blob : {"fs", "s3", None, Blank, Junk}, bucket : {"bucket", None, Blank}]

LoadInt(raw, default, minimum) ==
  IF raw \in {None, Blank} THEN default
  ELSE IF raw = Junk \/ raw < minimum THEN Junk ELSE raw

\* The two that _load_tts_limits reads have no default for a blank.
LoadMaxChars(raw) ==
  IF raw = None THEN 4096 ELSE IF raw \in {Blank, Junk} \/ raw < 256 THEN Junk ELSE raw

\* (faulty: the number is taken as it is)
LoadConcurrentAsGiven(raw) ==
  IF raw = None THEN 1 ELSE IF raw \in {Blank, Junk} THEN Junk ELSE raw

LoadConcurrent(raw) ==
  IF raw = None THEN 1 ELSE IF raw \in {Blank, Junk} THEN Junk ELSE IF raw < 1 THEN 1 ELSE raw

LoadTimeout(raw) ==
  IF raw \in {None, Blank} THEN None ELSE IF raw = Junk \/ raw <= 0 THEN Junk ELSE raw

LoadChoice(raw, default) == IF raw \in {None, Blank} THEN default ELSE raw
LoadName(raw) == IF raw = Blank THEN None ELSE raw

LoadSettings(knobs) ==
  [chars |-> LoadMaxChars(knobs.chars), concurrent |-> LoadConcurrent(knobs.concurrent),
   queue |-> LoadInt(knobs.queue, 8, 0), cache |-> LoadInt(knobs.cache, 1, 1),
   drain |-> LoadInt(knobs.drain, 30, 0), floor |-> LoadInt(knobs.floor, 4, 0),
   upload |-> LoadInt(knobs.upload, 10485760, 1), timeout |-> LoadTimeout(knobs.timeout),
   metadata |-> LoadChoice(knobs.metadata, "fs_json"), dsn |-> LoadName(knobs.dsn),
   blob |-> LoadChoice(knobs.blob, "fs"), bucket |-> LoadName(knobs.bucket)]

\* Settings() raises for anything that is refused; not for a missing DSN,
\* which build_voice_metadata_repo finds, with the models loaded.
Usable(settings) ==
  /\ \A field \in DOMAIN settings : settings[field] # Junk
  /\ settings.blob = "s3" => settings.bucket # None

MetadataBuildable(settings) == settings.metadata = "postgres" => settings.dsn # None
=============================================================================
