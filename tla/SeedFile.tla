------------------------------ MODULE SeedFile ------------------------------
(***************************************************************************)
(* voice_map.json is validated twice: by Settings(), where a file that is  *)
(* refused keeps the process from starting (config.py), and by every       *)
(* ingestion pass, which a file that is refused leaves without entries     *)
(* (seed_ingestion.py).  The two checks are written out independently.     *)
(*                                                                         *)
(* A document maps names to entries; an entry's fields are what            *)
(* body.get(...) leaves, Other where the type is wrong.  Temperatures and  *)
(* top_p are in hundredths.                                                *)
(***************************************************************************)
EXTENDS Integers

CONSTANTS
  Voices,   \* the names that VOICE_ID_REGEX matches
  NotJson,  \* a file that is no JSON object
  Other

ASSUME SeedFileAssumption == Other \notin Int /\ NotJson # << >>

NoEntries == << >>

Entry == [object : BOOLEAN, audio : {Other, "empty", "missing", "unreadable", "readable"},
          transcript : {Other, "text"}, language : {Other, "blank", "text"},
          number_lang : {Other, "text"}, temperature : Int \cup {Other},
          top_p : Int \cup {Other}, target_db : Int \cup {Other},
          sentences : Int \cup {Other}]

\* (faulty: the bounds of top_p are forgotten)
IngestEntryLoosely(e) ==
  /\ e.object
  /\ e.audio = "readable"
  /\ Other \notin {e.transcript, e.number_lang, e.temperature, e.top_p, e.target_db, e.sentences}
  /\ e.language = "text" /\ e.sentences >= 1
  /\ 0 <= e.temperature /\ e.temperature <= 200

\* _validate_entry
IngestEntry(e) ==
  /\ e.object
  /\ e.audio \notin {Other, "empty"}
  /\ e.transcript # Other
  /\ e.language \notin {Other, "blank"}
  /\ e.number_lang # Other
  /\ e.temperature # Other /\ 0 <= e.temperature /\ e.temperature <= 200
  /\ e.top_p # Other /\ 0 < e.top_p /\ e.top_p <= 100
  /\ e.target_db # Other
  /\ e.sentences # Other /\ e.sentences >= 1
  /\ e.audio \notin {"missing", "unreadable"}

\* _parse_and_validate: the first bad name or entry voids the whole file.
IngestAccepts(document) ==
  /\ document # NotJson
  /\ DOMAIN document \subseteq Voices
  /\ \A v \in DOMAIN document : IngestEntry(document[v])

\* Settings._parse_voice_entry: the audio need only be named.
StartupEntry(e) ==
  /\ e.object
  /\ e.audio # Other
  /\ e.language \notin {Other, "blank"}
  /\ e.transcript # Other
  /\ e.number_lang # Other
  /\ Other \notin {e.temperature, e.top_p, e.target_db, e.sentences}
  /\ e.sentences >= 1
  /\ 0 <= e.temperature /\ e.temperature <= 200
  /\ 0 < e.top_p /\ e.top_p <= 100

\* Settings._load_voice_map_from_file: any name will do.
StartupAccepts(document) ==
  document # NotJson /\ \A v \in DOMAIN document : StartupEntry(document[v])
=============================================================================
