---------------------------- MODULE MCVoiceStore ----------------------------
(* Instances of VoiceStore for TLC. *)
EXTENDS VoiceStore, TLC

CONSTANTS r1, r2, w1, BadName

OneWorker == [r \in {r1, r2} |-> w1]

Usual == [object |-> TRUE, audio |-> "readable", transcript |-> "text",
          language |-> "text", number_lang |-> "text", temperature |-> 80,
          top_p |-> 95, target_db |-> -20, sentences |-> 2]

\* At and past each bound, and with each field of the wrong type.
Unusual ==
  {[Usual EXCEPT !.temperature = 200, !.top_p = 100, !.sentences = 1],
   [Usual EXCEPT !.temperature = 0, !.top_p = 1], [Usual EXCEPT !.object = FALSE]}
  \cup {[Usual EXCEPT !.audio = x] : x \in {Other, "empty", "missing", "unreadable"}}
  \cup {[Usual EXCEPT !.transcript = Other], [Usual EXCEPT !.number_lang = Other],
        [Usual EXCEPT !.target_db = Other]}
  \cup {[Usual EXCEPT !.language = x] : x \in {Other, "blank"}}
  \cup {[Usual EXCEPT !.temperature = x] : x \in {Other, -1, 201}}
  \cup {[Usual EXCEPT !.top_p = x] : x \in {Other, 0, 101}}
  \cup {[Usual EXCEPT !.sentences = x] : x \in {Other, 0}}

UsualFiles == {[v \in listed |-> Usual] : listed \in SUBSET Voices}

AllFiles ==
  UsualFiles \cup {NotJson, BadName :> Usual}
  \cup {v :> entry : v \in Voices, entry \in Unusual}
  \cup {[u \in Voices |-> IF u = v THEN entry ELSE Usual] :
          v \in Voices, entry \in {e \in Unusual : ~IngestEntry(e)}}

\* Sound where one worker serves every request and the seed files treat
\* the voices alike.
Interchangeable == Permutations(Requests) \cup Permutations(Voices)
=============================================================================
