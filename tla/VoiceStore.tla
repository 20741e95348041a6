----------------------------- MODULE VoiceStore -----------------------------
(***************************************************************************)
(* The voice store: a metadata repository and a blob repository without a  *)
(* common transaction, written by the CRUD handlers (routers/voices.py)    *)
(* and by seed ingestion (seed_ingestion.py), read by syntheses            *)
(* (_resolve_voice).                                                       *)
(*                                                                         *)
(* An action is one repository call.  Between two calls other tasks of the *)
(* worker run only if one of the two repositories suspends: the file       *)
(* system ones never do (their asyncio.Lock is never contended, since no   *)
(* await stands inside it), Postgres and S3 always.  Tasks of another      *)
(* worker process may run at any time.                                     *)
(***************************************************************************)
EXTENDS SeedFile, FiniteSets, Sequences

CONSTANTS
  SeedFiles,   \* what an operator may put in voice_map.json
  Requests,    \* request slots
  Workers,     \* server processes; each runs one seed ingestor
  WorkerOf,    \* the process that serves each slot
  Deployments, \* the sets of repositories that suspend: "metadata", "blob"
  JsonFile,    \* metadata is one JSON document: load, change, replace
  Faults,
  Nobody

Tasks == Requests \cup Workers
Home(t) == IF t \in Workers THEN t ELSE WorkerOf[t]

ASSUME VoiceStoreAssumption ==
  /\ WorkerOf \in [Requests -> Workers]
  /\ Requests \cap Workers = {} /\ Nobody \notin Tasks \cup Voices
  /\ Deployments \subseteq SUBSET {"metadata", "blob"}
  /\ JsonFile \in BOOLEAN
  /\ JsonFile => \A suspends \in Deployments : "metadata" \notin suspends
  /\ Faults \subseteq {"crash", "put_fails", "rollback_fails", "read_fails"}

VARIABLES
  records,   \* the source of each voice's record, or Absent
  blobs,     \* whose audio is stored for each voice, or Absent
  pc,        \* the call each task makes next
  voice,     \* the voice it is about
  got,       \* the source in the record it has read
  view,      \* the JSON document it has loaded and not yet replaced
  file,      \* what the ingestion pass of each worker has taken in
  todo,      \* those it has not looked at yet
  turn,      \* the task that has not suspended since it last ran
  serving,   \* the workers whose lifespan startup is complete
  torn,      \* history: voices whose create was cut between its two writes
  suspending \* the repositories that suspend in this deployment; constant

vars == <<records, blobs, pc, voice, got, view, file, todo, turn, serving, torn,
          suspending>>
pass == <<file, todo>>

Absent == "absent"
Sources == {"crud", "seed"}
NotLoaded == << >>

MetadataCalls == {"create", "rollback", "get", "update", "delete", "read",
                  "check", "seed_create"}
BlobCalls == {"put_new", "replace", "drop", "load_audio", "seed_put"}
WriteCalls == {"create", "rollback", "update", "delete", "seed_create"}

Init ==
  /\ records = [v \in Voices |-> Absent]
  /\ blobs = [v \in Voices |-> Absent]
  /\ pc = [t \in Tasks |-> "idle"]
  /\ voice = [t \in Tasks |-> Nobody]
  /\ got = [t \in Tasks |-> Absent]
  /\ view = [t \in Tasks |-> NotLoaded]
  /\ file = [w \in Workers |-> NoEntries]
  /\ todo = [w \in Workers |-> {}]
  /\ turn = [w \in Workers |-> Nobody]
  /\ serving = {}
  /\ torn = {}
  /\ suspending \in Deployments

-----------------------------------------------------------------------------
MayRun(t) == turn[Home(t)] \in {Nobody, t}

At(t, call) == pc[t] = call /\ MayRun(t)

SuspendsAround(from, to) ==
  \/ {from, to} \cap BlobCalls # {} /\ "blob" \in suspending
  \/ {from, to} \cap MetadataCalls # {} /\ "metadata" \in suspending

\* The task goes on to its next call, at once or after a suspension.
Goto(t, call) ==
  /\ pc' = [pc EXCEPT ![t] = call]
  /\ turn' = [turn EXCEPT ![Home(t)] =
       IF call = "idle" \/ SuspendsAround(pc[t], call) THEN Nobody ELSE t]

\* The handler returns or raises.
Finish(t) ==
  /\ Goto(t, "idle")
  /\ voice' = [voice EXCEPT ![t] = Nobody]
  /\ got' = [got EXCEPT ![t] = Absent]

\* (faulty: the document is read with an await outside the lock)
LoadAndSuspend(t) ==
  /\ JsonFile /\ pc[t] \in WriteCalls /\ MayRun(t)
  /\ view[t] = NotLoaded
  /\ view' = [view EXCEPT ![t] = records]
  /\ turn' = [turn EXCEPT ![Home(t)] = Nobody]
  /\ UNCHANGED <<records, blobs, pc, voice, got, pass, serving, torn>>

\* FsJsonMetadataRepository: _load_all, the first half of every write.
Load(t) ==
  /\ JsonFile /\ pc[t] \in WriteCalls /\ MayRun(t)
  /\ view[t] = NotLoaded
  /\ view' = [view EXCEPT ![t] = records]
  /\ turn' = [turn EXCEPT ![Home(t)] = t]
  /\ UNCHANGED <<records, blobs, pc, voice, got, pass, serving, torn>>

\* What a writing call sees: the document it loaded, or the table's row.
Document(t) == IF JsonFile THEN view[t] ELSE records

\* The call itself, in its second half where there is a first.
Writes(t, call) == At(t, call) /\ (JsonFile => view[t] # NotLoaded)

\* os.replace of the whole document, or the commit of one row.
Store(t, source) ==
  /\ records' = [Document(t) EXCEPT ![voice[t]] = source]
  /\ view' = [view EXCEPT ![t] = NotLoaded]

\* The call raises: nothing is written.
Discard(t) ==
  /\ view' = [view EXCEPT ![t] = NotLoaded]
  /\ UNCHANGED records

Put(t, source) == blobs' = [blobs EXCEPT ![voice[t]] = source]

-----------------------------------------------------------------------------
(* CRUD handlers and readers *)

Start(r) ==
  /\ At(r, "idle") /\ Home(r) \in serving
  /\ \E v \in Voices : voice' = [voice EXCEPT ![r] = v]
  /\ \E call \in {"create", "get", "delete", "read"} : Goto(r, call)
  /\ UNCHANGED <<records, blobs, got, view, pass, serving, torn>>

\* create_voice: repo.create, 409 if the id is taken
CreateRecord(r) ==
  /\ Writes(r, "create")
  /\ \/ /\ Document(r)[voice[r]] = Absent
        /\ Store(r, "crud")
        /\ Goto(r, "put_new")
        /\ UNCHANGED <<voice, got>>
     \/ /\ Document(r)[voice[r]] # Absent
        /\ Discard(r)
        /\ Finish(r)
  /\ UNCHANGED <<blobs, pass, serving, torn>>

\* (faulty: a failed put is reported without undoing the record)
PutNewWithoutRollback(r) ==
  /\ At(r, "put_new")
  /\ \/ Put(r, "crud")
     \/ "put_fails" \in Faults /\ UNCHANGED blobs
  /\ Finish(r)
  /\ UNCHANGED <<records, view, pass, serving, torn>>

\* ... blob_repo.put; if it raises, the record is taken back.
PutNew(r) ==
  /\ At(r, "put_new")
  /\ \/ /\ Put(r, "crud")
        /\ Finish(r)
     \/ /\ "put_fails" \in Faults
        /\ Goto(r, "rollback")
        /\ UNCHANGED <<blobs, voice, got>>
  /\ UNCHANGED <<records, view, pass, serving, torn>>

\* ... repo.delete, best effort
Rollback(r) ==
  /\ Writes(r, "rollback")
  /\ \/ /\ Document(r)[voice[r]] # Absent
        /\ Store(r, Absent)
        /\ UNCHANGED torn
     \/ /\ Document(r)[voice[r]] = Absent
        /\ Discard(r)
        /\ UNCHANGED torn
     \/ /\ "rollback_fails" \in Faults
        /\ Discard(r)
        /\ torn' = torn \cup {voice[r]}
  /\ Finish(r)
  /\ UNCHANGED <<blobs, pass, serving>>

\* (faulty: a missing record is not noticed)
GetUnchecked(r) ==
  /\ At(r, "get")
  /\ got' = [got EXCEPT ![r] = records[voice[r]]]
  /\ \E call \in {"replace", "update"} : Goto(r, call)
  /\ UNCHANGED <<records, blobs, voice, view, pass, serving, torn>>

\* update_voice: repo.get; new audio is optional
GetExisting(r) ==
  /\ At(r, "get")
  /\ \/ /\ records[voice[r]] # Absent
        /\ got' = [got EXCEPT ![r] = records[voice[r]]]
        /\ \E call \in {"replace", "update"} : Goto(r, call)
        /\ UNCHANGED voice
     \/ /\ records[voice[r]] = Absent
        /\ Finish(r)
  /\ UNCHANGED <<records, blobs, view, pass, serving, torn>>

ReplaceBlob(r) ==
  /\ At(r, "replace")
  /\ \/ /\ Put(r, "crud")
        /\ Goto(r, "update")
        /\ UNCHANGED <<voice, got>>
     \/ /\ "put_fails" \in Faults
        /\ Finish(r)
        /\ UNCHANGED blobs
  /\ UNCHANGED <<records, view, pass, serving, torn>>

\* (faulty: an upsert)
UpsertRecord(r) ==
  /\ Writes(r, "update")
  /\ Store(r, got[r])
  /\ Finish(r)
  /\ UNCHANGED <<blobs, pass, serving, torn>>

\* ... repo.update with the source read before; VoiceNotFoundError escapes.
UpdateRecord(r) ==
  /\ Writes(r, "update")
  /\ \/ /\ Document(r)[voice[r]] # Absent
        /\ Store(r, got[r])
     \/ /\ Document(r)[voice[r]] = Absent
        /\ Discard(r)
  /\ Finish(r)
  /\ UNCHANGED <<blobs, pass, serving, torn>>

\* (faulty: the audio is deleted before the record)
DropBlobFirst(r) ==
  /\ Writes(r, "delete")
  /\ blobs' = [blobs EXCEPT ![voice[r]] = Absent]
  /\ Discard(r)
  /\ Finish(r)
  /\ UNCHANGED <<pass, serving, torn>>

\* delete_voice: repo.delete
DeleteRecord(r) ==
  /\ Writes(r, "delete")
  /\ \/ /\ Document(r)[voice[r]] # Absent
        /\ Store(r, Absent)
        /\ Goto(r, "drop")
        /\ UNCHANGED <<voice, got>>
     \/ /\ Document(r)[voice[r]] = Absent
        /\ Discard(r)
        /\ Finish(r)
  /\ UNCHANGED <<blobs, pass, serving, torn>>

\* ... blob_repo.exists and delete; a missing blob is ignored.  A put
\* between the two calls is deleted like one before them.
DropBlob(r) ==
  /\ At(r, "drop")
  /\ Put(r, Absent)
  /\ Finish(r)
  /\ UNCHANGED <<records, view, pass, serving, torn>>

\* _resolve_voice and get_voice_audio: the record, then the audio
ReadRecord(r) ==
  /\ At(r, "read")
  /\ \/ /\ records[voice[r]] # Absent
        /\ got' = [got EXCEPT ![r] = records[voice[r]]]
        /\ Goto(r, "load_audio")
        /\ UNCHANGED voice
     \/ /\ records[voice[r]] = Absent
        /\ Finish(r)
  /\ UNCHANGED <<records, blobs, view, pass, serving, torn>>

ReadBlob(r) ==
  /\ At(r, "load_audio")
  /\ Finish(r)
  /\ UNCHANGED <<records, blobs, view, pass, serving, torn>>

-----------------------------------------------------------------------------
(* VoiceSeedIngestor.ingest_once, at startup and on every change of the    *)
(* seed file.                                                              *)

\* The file is parsed and validated as a whole; one that is refused leaves
\* an empty pass, like one that is missing.  (At startup Settings() has
\* accepted the file before, possibly an earlier version of it.)
IngestBegin(w) ==
  /\ At(w, "idle")
  /\ \E document \in SeedFiles :
       LET entries == IF IngestAccepts(document) THEN document ELSE NoEntries IN
       /\ file' = [file EXCEPT ![w] = entries]
       /\ todo' = [todo EXCEPT ![w] = DOMAIN entries]
  /\ Goto(w, "check")
  /\ UNCHANGED <<records, blobs, voice, got, view, serving, torn>>

\* metadata_repo.exists(voice_id): known voices are skipped.
CheckSeed(w) ==
  /\ At(w, "check")
  /\ \E v \in todo[w] :
       /\ todo' = [todo EXCEPT ![w] = @ \ {v}]
       /\ voice' = [voice EXCEPT ![w] = v]
       /\ Goto(w, IF records[v] # Absent THEN "check" ELSE "seed_put")
  /\ UNCHANGED <<records, blobs, got, view, file, serving, torn>>

\* The pass is over, and at startup so is the lifespan's.
EndPass(w) ==
  /\ Finish(w)
  /\ file' = [file EXCEPT ![w] = NoEntries]
  /\ todo' = [todo EXCEPT ![w] = {}]

\* (faulty: an entry whose audio cannot be read is passed over)
SeedPutOrSkip(w) ==
  /\ At(w, "seed_put")
  /\ \/ /\ Put(w, "seed")
        /\ Goto(w, "seed_create")
     \/ /\ "read_fails" \in Faults
        /\ Goto(w, "check")
        /\ UNCHANGED blobs
  /\ UNCHANGED <<records, voice, got, view, pass, serving, torn>>

\* read_bytes and blob_repo.put: a failing read returns from the pass, a
\* failing put escapes from it (and from a startup, which is then retried).
SeedPut(w) ==
  /\ At(w, "seed_put")
  /\ \/ /\ Put(w, "seed")
        /\ Goto(w, "seed_create")
        /\ UNCHANGED <<voice, got, pass, serving>>
     \/ /\ "read_fails" \in Faults
        /\ EndPass(w)
        /\ serving' = serving \cup {w}
        /\ UNCHANGED blobs
     \/ /\ "put_fails" \in Faults
        /\ EndPass(w)
        /\ UNCHANGED <<blobs, serving>>
  /\ UNCHANGED <<records, view, torn>>

\* metadata_repo.create; VoiceAlreadyExistsError escapes.
SeedCreate(w) ==
  /\ Writes(w, "seed_create")
  /\ \/ /\ Document(w)[voice[w]] = Absent
        /\ Store(w, "seed")
        /\ Goto(w, "check")
        /\ UNCHANGED <<voice, got, pass>>
     \/ /\ Document(w)[voice[w]] # Absent
        /\ Discard(w)
        /\ EndPass(w)
  /\ UNCHANGED <<blobs, serving, torn>>

IngestEnd(w) ==
  /\ At(w, "check") /\ todo[w] = {}
  /\ EndPass(w)
  /\ serving' = serving \cup {w}
  /\ UNCHANGED <<records, blobs, view, torn>>

\* The worker process dies; what the repositories hold survives.
Crash(w) ==
  LET mine == {t \in Tasks : Home(t) = w} IN
  /\ "crash" \in Faults
  /\ torn' = torn \cup {voice[t] : t \in {u \in mine : pc[u] \in {"put_new", "rollback"}}}
  /\ pc' = [t \in Tasks |-> IF t \in mine THEN "idle" ELSE pc[t]]
  /\ voice' = [t \in Tasks |-> IF t \in mine THEN Nobody ELSE voice[t]]
  /\ got' = [t \in Tasks |-> IF t \in mine THEN Absent ELSE got[t]]
  /\ view' = [t \in Tasks |-> IF t \in mine THEN NotLoaded ELSE view[t]]
  /\ file' = [file EXCEPT ![w] = NoEntries]
  /\ todo' = [todo EXCEPT ![w] = {}]
  /\ turn' = [turn EXCEPT ![w] = Nobody]
  /\ serving' = serving \ {w}
  /\ UNCHANGED <<records, blobs>>

-----------------------------------------------------------------------------
Handler(r) ==
  \/ Start(r) \/ CreateRecord(r) \/ PutNew(r) \/ Rollback(r)
  \/ GetExisting(r) \/ ReplaceBlob(r) \/ UpdateRecord(r)
  \/ DeleteRecord(r) \/ DropBlob(r) \/ ReadRecord(r) \/ ReadBlob(r)

Ingestion(w) ==
  IngestBegin(w) \/ CheckSeed(w) \/ SeedPut(w) \/ SeedCreate(w) \/ IngestEnd(w)

Next ==
  /\ \/ \E t \in Tasks : Load(t)
     \/ \E r \in Requests : Handler(r)
     \/ \E w \in Workers : Ingestion(w) \/ Crash(w)
  /\ UNCHANGED suspending

Spec == Init /\ [][Next]_vars
-----------------------------------------------------------------------------
(* Properties *)

\* Type invariant; a busy task has a voice, and a loaded document is the
\* one a write is about to replace.
StoreTypeOK ==
  /\ records \in [Voices -> Sources \cup {Absent}]
  /\ blobs \in [Voices -> Sources \cup {Absent}]
  /\ pc \in [Tasks -> {"idle"} \cup MetadataCalls \cup BlobCalls]
  /\ voice \in [Tasks -> Voices \cup {Nobody}]
  /\ got \in [Tasks -> Sources \cup {Absent}]
  /\ view \in [Tasks -> [Voices -> Sources \cup {Absent}] \cup {NotLoaded}]
  /\ file \in [Workers -> SeedFiles \cup {NoEntries}]
  /\ \A w \in Workers : DOMAIN file[w] \subseteq Voices
  /\ todo \in [Workers -> SUBSET Voices]
  /\ \A w \in Workers : todo[w] \subseteq DOMAIN file[w]
  /\ turn \in [Workers -> Tasks \cup {Nobody}]
  /\ serving \subseteq Workers /\ torn \subseteq Voices
  /\ suspending \in Deployments
  /\ \A t \in Tasks :
       /\ pc[t] = "idle" => voice[t] = Nobody
       /\ voice[t] = Nobody => pc[t] \in {"idle", "check"}
       /\ view[t] # NotLoaded => JsonFile /\ pc[t] \in WriteCalls
       /\ pc[t] \in {"update", "replace", "load_audio"} => got[t] # Absent

Creating(v) == \E t \in Tasks : voice[t] = v /\ pc[t] \in {"put_new", "rollback"}

\* The comments of create_voice (rollback) and update_voice (blob first):
\* a record without audio is one whose create is still under way, or was
\* cut between its two writes by a crash or a failing rollback.  Seeded
\* voices, stored audio first, never lack it, whenever the process dies.
\* (Of the default deployment, whose repositories never suspend.)
RecordsHaveAudio ==
  suspending = {} => \A v \in Voices :
    records[v] # Absent /\ blobs[v] = Absent =>
      records[v] = "crud" /\ (v \in torn \/ Creating(v))

\* FR-VS-10: a synthesis that has found its voice finds its audio, and for
\* a CRUD voice audio that was uploaded for it, not a leftover seed.  (Of
\* the default deployment.)
VoiceResolves ==
  suspending = {} => \A t \in Tasks : pc[t] = "load_audio" =>
    /\ got[t] = "crud" => blobs[voice[t]] = "crud" \/ voice[t] \in torn
    /\ got[t] = "seed" => blobs[voice[t]] # Absent

\* seed_ingestion.py: CRUD-created voices are never touched by ingestion;
\* once its create is complete, such a voice keeps its uploaded audio.  (The
\* README says the opposite, that an edit of the seed file overwrites a CRUD
\* voice; what the code does to one is neither.)
SeedLeavesCrudAlone ==
  [][\A v \in Voices :
       records[v] = "crud" /\ ~Creating(v) /\ blobs'[v] = "seed" =>
         blobs[v] = "seed"]_vars

\* FR-VM-01 and -03: while a pass goes on, every entry it has dealt with is
\* in the store; a pass that cannot store one does not pass over it.  (Of
\* the default deployment: elsewhere a delete may overtake the pass.)
PassCoversFile ==
  suspending = {} => \A w \in Workers : pc[w] = "check" =>
    \A v \in DOMAIN file[w] \ todo[w] : records[v] # Absent

\* The two validations of the seed file agree where it matters: a file that
\* a pass of a running server takes in, and goes on to store, is one that
\* the next start of the process (after a crash in the middle of the pass,
\* say) does not refuse.
IngestedFilesRestart == \A w \in Workers : StartupAccepts(file[w])

\* A record disappears only through a delete or a rollback of that voice:
\* a document replaced as a whole never takes another change back.
NoLostRecord ==
  [][\A v \in Voices : records[v] # Absent /\ records'[v] = Absent =>
       \E t \in Tasks : voice[t] = v /\ pc[t] \in {"delete", "rollback"}]_vars

\* An update that has read its record before a delete does not bring the
\* voice back: records appear only through a create.
NoResurrection ==
  [][\A v \in Voices : records[v] = Absent /\ records'[v] # Absent =>
       \E t \in Tasks : voice[t] = v /\ pc[t] \in {"create", "seed_create"}]_vars
=============================================================================
