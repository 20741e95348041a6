-------------------------- MODULE VoiceStoreProofs --------------------------
(***************************************************************************)
(* Theorems about the voice store, for any number of voices, requests and  *)
(* worker processes, any seed files, any deployment and every fault.       *)
(***************************************************************************)
EXTENDS VoiceStore, TLAPS

Stored == Sources \cup {Absent}
Steps == {"idle"} \cup MetadataCalls \cup BlobCalls

\* What StoreTypeOK says of one task.
TaskOK(t) ==
  /\ pc[t] \in Steps /\ voice[t] \in Voices \cup {Nobody} /\ got[t] \in Stored
  /\ view[t] \in [Voices -> Stored] \cup {NotLoaded}
  /\ pc[t] = "idle" => voice[t] = Nobody
  /\ voice[t] = Nobody => pc[t] \in {"idle", "check"}
  /\ view[t] # NotLoaded => JsonFile /\ pc[t] \in WriteCalls
  /\ pc[t] \in {"update", "replace", "load_audio"} => got[t] # Absent

\* Every task's home is a worker.
LEMMA HomeIsWorker == \A t \in Tasks : Home(t) \in Workers
  BY VoiceStoreAssumption DEF Home, Tasks

\* A call that goes on leaves the program counters and turns well-typed.
LEMMA GotoKeepsTypes ==
  ASSUME NEW t \in Tasks, NEW call \in Steps, StoreTypeOK, Goto(t, call)
  PROVE  /\ pc' \in [Tasks -> Steps] /\ pc'[t] = call
         /\ \A u \in Tasks \ {t} : pc'[u] = pc[u]
         /\ turn' \in [Workers -> Tasks \cup {Nobody}]
  BY HomeIsWorker DEF Goto, StoreTypeOK, Steps

\* ... and the end of a handler frees its task.
LEMMA FinishKeepsTypes ==
  ASSUME NEW t \in Tasks, StoreTypeOK, Finish(t)
  PROVE  /\ pc' \in [Tasks -> Steps] /\ pc'[t] = "idle"
         /\ voice' \in [Tasks -> Voices \cup {Nobody}] /\ voice'[t] = Nobody
         /\ got' \in [Tasks -> Stored]
         /\ \A u \in Tasks \ {t} : pc'[u] = pc[u] /\ voice'[u] = voice[u] /\ got'[u] = got[u]
         /\ turn' \in [Workers -> Tasks \cup {Nobody}]
<1>1. "idle" \in Steps
  BY DEF Steps
<1>2. Goto(t, "idle")
  BY DEF Finish
<1>3. /\ pc' \in [Tasks -> Steps] /\ pc'[t] = "idle"
      /\ \A u \in Tasks \ {t} : pc'[u] = pc[u]
      /\ turn' \in [Workers -> Tasks \cup {Nobody}]
  BY <1>1, <1>2, GotoKeepsTypes
<1>. QED
  BY <1>3 DEF Finish, StoreTypeOK, Stored

\* A write replaces the records by well-typed ones, and forgets the document.
LEMMA StoreKeepsTypes ==
  ASSUME NEW t \in Tasks, NEW call \in WriteCalls, NEW source \in Stored,
         StoreTypeOK, Writes(t, call), Store(t, source)
  PROVE  /\ records' \in [Voices -> Stored]
         /\ view' \in [Tasks -> [Voices -> Stored] \cup {NotLoaded}]
         /\ view'[t] = NotLoaded
         /\ \A u \in Tasks \ {t} : view'[u] = view[u]
<1>1. Document(t) \in [Voices -> Stored]
  BY DEF Writes, Document, StoreTypeOK, Stored
<1>. QED
  BY <1>1 DEF Store, StoreTypeOK, Stored

\* ... and a call that raises leaves the records.
LEMMA DiscardKeepsTypes ==
  ASSUME NEW t \in Tasks, StoreTypeOK, Discard(t)
  PROVE  /\ records' \in [Voices -> Stored]
         /\ view' \in [Tasks -> [Voices -> Stored] \cup {NotLoaded}]
         /\ view'[t] = NotLoaded
         /\ \A u \in Tasks \ {t} : view'[u] = view[u]
  BY DEF Discard, StoreTypeOK, Stored

\* Audio is stored under a voice.
LEMMA PutKeepsTypes ==
  ASSUME NEW t \in Tasks, NEW source \in Stored, StoreTypeOK, Put(t, source)
  PROVE  blobs' \in [Voices -> Stored]
  BY DEF Put, StoreTypeOK, Stored

-----------------------------------------------------------------------------
(* Type correctness.                                                       *)

PassOK ==
  /\ file \in [Workers -> SeedFiles \cup {NoEntries}] /\ todo \in [Workers -> SUBSET Voices]
  /\ \A w \in Workers : DOMAIN file[w] \subseteq Voices /\ todo[w] \subseteq DOMAIN file[w]

\* One task moves; the others stay as they are.
LEMMA OneTaskMoves ==
  ASSUME NEW t \in Tasks, StoreTypeOK,
         records' \in [Voices -> Stored], blobs' \in [Voices -> Stored],
         pc' \in [Tasks -> Steps], voice' \in [Tasks -> Voices \cup {Nobody}],
         got' \in [Tasks -> Stored],
         view' \in [Tasks -> [Voices -> Stored] \cup {NotLoaded}],
         turn' \in [Workers -> Tasks \cup {Nobody}],
         serving' \subseteq Workers, torn' \subseteq Voices, suspending' = suspending,
         PassOK', TaskOK(t)',
         \A u \in Tasks \ {t} : /\ pc'[u] = pc[u] /\ voice'[u] = voice[u]
                                /\ got'[u] = got[u] /\ view'[u] = view[u]
  PROVE  StoreTypeOK'
BY DEF StoreTypeOK, TaskOK, PassOK, Stored, Steps

\* What the type invariant says of a task and of a pass.
LEMMA TypesOfATask ==
  ASSUME StoreTypeOK
  PROVE  PassOK /\ \A t \in Tasks : TaskOK(t)
BY DEF StoreTypeOK, TaskOK, PassOK, Stored, Steps

\* A handler that ends, whatever it has done to the store.
LEMMA EndsWell ==
  ASSUME NEW t \in Tasks, StoreTypeOK, Finish(t), PassOK',
         records' \in [Voices -> Stored], blobs' \in [Voices -> Stored],
         view' \in [Tasks -> [Voices -> Stored] \cup {NotLoaded}], view'[t] = NotLoaded,
         \A u \in Tasks \ {t} : view'[u] = view[u],
         serving' \subseteq Workers, torn' \subseteq Voices, suspending' = suspending
  PROVE  StoreTypeOK'
<1>1. TaskOK(t)'
  BY FinishKeepsTypes DEF TaskOK, Steps
<1>2. QED
  BY <1>1, FinishKeepsTypes, OneTaskMoves

\* ... and one that goes on with the same voice.
LEMMA GoesOnWell ==
  ASSUME NEW t \in Tasks, NEW call \in MetadataCalls \cup BlobCalls,
         StoreTypeOK, Goto(t, call), PassOK',
         call # "check" => voice[t] # Nobody, voice' = voice,
         got' \in [Tasks -> Stored], \A u \in Tasks \ {t} : got'[u] = got[u],
         call \in {"update", "replace", "load_audio"} => got'[t] # Absent,
         records' \in [Voices -> Stored], blobs' \in [Voices -> Stored],
         view' \in [Tasks -> [Voices -> Stored] \cup {NotLoaded}], view'[t] = NotLoaded,
         \A u \in Tasks \ {t} : view'[u] = view[u],
         serving' \subseteq Workers, torn' \subseteq Voices, suspending' = suspending
  PROVE  StoreTypeOK'
<1>1. call \in Steps /\ call # "idle"
  BY DEF Steps, MetadataCalls, BlobCalls
<1>2. TaskOK(t)'
  BY <1>1, GotoKeepsTypes DEF TaskOK, StoreTypeOK, Stored
<1>. QED
  BY <1>1, <1>2, GotoKeepsTypes, OneTaskMoves DEF StoreTypeOK, Stored

\* What a task at a call of its handler is known to be.
LEMMA AtACall ==
  ASSUME StoreTypeOK, NEW t \in Tasks
  PROVE  /\ pc[t] \notin {"idle", "check"} => voice[t] \in Voices
         /\ pc[t] \notin WriteCalls => view[t] = NotLoaded
         /\ voice[t] \in Voices => voice[t] # Nobody
         /\ pc[t] = "replace" => got[t] # Absent
         /\ PassOK /\ records \in [Voices -> Stored] /\ blobs \in [Voices -> Stored]
         /\ got \in [Tasks -> Stored] /\ voice \in [Tasks -> Voices \cup {Nobody}]
         /\ view \in [Tasks -> [Voices -> Stored] \cup {NotLoaded}]
         /\ serving \subseteq Workers /\ torn \subseteq Voices
         /\ Absent \in Stored /\ "crud" \in Stored /\ "seed" \in Stored
BY TypesOfATask, VoiceStoreAssumption DEF StoreTypeOK, Stored, Sources, Tasks

\* Every step of a request's handler keeps the types.
LEMMA HandlersKeepTypes ==
  ASSUME StoreTypeOK, NEW r \in Requests, Handler(r), UNCHANGED suspending
  PROVE  StoreTypeOK'
<1>. r \in Tasks
  BY DEF Tasks
<1>. USE AtACall
<1>a. PassOK /\ (UNCHANGED pass => PassOK')
  BY DEF PassOK, pass
<1>1. CASE Start(r)
  <2>1. PICK v \in Voices : voice' = [voice EXCEPT ![r] = v]
    BY <1>1 DEF Start
  <2>2. PICK call \in {"create", "get", "delete", "read"} : Goto(r, call)
    BY <1>1 DEF Start
  <2>3. call \in Steps
    BY <2>2 DEF Steps, MetadataCalls
  <2>4. TaskOK(r)'
    BY <1>1, <2>1, <2>2, <2>3, GotoKeepsTypes, VoiceStoreAssumption
       DEF Start, At, TaskOK, StoreTypeOK, Stored, WriteCalls
  <2>. QED
    BY <1>1, <1>a, <2>1, <2>2, <2>3, <2>4, GotoKeepsTypes, OneTaskMoves
       DEF Start, StoreTypeOK, Stored
<1>2. CASE CreateRecord(r)
  <2>1. pc[r] = "create" /\ voice[r] \in Voices
    BY <1>2 DEF CreateRecord, At, Writes
  <2>2. Writes(r, "create") /\ "create" \in WriteCalls
    BY <1>2 DEF CreateRecord, WriteCalls
  <2>3. CASE Finish(r)
    BY <1>2, <1>a, <2>1, <2>2, <2>3, StoreKeepsTypes, DiscardKeepsTypes, EndsWell
       DEF CreateRecord, pass
  <2>4. CASE ~Finish(r)
    <3>1. "put_new" \in MetadataCalls \cup BlobCalls /\ Goto(r, "put_new")
      BY <1>2, <2>4 DEF CreateRecord, MetadataCalls, BlobCalls
    <3>. QED
      BY <1>2, <1>a, <2>1, <2>2, <2>4, <3>1, StoreKeepsTypes, DiscardKeepsTypes,
       GoesOnWell DEF CreateRecord, pass
  <2>. QED
    BY <2>3, <2>4
<1>3. CASE PutNew(r)
  <2>1. pc[r] = "put_new" /\ voice[r] \in Voices /\ view[r] = NotLoaded
    BY <1>3 DEF PutNew, At, WriteCalls
  <2>3. CASE Finish(r)
    BY <1>3, <1>a, <2>1, <2>3, PutKeepsTypes, EndsWell DEF PutNew, pass
  <2>4. CASE ~Finish(r)
    <3>1. "rollback" \in MetadataCalls \cup BlobCalls /\ Goto(r, "rollback")
      BY <1>3, <2>4 DEF PutNew, MetadataCalls, BlobCalls
    <3>. QED
      BY <1>3, <1>a, <2>1, <2>4, <3>1, PutKeepsTypes, GoesOnWell DEF PutNew, pass
  <2>. QED
    BY <2>3, <2>4
<1>4. CASE Rollback(r)
  <2>1. pc[r] = "rollback" /\ voice[r] \in Voices
    BY <1>4 DEF Rollback, At, Writes
  <2>2. Writes(r, "rollback") /\ "rollback" \in WriteCalls
    BY <1>4 DEF Rollback, WriteCalls
  <2>3. CASE Finish(r)
    BY <1>4, <1>a, <2>1, <2>2, <2>3, StoreKeepsTypes, DiscardKeepsTypes, EndsWell DEF Rollback, pass
  <2>. QED
    BY <1>4, <2>3 DEF Rollback
<1>5. CASE GetExisting(r)
  <2>1. pc[r] = "get" /\ voice[r] \in Voices /\ view[r] = NotLoaded
    BY <1>5 DEF GetExisting, At, WriteCalls
  <2>3. CASE Finish(r)
    BY <1>5, <1>a, <2>1, <2>3, EndsWell DEF GetExisting, pass
  <2>4. CASE ~Finish(r)
    <3>1. PICK call \in {"replace", "update"} : Goto(r, call)
      BY <1>5, <1>a, <2>1, <2>4 DEF GetExisting
    <3>2. call \in MetadataCalls \cup BlobCalls /\ call # "check"
      BY <3>1 DEF MetadataCalls, BlobCalls
    <3>. QED
      BY <1>5, <1>a, <2>1, <2>4, <3>1, <3>2, GoesOnWell DEF GetExisting, pass
  <2>. QED
    BY <2>3, <2>4
<1>6. CASE ReplaceBlob(r)
  <2>1. pc[r] = "replace" /\ voice[r] \in Voices /\ view[r] = NotLoaded
    BY <1>6 DEF ReplaceBlob, At, WriteCalls
  <2>3. CASE Finish(r)
    BY <1>6, <1>a, <2>1, <2>3, PutKeepsTypes, EndsWell DEF ReplaceBlob, pass
  <2>4. CASE ~Finish(r)
    <3>1. "update" \in MetadataCalls \cup BlobCalls /\ Goto(r, "update")
      BY <1>6, <2>4 DEF ReplaceBlob, MetadataCalls, BlobCalls
    <3>. QED
      BY <1>6, <1>a, <2>1, <2>4, <3>1, PutKeepsTypes, GoesOnWell DEF ReplaceBlob, pass
  <2>. QED
    BY <2>3, <2>4
<1>7. CASE UpdateRecord(r)
  <2>1. pc[r] = "update" /\ voice[r] \in Voices
    BY <1>7 DEF UpdateRecord, At, Writes
  <2>2. Writes(r, "update") /\ "update" \in WriteCalls
    BY <1>7 DEF UpdateRecord, WriteCalls
  <2>3. CASE Finish(r)
    BY <1>7, <1>a, <2>1, <2>2, <2>3, StoreKeepsTypes, DiscardKeepsTypes, EndsWell
       DEF UpdateRecord, pass, Sources
  <2>. QED
    BY <1>7, <2>3 DEF UpdateRecord
<1>8. CASE DeleteRecord(r)
  <2>1. pc[r] = "delete" /\ voice[r] \in Voices
    BY <1>8 DEF DeleteRecord, At, Writes
  <2>2. Writes(r, "delete") /\ "delete" \in WriteCalls
    BY <1>8 DEF DeleteRecord, WriteCalls
  <2>3. CASE Finish(r)
    BY <1>8, <1>a, <2>1, <2>2, <2>3, StoreKeepsTypes, DiscardKeepsTypes, EndsWell
       DEF DeleteRecord, pass
  <2>4. CASE ~Finish(r)
    <3>1. "drop" \in MetadataCalls \cup BlobCalls /\ Goto(r, "drop")
      BY <1>8, <2>4 DEF DeleteRecord, MetadataCalls, BlobCalls
    <3>. QED
      BY <1>8, <1>a, <2>1, <2>2, <2>4, <3>1, StoreKeepsTypes, DiscardKeepsTypes,
       GoesOnWell DEF DeleteRecord, pass
  <2>. QED
    BY <2>3, <2>4
<1>9. CASE DropBlob(r)
  <2>1. pc[r] = "drop" /\ voice[r] \in Voices /\ view[r] = NotLoaded
    BY <1>9 DEF DropBlob, At, WriteCalls
  <2>3. CASE Finish(r)
    BY <1>9, <1>a, <2>1, <2>3, PutKeepsTypes, EndsWell DEF DropBlob, pass
  <2>. QED
    BY <1>9, <2>3 DEF DropBlob
<1>10. CASE ReadRecord(r)
  <2>1. pc[r] = "read" /\ voice[r] \in Voices /\ view[r] = NotLoaded
    BY <1>10 DEF ReadRecord, At, WriteCalls
  <2>3. CASE Finish(r)
    BY <1>10, <1>a, <2>1, <2>3, EndsWell DEF ReadRecord, pass
  <2>4. CASE ~Finish(r)
    <3>1. "load_audio" \in MetadataCalls \cup BlobCalls /\ Goto(r, "load_audio")
      BY <1>10, <2>4 DEF ReadRecord, MetadataCalls, BlobCalls
    <3>. QED
      BY <1>10, <1>a, <2>1, <2>4, <3>1, GoesOnWell DEF ReadRecord, pass
  <2>. QED
    BY <2>3, <2>4
<1>11. CASE ReadBlob(r)
  <2>1. pc[r] = "load_audio" /\ voice[r] \in Voices /\ view[r] = NotLoaded
    BY <1>11 DEF ReadBlob, At, WriteCalls
  <2>3. CASE Finish(r)
    BY <1>11, <1>a, <2>1, <2>3, EndsWell DEF ReadBlob, pass
  <2>. QED
    BY <1>11, <2>3 DEF ReadBlob
<1>. QED
  BY <1>1, <1>2, <1>3, <1>4, <1>5, <1>6, <1>7, <1>8, <1>9, <1>10, <1>11 DEF Handler

-----------------------------------------------------------------------------
(* Seed ingestion, loads and crashes.                                      *)

\* A pass that is over holds nothing.
LEMMA EndedPass ==
  ASSUME StoreTypeOK, NEW w \in Workers, EndPass(w)
  PROVE  PassOK' /\ Finish(w)
<1>1. DOMAIN NoEntries = {}
  BY DEF NoEntries
<1>. QED
  BY <1>1 DEF EndPass, PassOK, StoreTypeOK

\* What a pass finds in the file are entries of voices.
LEMMA AcceptedEntries ==
  ASSUME NEW document \in SeedFiles
  PROVE  LET entries == IF IngestAccepts(document) THEN document ELSE NoEntries
         IN  entries \in SeedFiles \cup {NoEntries} /\ DOMAIN entries \subseteq Voices
<1>1. DOMAIN NoEntries = {}
  BY DEF NoEntries
<1>. QED
  BY <1>1 DEF IngestAccepts

\* Every step of an ingestion pass keeps the types.
LEMMA IngestionKeepsTypes ==
  ASSUME StoreTypeOK, NEW w \in Workers, Ingestion(w), UNCHANGED suspending
  PROVE  StoreTypeOK'
<1>. w \in Tasks
  BY DEF Tasks
<1>. USE AtACall
<1>a. PassOK /\ (UNCHANGED pass => PassOK')
  BY DEF PassOK, pass
<1>b. "check" \in MetadataCalls \cup BlobCalls /\ "seed_put" \in MetadataCalls \cup BlobCalls
      /\ "seed_create" \in MetadataCalls \cup BlobCalls
  BY DEF MetadataCalls, BlobCalls
<1>1. CASE IngestBegin(w)
  <2>1. pc[w] = "idle" /\ view[w] = NotLoaded
    BY <1>1 DEF IngestBegin, At, WriteCalls
  <2>2. PassOK'
    BY <1>1, <1>a, AcceptedEntries DEF IngestBegin, PassOK
  <2>. QED
    BY <1>1, <1>b, <2>1, <2>2, GoesOnWell DEF IngestBegin
<1>2. CASE CheckSeed(w)
  <2>1. pc[w] = "check" /\ view[w] = NotLoaded
    BY <1>2 DEF CheckSeed, At, WriteCalls
  <2>2. PICK v \in todo[w] :
          /\ todo' = [todo EXCEPT ![w] = @ \ {v}] /\ voice' = [voice EXCEPT ![w] = v]
          /\ Goto(w, IF records[v] # Absent THEN "check" ELSE "seed_put")
    BY <1>2 DEF CheckSeed
  <2>3. v \in Voices /\ PassOK'
    BY <1>2, <1>a, <2>2 DEF CheckSeed, PassOK
  <2>4. PICK call \in {"check", "seed_put"} : Goto(w, call)
    BY <2>2
  <2>5. call \in Steps
    BY <2>4 DEF Steps, MetadataCalls, BlobCalls
  <2>6. TaskOK(w)'
    BY <1>2, <2>1, <2>2, <2>3, <2>4, <2>5, GotoKeepsTypes, VoiceStoreAssumption
       DEF CheckSeed, TaskOK, StoreTypeOK, Stored
  <2>. QED
    BY <1>2, <2>2, <2>3, <2>4, <2>5, <2>6, GotoKeepsTypes, OneTaskMoves
       DEF CheckSeed, StoreTypeOK, Stored
<1>3. CASE SeedPut(w)
  <2>1. pc[w] = "seed_put" /\ voice[w] \in Voices /\ view[w] = NotLoaded
    BY <1>3 DEF SeedPut, At, WriteCalls
  <2>2. CASE EndPass(w)
    BY <1>3, <1>a, <2>1, <2>2, EndedPass, EndsWell, PutKeepsTypes DEF SeedPut
  <2>3. CASE ~EndPass(w)
    BY <1>3, <1>a, <1>b, <2>1, <2>3, PutKeepsTypes, GoesOnWell DEF SeedPut
  <2>. QED
    BY <2>2, <2>3
<1>4. CASE SeedCreate(w)
  <2>1. pc[w] = "seed_create" /\ voice[w] \in Voices
    BY <1>4 DEF SeedCreate, At, Writes
  <2>2. Writes(w, "seed_create") /\ "seed_create" \in WriteCalls
    BY <1>4 DEF SeedCreate, WriteCalls
  <2>3. CASE EndPass(w)
    BY <1>4, <1>a, <2>1, <2>2, <2>3, EndedPass, StoreKeepsTypes, DiscardKeepsTypes, EndsWell
       DEF SeedCreate
  <2>4. CASE ~EndPass(w)
    BY <1>4, <1>a, <1>b, <2>1, <2>2, <2>4, StoreKeepsTypes, GoesOnWell DEF SeedCreate
  <2>. QED
    BY <2>3, <2>4
<1>5. CASE IngestEnd(w)
  <2>1. pc[w] = "check" /\ view[w] = NotLoaded
    BY <1>5 DEF IngestEnd, At, WriteCalls
  <2>. QED
    BY <1>5, <2>1, EndedPass, EndsWell DEF IngestEnd
<1>. QED
  BY <1>1, <1>2, <1>3, <1>4, <1>5 DEF Ingestion

\* The first half of a write keeps them ...
LEMMA LoadKeepsTypes ==
  ASSUME StoreTypeOK, NEW t \in Tasks, Load(t), UNCHANGED suspending
  PROVE  StoreTypeOK'
<1>1. /\ view' \in [Tasks -> [Voices -> Stored] \cup {NotLoaded}]
      /\ \A u \in Tasks \ {t} : view'[u] = view[u]
  BY DEF Load, StoreTypeOK, Stored
<1>2. turn' \in [Workers -> Tasks \cup {Nobody}]
  BY HomeIsWorker DEF Load, StoreTypeOK
<1>3. TaskOK(t)' /\ PassOK'
  BY <1>1, TypesOfATask DEF Load, TaskOK, PassOK, pass
<1>. QED
  BY <1>1, <1>2, <1>3, AtACall, OneTaskMoves DEF Load, StoreTypeOK, Stored, Steps

\* ... and so does the death of a worker process.
LEMMA CrashKeepsTypes ==
  ASSUME StoreTypeOK, NEW w \in Workers, Crash(w), UNCHANGED suspending
  PROVE  StoreTypeOK'
<1>1. DOMAIN NoEntries = {}
  BY DEF NoEntries
<1>2. PassOK'
  BY <1>1 DEF Crash, PassOK, StoreTypeOK
<1>3. torn' \subseteq Voices
  <2>1. \A t \in Tasks : pc[t] \in {"put_new", "rollback"} => voice[t] \in Voices
    BY AtACall
  <2>. QED
    BY <2>1 DEF Crash, StoreTypeOK
<1>4. \A t \in Tasks : TaskOK(t)'
  BY TypesOfATask DEF Crash, TaskOK, Steps, Stored
<1>5. /\ records' \in [Voices -> Stored] /\ blobs' \in [Voices -> Stored]
      /\ turn' \in [Workers -> Tasks \cup {Nobody}]
      /\ serving' \subseteq Workers /\ suspending' \in Deployments
  BY DEF Crash, StoreTypeOK, Stored
<1>6. /\ pc' = [t \in Tasks |-> pc'[t]] /\ voice' = [t \in Tasks |-> voice'[t]]
      /\ got' = [t \in Tasks |-> got'[t]] /\ view' = [t \in Tasks |-> view'[t]]
  BY DEF Crash
<1>. QED
  BY <1>2, <1>3, <1>4, <1>5, <1>6 DEF StoreTypeOK, TaskOK, PassOK, Stored, Steps

\* A busy task has a voice, a loaded document belongs to a write, and what
\* is stored is a record or audio of a known source: in every deployment,
\* however many processes and requests write, and whichever of them dies.
THEOREM StoreTypeCorrect == Spec => []StoreTypeOK
<1>1. Init => StoreTypeOK
  <2>1. DOMAIN NoEntries = {}
    BY DEF NoEntries
  <2>. QED
    BY <2>1 DEF Init, StoreTypeOK
<1>2. StoreTypeOK /\ [Next]_vars => StoreTypeOK'
  <2>. SUFFICES ASSUME StoreTypeOK, [Next]_vars
                PROVE  StoreTypeOK'
    OBVIOUS
  <2>1. CASE Next
    BY <2>1, HandlersKeepTypes, IngestionKeepsTypes, LoadKeepsTypes, CrashKeepsTypes DEF Next
  <2>2. CASE UNCHANGED vars
    BY <2>2 DEF vars, StoreTypeOK
  <2>. QED
    BY <2>1, <2>2
<1>. QED
  BY <1>1, <1>2, PTL DEF Spec

-----------------------------------------------------------------------------
(* The two validations of the seed file.                                   *)

\* An entry that ingestion takes in is one that Settings() takes.
LEMMA IngestedEntryStarts ==
  ASSUME NEW e, IngestEntry(e)
  PROVE  StartupEntry(e)
BY DEF IngestEntry, StartupEntry

\* So is a whole file; the file of an empty pass has nothing to refuse.
LEMMA IngestedFileStarts ==
  ASSUME NEW document
  PROVE  StartupAccepts(IF IngestAccepts(document) THEN document ELSE NoEntries)
<1>1. StartupAccepts(NoEntries)
  BY SeedFileAssumption DEF StartupAccepts, NoEntries
<1>2. IngestAccepts(document) => StartupAccepts(document)
  BY IngestedEntryStarts DEF IngestAccepts, StartupAccepts
<1>. QED
  BY <1>1, <1>2

\* A file that an ingestion pass takes in never keeps the process from
\* starting again, whatever it holds: ingestion checks all that Settings()
\* checks.
THEOREM IngestedFilesAlwaysRestart == Spec => []IngestedFilesRestart
<1>1. Init => IngestedFilesRestart
  BY IngestedFileStarts DEF Init, IngestedFilesRestart
<1>2. StoreTypeOK /\ IngestedFilesRestart /\ [Next]_vars => IngestedFilesRestart'
  <2>. SUFFICES ASSUME StoreTypeOK, IngestedFilesRestart, [Next]_vars
                PROVE  IngestedFilesRestart'
    OBVIOUS
  <2>1. StartupAccepts(NoEntries)
    BY SeedFileAssumption DEF StartupAccepts, NoEntries
  <2>2. CASE UNCHANGED file
    BY <2>2 DEF IngestedFilesRestart
  <2>3. ASSUME NEW w \in Workers, IngestBegin(w) PROVE IngestedFilesRestart'
    <3>1. PICK document \in SeedFiles :
            file' = [file EXCEPT ![w] = IF IngestAccepts(document) THEN document ELSE NoEntries]
      BY <2>3 DEF IngestBegin
    <3>. QED
      BY <3>1, IngestedFileStarts DEF IngestedFilesRestart, StoreTypeOK
  <2>4. ASSUME NEW w \in Workers, file' = [file EXCEPT ![w] = NoEntries]
        PROVE  IngestedFilesRestart'
    BY <2>1, <2>4 DEF IngestedFilesRestart, StoreTypeOK
  <2>5. ASSUME NEW w \in Workers, Ingestion(w) PROVE IngestedFilesRestart'
    BY <2>2, <2>3, <2>4, <2>5
       DEF Ingestion, CheckSeed, SeedPut, SeedCreate, IngestEnd, EndPass, pass
  <2>6. ASSUME NEW r \in Requests, Handler(r) PROVE UNCHANGED file
    BY <2>6 DEF Handler, Start, CreateRecord, PutNew, Rollback, GetExisting, ReplaceBlob,
                UpdateRecord, DeleteRecord, DropBlob, ReadRecord, ReadBlob, pass
  <2>7. ASSUME NEW t \in Tasks, Load(t) PROVE UNCHANGED file
    BY <2>7 DEF Load, pass
  <2>8. ASSUME NEW w \in Workers, Crash(w) PROVE IngestedFilesRestart'
    BY <2>4, <2>8 DEF Crash
  <2>9. CASE Next
    BY <2>2, <2>5, <2>6, <2>7, <2>8, <2>9 DEF Next
  <2>10. CASE UNCHANGED vars
    BY <2>2, <2>10 DEF vars
  <2>. QED
    BY <2>9, <2>10
<1>. QED
  BY <1>1, <1>2, StoreTypeCorrect, PTL DEF Spec

-----------------------------------------------------------------------------
(* What a write does to the records.                                       *)

\* One process writes the document, or the metadata is a table of rows.
OneWriter == JsonFile => \A v, w \in Workers : v = w

\* A document that has been loaded is still the one in the file, for nobody
\* runs before it is replaced.
Current ==
  \A t \in Tasks : view[t] # NotLoaded => view[t] = records /\ turn[Home(t)] = t

\* While one task may run, no other has a document in hand.
LEMMA OnlyTheRunnerLoaded ==
  ASSUME OneWriter, StoreTypeOK, Current, NEW t \in Tasks, MayRun(t),
         NEW u \in Tasks, u # t
  PROVE  view[u] = NotLoaded
<1>1. SUFFICES ASSUME view[u] # NotLoaded
               PROVE  FALSE
  OBVIOUS
<1>2. JsonFile
  BY <1>1 DEF StoreTypeOK
<1>3. Home(u) = Home(t)
  BY <1>2, HomeIsWorker DEF OneWriter
<1>. QED
  BY <1>1, <1>3, VoiceStoreAssumption DEF Current, MayRun

\* A step of a handler or of a pass ends what its task had loaded.
LEMMA StepsUseTheirDocument ==
  ASSUME StoreTypeOK, NEW t \in Tasks,
         (t \in Requests /\ Handler(t)) \/ (t \in Workers /\ Ingestion(t))
  PROVE  /\ MayRun(t)
         /\ \/ view' = view /\ view[t] = NotLoaded
            \/ view' = [view EXCEPT ![t] = NotLoaded]
<1>1. ASSUME t \in Requests, Handler(t)
      PROVE  /\ MayRun(t)
             /\ \/ view' = view /\ view[t] = NotLoaded
                \/ view' = [view EXCEPT ![t] = NotLoaded]
  <2>1. CASE Start(t) \/ PutNew(t) \/ GetExisting(t) \/ ReplaceBlob(t) \/ DropBlob(t)
              \/ ReadRecord(t) \/ ReadBlob(t)
    BY <2>1, AtACall DEF Start, PutNew, GetExisting, ReplaceBlob, DropBlob, ReadRecord, ReadBlob,
       At, WriteCalls
  <2>2. CASE CreateRecord(t) \/ Rollback(t) \/ UpdateRecord(t) \/ DeleteRecord(t)
    BY <2>2 DEF CreateRecord, Rollback, UpdateRecord, DeleteRecord, Writes, At, Store, Discard
  <2>. QED
    BY <1>1, <2>1, <2>2 DEF Handler
<1>2. ASSUME t \in Workers, Ingestion(t)
      PROVE  /\ MayRun(t)
             /\ \/ view' = view /\ view[t] = NotLoaded
                \/ view' = [view EXCEPT ![t] = NotLoaded]
  <2>1. CASE IngestBegin(t) \/ CheckSeed(t) \/ SeedPut(t) \/ IngestEnd(t)
    BY <2>1, AtACall DEF IngestBegin, CheckSeed, SeedPut, IngestEnd, At, WriteCalls
  <2>2. CASE SeedCreate(t)
    BY <2>2 DEF SeedCreate, Writes, At, Store, Discard
  <2>. QED
    BY <1>2, <2>1, <2>2 DEF Ingestion
<1>. QED
  BY <1>1, <1>2

LEMMA DocumentsStayCurrent ==
  ASSUME OneWriter, StoreTypeOK, Current, [Next]_vars
  PROVE  Current'
<1>1. CASE UNCHANGED vars
  BY <1>1 DEF vars, Current
<1>2. ASSUME NEW t \in Tasks, Load(t)
      PROVE  Current'
  <2>1. \A u \in Tasks \ {t} : view[u] = NotLoaded
    BY <1>2, OnlyTheRunnerLoaded DEF Load
  <2>2. view'[t] = records' /\ turn'[Home(t)] = t /\ \A u \in Tasks \ {t} : view'[u] = view[u]
    BY <1>2, HomeIsWorker DEF Load, StoreTypeOK
  <2>. QED
    BY <2>1, <2>2 DEF Current
<1>3. ASSUME NEW t \in Tasks,
             (t \in Requests /\ Handler(t)) \/ (t \in Workers /\ Ingestion(t))
      PROVE  Current'
  <2>1. MayRun(t) /\ view'[t] = NotLoaded /\ \A u \in Tasks \ {t} : view'[u] = view[u]
    BY <1>3, StepsUseTheirDocument DEF StoreTypeOK
  <2>2. \A u \in Tasks \ {t} : view[u] = NotLoaded
    BY <2>1, OnlyTheRunnerLoaded
  <2>. QED
    BY <2>1, <2>2 DEF Current
<1>4. ASSUME NEW w \in Workers, Crash(w)
      PROVE  Current'
  <2>1. ASSUME NEW t \in Tasks
        PROVE  view'[t] = NotLoaded
    <3>1. Home(t) = w \/ view[t] = NotLoaded
      BY HomeIsWorker DEF OneWriter, StoreTypeOK
    <3>. QED
      BY <1>4, <3>1 DEF Crash
  <2>. QED
    BY <2>1 DEF Current
<1>. QED
  BY <1>1, <1>2, <1>3, <1>4 DEF Next, Tasks

\* A step changes the record of at most one voice, of a task that is in a
\* call that does so.
Written(t, source) ==
  /\ records' = [records EXCEPT ![voice[t]] = source]
  /\ source = Absent => pc[t] \in {"delete", "rollback"}
  /\ source # Absent =>
       pc[t] \in {"create", "seed_create"} \/ records[voice[t]] # Absent

LEMMA RecordsChangeByWrites ==
  ASSUME StoreTypeOK, Current, [Next]_vars
  PROVE  records' = records \/ \E t \in Tasks, source \in Stored : Written(t, source)
<1>1. ASSUME NEW t \in Tasks, NEW call \in WriteCalls, Writes(t, call)
      PROVE  Document(t) = records /\ pc[t] = call
  BY <1>1 DEF Writes, At, Document, Current
<1>2. "crud" \in Stored /\ "seed" \in Stored /\ Absent \in Stored
      /\ "crud" # Absent /\ "seed" # Absent
  BY DEF Stored, Sources, Absent
<1>3. ASSUME NEW r \in Requests, Handler(r)
      PROVE  records' = records \/ \E t \in Tasks, source \in Stored : Written(t, source)
  <2>. r \in Tasks
    BY DEF Tasks
  <2>1. CASE CreateRecord(r)
    <3>1. Document(r) = records /\ pc[r] = "create"
      BY <1>1, <2>1 DEF CreateRecord, WriteCalls
    <3>2. records' = records \/ Store(r, "crud")
      BY <2>1 DEF CreateRecord, Discard
    <3>. QED
      BY <1>2, <3>1, <3>2 DEF Store, Written
  <2>2. CASE Rollback(r)
    <3>1. Document(r) = records /\ pc[r] = "rollback"
      BY <1>1, <2>2 DEF Rollback, WriteCalls
    <3>2. records' = records \/ Store(r, Absent)
      BY <2>2 DEF Rollback, Discard
    <3>. QED
      BY <1>2, <3>1, <3>2 DEF Store, Written
  <2>3. CASE UpdateRecord(r)
    <3>1. Document(r) = records /\ pc[r] = "update"
      BY <1>1, <2>3 DEF UpdateRecord, WriteCalls
    <3>2. got[r] \in Stored /\ got[r] # Absent
      BY <3>1 DEF StoreTypeOK, Stored
    <3>3. records' = records \/ (Store(r, got[r]) /\ records[voice[r]] # Absent)
      BY <2>3, <3>1 DEF UpdateRecord, Discard
    <3>. QED
      BY <3>1, <3>2, <3>3 DEF Store, Written
  <2>4. CASE DeleteRecord(r)
    <3>1. Document(r) = records /\ pc[r] = "delete"
      BY <1>1, <2>4 DEF DeleteRecord, WriteCalls
    <3>2. records' = records \/ Store(r, Absent)
      BY <2>4 DEF DeleteRecord, Discard
    <3>. QED
      BY <1>2, <3>1, <3>2 DEF Store, Written
  <2>. QED
    BY <1>3, <2>1, <2>2, <2>3, <2>4
       DEF Handler, Start, PutNew, GetExisting, ReplaceBlob, DropBlob, ReadRecord, ReadBlob
<1>4. ASSUME NEW w \in Workers, Ingestion(w)
      PROVE  records' = records \/ \E t \in Tasks, source \in Stored : Written(t, source)
  <2>. w \in Tasks
    BY DEF Tasks
  <2>1. CASE SeedCreate(w)
    <3>1. Document(w) = records /\ pc[w] = "seed_create"
      BY <1>1, <2>1 DEF SeedCreate, WriteCalls
    <3>2. records' = records \/ Store(w, "seed")
      BY <2>1 DEF SeedCreate, Discard
    <3>. QED
      BY <1>2, <3>1, <3>2 DEF Store, Written
  <2>. QED
    BY <1>4, <2>1 DEF Ingestion, IngestBegin, CheckSeed, SeedPut, IngestEnd
<1>5. ASSUME NEW t \in Tasks, Load(t)
      PROVE  records' = records
  BY <1>5 DEF Load
<1>6. ASSUME NEW w \in Workers, Crash(w)
      PROVE  records' = records
  BY <1>6 DEF Crash
<1>. QED
  BY <1>3, <1>4, <1>5, <1>6 DEF Next, vars

\* With one process, or a table: records that disappear were deleted, and
\* records that appear were created, whoever else was under way with what
\* it had read before (fs_json_metadata.py: load, change, replace; the
\* update handler: get, then update).
LEMMA RecordsChangeOnPurpose == OneWriter => (Spec => NoLostRecord /\ NoResurrection)
<1>. SUFFICES ASSUME OneWriter
              PROVE  Spec => NoLostRecord /\ NoResurrection
  OBVIOUS
<1>. DEFINE Lost ==
       \A v \in Voices : records[v] # Absent /\ records'[v] = Absent =>
         \E t \in Tasks : voice[t] = v /\ pc[t] \in {"delete", "rollback"}
     Revived ==
       \A v \in Voices : records[v] = Absent /\ records'[v] # Absent =>
         \E t \in Tasks : voice[t] = v /\ pc[t] \in {"create", "seed_create"}
<1>1. Init => Current
  BY DEF Init, Current
<1>2. StoreTypeOK /\ Current /\ [Next]_vars => Current'
  BY DocumentsStayCurrent
<1>3. StoreTypeOK /\ Current /\ [Next]_vars => [Lost]_vars /\ [Revived]_vars
  <2>. SUFFICES ASSUME StoreTypeOK, Current, [Next]_vars
                PROVE  Lost /\ Revived
    OBVIOUS
  <2>1. CASE records' = records
    BY <2>1
  <2>2. ASSUME NEW t \in Tasks, NEW source \in Stored, Written(t, source)
        PROVE  Lost /\ Revived
    <3>1. \A v \in Voices : records'[v] = IF v = voice[t] THEN source ELSE records[v]
      BY <2>2 DEF Written, StoreTypeOK
    <3>. QED
      BY <2>2, <3>1 DEF Written
  <2>. QED
    BY <2>1, <2>2, RecordsChangeByWrites
<1>. QED
  BY <1>1, <1>2, <1>3, StoreTypeCorrect, PTL DEF Spec, NoLostRecord, NoResurrection

\* No write takes another one back.
THEOREM NoWriteLosesAnother == OneWriter => (Spec => NoLostRecord)
  BY RecordsChangeOnPurpose

\* No update brings a deleted voice back.
THEOREM DeletedStaysDeleted == OneWriter => (Spec => NoResurrection)
  BY RecordsChangeOnPurpose

-----------------------------------------------------------------------------
(* The default deployment: one process, repositories that never suspend.   *)

OneProcess == \A v, w \in Workers : v = w

\* What a task has read or done still stands, for nobody else has run.
Settled(t) ==
  /\ pc[t] # "idle" => turn[Home(t)] = t
  /\ pc[t] \in {"replace", "update", "load_audio"} => got[t] = records[voice[t]]
  /\ pc[t] \in {"drop", "seed_put", "seed_create"} => records[voice[t]] = Absent
  /\ pc[t] = "seed_create" => blobs[voice[t]] = "seed"
  /\ pc[t] \in {"check", "seed_put", "seed_create"} =>
       /\ t \in Workers
       /\ \A v \in DOMAIN file[t] \ todo[t] :
            pc[t] = "check" \/ v # voice[t] => records[v] # Absent

HasAudio(v) ==
  /\ records[v] = "crud" => blobs[v] = "crud" \/ v \in torn \/ Creating(v)
  /\ records[v] = "seed" => blobs[v] # Absent

DiskInv ==
  suspending = {} => (\A t \in Tasks : Settled(t)) /\ (\A v \in Voices : HasAudio(v))

\* The one that may run is the only one that is busy.
LEMMA OthersIdle ==
  ASSUME OneProcess, StoreTypeOK, suspending = {}, \A t \in Tasks : Settled(t),
         NEW t \in Tasks, MayRun(t), NEW u \in Tasks, u # t
  PROVE  pc[u] = "idle"
<1>1. Home(u) = Home(t)
  BY HomeIsWorker DEF OneProcess
<1>. QED
  BY <1>1, VoiceStoreAssumption DEF Settled, MayRun

\* A task that goes on keeps its turn.
LEMMA KeepsTurn ==
  ASSUME StoreTypeOK, suspending = {}, NEW t \in Tasks, NEW call, Goto(t, call)
  PROVE  /\ pc'[t] = call /\ \A u \in Tasks \ {t} : pc'[u] = pc[u]
         /\ call # "idle" => turn'[Home(t)] = t
  BY HomeIsWorker DEF Goto, SuspendsAround, StoreTypeOK

\* Nobody else is creating the voice of the task that runs, nor any other.
LEMMA CreatingAlone ==
  ASSUME OneProcess, StoreTypeOK, suspending = {}, \A t \in Tasks : Settled(t),
         NEW t \in Tasks, MayRun(t), NEW v, Creating(v)
  PROVE  voice[t] = v /\ pc[t] \in {"put_new", "rollback"}
  BY OthersIdle DEF Creating

LEMMA HandlersKeepDiskInv ==
  ASSUME OneProcess, StoreTypeOK, Current, DiskInv, suspending = {}, suspending' = {},
         NEW r \in Requests, Handler(r)
  PROVE  DiskInv'
<1>. r \in Tasks
  BY DEF Tasks
<1>a. (\A t \in Tasks : Settled(t)) /\ (\A v \in Voices : HasAudio(v))
  BY DEF DiskInv
<1>b. MayRun(r) /\ \A u \in Tasks \ {r} : pc[u] = "idle"
  <2>1. MayRun(r)
    BY StepsUseTheirDocument
  <2>. QED
    BY <1>a, <2>1, OthersIdle
<1>c. ASSUME Settled(r)', \A u \in Tasks \ {r} : pc'[u] = pc[u],
             \A v \in Voices : HasAudio(v)'
      PROVE  DiskInv'
  BY <1>b, <1>c DEF DiskInv, Settled
<1>d. \A v : Creating(v) => voice[r] = v /\ pc[r] \in {"put_new", "rollback"}
  BY <1>a, <1>b, CreatingAlone
<1>e. \A call : Goto(r, call) =>
        /\ pc'[r] = call /\ \A u \in Tasks \ {r} : pc'[u] = pc[u]
        /\ call # "idle" => turn'[Home(r)] = r
  BY KeepsTurn
<1>f. voice \in [Tasks -> Voices \cup {Nobody}] /\ got \in [Tasks -> Stored]
      /\ records \in [Voices -> Stored] /\ blobs \in [Voices -> Stored]
      /\ (pc[r] \notin {"idle", "check"} => voice[r] \in Voices)
  BY AtACall
\* Steps that leave both stores alone.
<1>1. CASE Start(r) \/ GetExisting(r) \/ ReadRecord(r) \/ ReadBlob(r)
  <2>1. UNCHANGED <<records, blobs, torn>> /\ pc[r] \notin {"put_new", "rollback"}
    BY <1>1 DEF Start, GetExisting, ReadRecord, ReadBlob, At
  <2>2. \A v \in Voices : HasAudio(v)'
    BY <1>a, <1>d, <2>1 DEF HasAudio
  <2>3. PICK call \in {"idle", "create", "get", "delete", "read", "replace", "update",
                       "load_audio"} : Goto(r, call)
    BY <1>1 DEF Start, GetExisting, ReadRecord, ReadBlob, Finish
  <2>4. call \in {"replace", "update", "load_audio"} =>
          voice' = voice /\ got' = [got EXCEPT ![r] = records[voice[r]]]
    <3>1. CASE Start(r)
      BY <1>e, <2>3, <3>1 DEF Start
    <3>2. CASE GetExisting(r) \/ ReadRecord(r) \/ ReadBlob(r)
      BY <1>e, <2>3, <3>2 DEF GetExisting, ReadRecord, ReadBlob, Finish
    <3>. QED
      BY <1>1, <3>1, <3>2
  <2>5. Settled(r)'
    BY <1>e, <1>f, <2>1, <2>3, <2>4 DEF Settled
  <2>. QED
    BY <1>c, <1>e, <2>2, <2>3, <2>5
\* Steps that end the handler.
<1>g. ASSUME Finish(r), \A v \in Voices : HasAudio(v)'
      PROVE  DiskInv'
  <2>1. Goto(r, "idle")
    BY <1>g DEF Finish
  <2>. QED
    BY <1>c, <1>e, <1>g, <2>1 DEF Settled
<1>h. ASSUME NEW call \in WriteCalls, Writes(r, call)
      PROVE  Document(r) = records /\ pc[r] = call
  BY <1>h DEF Writes, At, Document, Current
<1>2. CASE CreateRecord(r)
  <2>1. Document(r) = records /\ pc[r] = "create" /\ voice[r] \in Voices
    BY <1>2, <1>f, <1>h DEF CreateRecord, WriteCalls
  <2>2. CASE records[voice[r]] # Absent
    <3>1. UNCHANGED <<records, blobs, torn>> /\ Finish(r)
      BY <1>2, <2>1, <2>2 DEF CreateRecord, Discard
    <3>2. \A v \in Voices : HasAudio(v)'
      BY <1>a, <1>d, <2>1, <3>1 DEF HasAudio
    <3>. QED
      BY <1>g, <3>1, <3>2
  <2>3. CASE records[voice[r]] = Absent
    <3>1. /\ records' = [records EXCEPT ![voice[r]] = "crud"]
          /\ Goto(r, "put_new") /\ UNCHANGED <<blobs, torn, voice, got>>
      BY <1>2, <2>1, <2>3 DEF CreateRecord, Store
    <3>2. Creating(voice[r])' /\ Settled(r)'
      BY <1>e, <3>1 DEF Creating, Settled
    <3>3. \A v \in Voices : HasAudio(v)'
      BY <1>a, <1>d, <1>f, <2>1, <3>1, <3>2 DEF HasAudio
    <3>. QED
      BY <1>c, <1>e, <3>1, <3>2, <3>3
  <2>. QED
    BY <2>2, <2>3
<1>3. CASE PutNew(r)
  <2>1. pc[r] = "put_new" /\ voice[r] \in Voices /\ UNCHANGED <<records, torn>>
    BY <1>3, <1>f DEF PutNew, At
  <2>2. CASE Finish(r)
    <3>1. Put(r, "crud")
      <4>1. ~Goto(r, "rollback")
        BY <1>e, <2>2 DEF Finish
      <4>. QED
        BY <1>3, <4>1 DEF PutNew
    <3>2. \A v \in Voices : HasAudio(v)'
      BY <1>a, <1>d, <1>f, <2>1, <3>1 DEF HasAudio, Put, Absent
    <3>. QED
      BY <1>g, <2>2, <3>2
  <2>3. CASE ~Finish(r)
    <3>1. Goto(r, "rollback") /\ UNCHANGED <<blobs, voice, got>>
      BY <1>3, <2>3 DEF PutNew
    <3>2. Creating(voice[r])' /\ Settled(r)'
      BY <1>e, <3>1 DEF Creating, Settled
    <3>3. \A v \in Voices : HasAudio(v)'
      BY <1>a, <1>d, <2>1, <3>1, <3>2 DEF HasAudio
    <3>. QED
      BY <1>c, <1>e, <3>1, <3>2, <3>3
  <2>. QED
    BY <2>2, <2>3
<1>4. CASE Rollback(r)
  <2>1. Document(r) = records /\ pc[r] = "rollback" /\ voice[r] \in Voices
    BY <1>4, <1>f, <1>h DEF Rollback, WriteCalls
  <2>2. /\ Finish(r) /\ UNCHANGED blobs /\ torn \subseteq torn'
        /\ \/ records' = [records EXCEPT ![voice[r]] = Absent]
           \/ records' = records /\ (records[voice[r]] = Absent \/ voice[r] \in torn')
    BY <1>4, <2>1 DEF Rollback, Store, Discard
  <2>3. \A v \in Voices : HasAudio(v)'
    BY <1>a, <1>d, <1>f, <2>1, <2>2 DEF HasAudio, Absent
  <2>. QED
    BY <1>g, <2>2, <2>3
<1>5. CASE ReplaceBlob(r)
  <2>1. /\ pc[r] = "replace" /\ voice[r] \in Voices /\ UNCHANGED <<records, torn>>
        /\ blobs' = blobs \/ Put(r, "crud")
    BY <1>5, <1>f DEF ReplaceBlob, At
  <2>2. \A v \in Voices : HasAudio(v)'
    BY <1>a, <1>d, <1>f, <2>1 DEF HasAudio, Put, Absent
  <2>3. CASE Finish(r)
    BY <1>g, <2>2, <2>3
  <2>4. CASE ~Finish(r)
    <3>1. Goto(r, "update") /\ UNCHANGED <<voice, got>>
      BY <1>5, <2>4 DEF ReplaceBlob
    <3>2. Settled(r)'
      BY <1>a, <1>e, <2>1, <3>1 DEF Settled
    <3>. QED
      BY <1>c, <1>e, <2>2, <3>1, <3>2
  <2>. QED
    BY <2>3, <2>4
<1>6. CASE UpdateRecord(r)
  <2>1. Document(r) = records /\ pc[r] = "update" /\ voice[r] \in Voices
    BY <1>6, <1>f, <1>h DEF UpdateRecord, WriteCalls
  <2>2. got[r] = records[voice[r]]
    BY <1>a, <2>1 DEF Settled
  <2>3. Finish(r) /\ UNCHANGED <<records, blobs, torn>>
    BY <1>6, <1>f, <2>1, <2>2 DEF UpdateRecord, Store, Discard
  <2>4. \A v \in Voices : HasAudio(v)'
    BY <1>a, <1>d, <2>1, <2>3 DEF HasAudio
  <2>. QED
    BY <1>g, <2>3, <2>4
<1>7. CASE DeleteRecord(r)
  <2>1. Document(r) = records /\ pc[r] = "delete" /\ voice[r] \in Voices
    BY <1>7, <1>f, <1>h DEF DeleteRecord, WriteCalls
  <2>2. /\ UNCHANGED <<blobs, torn>>
        /\ \/ records' = [records EXCEPT ![voice[r]] = Absent]
              /\ Goto(r, "drop") /\ UNCHANGED <<voice, got>>
           \/ records' = records /\ Finish(r)
    BY <1>7, <2>1 DEF DeleteRecord, Store, Discard
  <2>3. \A v \in Voices : HasAudio(v)'
    BY <1>a, <1>d, <1>f, <2>1, <2>2 DEF HasAudio, Absent
  <2>4. CASE Finish(r)
    BY <1>g, <2>3, <2>4
  <2>5. CASE ~Finish(r)
    <3>1. Settled(r)'
      BY <1>e, <1>f, <2>1, <2>2, <2>5 DEF Settled
    <3>. QED
      BY <1>c, <1>e, <2>2, <2>3, <2>5, <3>1
  <2>. QED
    BY <2>4, <2>5
<1>8. CASE DropBlob(r)
  <2>1. /\ pc[r] = "drop" /\ voice[r] \in Voices /\ UNCHANGED <<records, torn>>
        /\ Put(r, Absent) /\ Finish(r)
    BY <1>8, <1>f DEF DropBlob, At
  <2>2. records[voice[r]] = Absent
    BY <1>a, <2>1 DEF Settled
  <2>3. \A v \in Voices : HasAudio(v)'
    BY <1>a, <1>d, <1>f, <2>1, <2>2 DEF HasAudio, Put, Absent
  <2>. QED
    BY <1>g, <2>1, <2>3
<1>. QED
  BY <1>1, <1>2, <1>3, <1>4, <1>5, <1>6, <1>7, <1>8 DEF Handler

LEMMA IngestionKeepsDiskInv ==
  ASSUME OneProcess, StoreTypeOK, Current, DiskInv, suspending = {}, suspending' = {},
         NEW w \in Workers, Ingestion(w)
  PROVE  DiskInv'
<1>. w \in Tasks
  BY DEF Tasks
<1>a. (\A t \in Tasks : Settled(t)) /\ (\A v \in Voices : HasAudio(v))
  BY DEF DiskInv
<1>b. MayRun(w) /\ \A u \in Tasks \ {w} : pc[u] = "idle"
  <2>1. MayRun(w)
    BY StepsUseTheirDocument
  <2>. QED
    BY <1>a, <2>1, OthersIdle
<1>c. ASSUME Settled(w)', \A u \in Tasks \ {w} : pc'[u] = pc[u],
             \A v \in Voices : HasAudio(v)'
      PROVE  DiskInv'
  BY <1>b, <1>c DEF DiskInv, Settled
<1>d. \A v : Creating(v) => voice[w] = v /\ pc[w] \in {"put_new", "rollback"}
  BY <1>a, <1>b, CreatingAlone
<1>e. \A call : Goto(w, call) =>
        /\ pc'[w] = call /\ \A u \in Tasks \ {w} : pc'[u] = pc[u]
        /\ call # "idle" => turn'[Home(w)] = w
  BY KeepsTurn
<1>f. voice \in [Tasks -> Voices \cup {Nobody}]
      /\ records \in [Voices -> Stored] /\ blobs \in [Voices -> Stored]
      /\ file \in [Workers -> SeedFiles \cup {NoEntries}] /\ todo \in [Workers -> SUBSET Voices]
      /\ DOMAIN file[w] \subseteq Voices /\ todo[w] \subseteq DOMAIN file[w]
      /\ (pc[w] \notin {"idle", "check"} => voice[w] \in Voices)
  BY AtACall DEF PassOK
<1>g. ASSUME EndPass(w), \A v \in Voices : HasAudio(v)'
      PROVE  DiskInv'
  <2>1. Goto(w, "idle")
    BY <1>g DEF EndPass, Finish
  <2>. QED
    BY <1>c, <1>e, <1>g, <2>1 DEF Settled
<1>1. CASE IngestBegin(w)
  <2>1. PICK document \in SeedFiles :
          LET entries == IF IngestAccepts(document) THEN document ELSE NoEntries IN
          /\ file' = [file EXCEPT ![w] = entries]
          /\ todo' = [todo EXCEPT ![w] = DOMAIN entries]
    BY <1>1 DEF IngestBegin
  <2>2. DOMAIN file'[w] \ todo'[w] = {}
    BY <1>f, <2>1
  <2>3. /\ Goto(w, "check") /\ UNCHANGED <<records, blobs, torn>> /\ pc[w] = "idle"
    BY <1>1 DEF IngestBegin, At
  <2>4. Settled(w)'
    BY <1>e, <2>2, <2>3 DEF Settled
  <2>5. \A v \in Voices : HasAudio(v)'
    BY <1>a, <1>d, <2>3 DEF HasAudio
  <2>. QED
    BY <1>c, <1>e, <2>3, <2>4, <2>5
<1>2. CASE CheckSeed(w)
  <2>1. PICK v \in todo[w] :
          /\ todo' = [todo EXCEPT ![w] = @ \ {v}] /\ voice' = [voice EXCEPT ![w] = v]
          /\ Goto(w, IF records[v] # Absent THEN "check" ELSE "seed_put")
    BY <1>2 DEF CheckSeed
  <2>2. UNCHANGED <<records, blobs, torn, file>> /\ pc[w] = "check"
    BY <1>2 DEF CheckSeed, At
  <2>3. \A u \in Voices : HasAudio(u)'
    BY <1>a, <1>d, <2>2 DEF HasAudio
  <2>4. todo'[w] = todo[w] \ {v} /\ voice'[w] = v
    BY <1>f, <2>1
  <2>5. \A u \in DOMAIN file[w] \ todo[w] : records[u] # Absent
    BY <1>a, <2>2 DEF Settled
  <2>6. Settled(w)'
    <3>1. CASE records[v] # Absent
      <4>1. Goto(w, "check")
        BY <2>1, <3>1
      <4>. QED
        BY <1>e, <2>2, <2>4, <2>5, <3>1, <4>1 DEF Settled
    <3>2. CASE records[v] = Absent
      <4>1. Goto(w, "seed_put")
        BY <2>1, <3>2
      <4>. QED
        BY <1>e, <2>2, <2>4, <2>5, <3>2, <4>1 DEF Settled
    <3>. QED
      BY <3>1, <3>2
  <2>. QED
    BY <1>c, <1>e, <2>1, <2>3, <2>6
<1>3. CASE SeedPut(w)
  <2>1. /\ pc[w] = "seed_put" /\ voice[w] \in Voices /\ UNCHANGED <<records, torn>>
        /\ records[voice[w]] = Absent
    BY <1>3, <1>a, <1>f DEF SeedPut, At, Settled
  <2>2. blobs' = blobs \/ Put(w, "seed")
    BY <1>3 DEF SeedPut
  <2>3. \A v \in Voices : HasAudio(v)'
    BY <1>a, <1>d, <1>f, <2>1, <2>2 DEF HasAudio, Put, Absent
  <2>4. CASE EndPass(w)
    BY <1>g, <2>3, <2>4
  <2>5. CASE ~EndPass(w)
    <3>1. Put(w, "seed") /\ Goto(w, "seed_create") /\ UNCHANGED <<voice, got, file, todo>>
      BY <1>3, <2>5 DEF SeedPut, pass
    <3>2. Settled(w)'
      BY <1>a, <1>e, <1>f, <2>1, <3>1 DEF Settled, Put
    <3>. QED
      BY <1>c, <1>e, <2>3, <3>1, <3>2
  <2>. QED
    BY <2>4, <2>5
<1>4. CASE SeedCreate(w)
  <2>1. /\ pc[w] = "seed_create" /\ voice[w] \in Voices /\ UNCHANGED <<blobs, torn>>
        /\ Document(w) = records
    BY <1>4, <1>f DEF SeedCreate, Writes, At, Document, Current
  <2>2. records[voice[w]] = Absent /\ blobs[voice[w]] = "seed"
    BY <1>a, <2>1 DEF Settled
  <2>3. /\ records' = [records EXCEPT ![voice[w]] = "seed"] /\ Goto(w, "check")
        /\ UNCHANGED <<voice, file, todo>>
    BY <1>4, <2>1, <2>2 DEF SeedCreate, Store, pass
  <2>4. \A v \in Voices : HasAudio(v)'
    BY <1>a, <1>d, <1>f, <2>1, <2>2, <2>3 DEF HasAudio, Absent
  <2>5. Settled(w)'
    BY <1>a, <1>e, <1>f, <2>1, <2>3 DEF Settled, Absent
  <2>. QED
    BY <1>c, <1>e, <2>3, <2>4, <2>5
<1>5. CASE IngestEnd(w)
  <2>1. pc[w] = "check" /\ UNCHANGED <<records, blobs, torn>> /\ EndPass(w)
    BY <1>5 DEF IngestEnd, At
  <2>2. \A v \in Voices : HasAudio(v)'
    BY <1>a, <1>d, <2>1 DEF HasAudio
  <2>. QED
    BY <1>g, <2>1, <2>2
<1>. QED
  BY <1>1, <1>2, <1>3, <1>4, <1>5 DEF Ingestion

\* A crash leaves the stores; what was being created is torn.
LEMMA StepsKeepDiskInv ==
  ASSUME OneProcess, StoreTypeOK, Current, DiskInv, [Next]_vars
  PROVE  DiskInv'
<1>1. CASE UNCHANGED vars
  BY <1>1 DEF vars, DiskInv, Settled, HasAudio, Creating
<1>2. CASE suspending # {} /\ Next
  BY <1>2 DEF Next, DiskInv
<1>3. CASE suspending = {} /\ Next
  <2>1. suspending' = {}
    BY <1>3 DEF Next
  <2>2. (\A t \in Tasks : Settled(t)) /\ (\A v \in Voices : HasAudio(v))
    BY <1>3 DEF DiskInv
  <2>3. ASSUME NEW t \in Tasks, Load(t)
        PROVE  DiskInv'
    <3>1. /\ UNCHANGED <<records, blobs, pc, voice, got, file, todo, torn>>
          /\ \A u \in Tasks \ {t} : pc[u] = "idle"
      BY <1>3, <2>2, <2>3, OthersIdle DEF Load, pass
    <3>2. turn'[Home(t)] = t
      BY <2>3, HomeIsWorker DEF Load, StoreTypeOK
    <3>. QED
      BY <2>2, <3>1, <3>2 DEF DiskInv, Settled, HasAudio, Creating
  <2>4. ASSUME NEW w \in Workers, Crash(w)
        PROVE  DiskInv'
    <3>1. \A t \in Tasks : Home(t) = w
      BY HomeIsWorker DEF OneProcess
    <3>2. /\ \A t \in Tasks : pc'[t] = "idle"
          /\ UNCHANGED <<records, blobs>> /\ torn \subseteq torn'
          /\ \A v : Creating(v) => v \in torn'
      BY <2>4, <3>1 DEF Crash, Creating
    <3>. QED
      BY <2>2, <3>2 DEF DiskInv, Settled, HasAudio
  <2>. QED
    BY <1>3, <2>1, <2>3, <2>4, HandlersKeepDiskInv, IngestionKeepsDiskInv DEF Next
<1>. QED
  BY <1>1, <1>2, <1>3

LEMMA DiskInvHolds ==
  ASSUME OneProcess
  PROVE  Spec => [](StoreTypeOK /\ Current /\ DiskInv)
<1>1. Init => Current /\ DiskInv
  BY DEF Init, Current, DiskInv, Settled, HasAudio, Absent
<1>2. StoreTypeOK /\ Current /\ DiskInv /\ [Next]_vars => Current' /\ DiskInv'
  BY DocumentsStayCurrent, StepsKeepDiskInv DEF OneProcess, OneWriter
<1>. QED
  BY <1>1, <1>2, StoreTypeCorrect, PTL DEF Spec

\* FR-VM-01 and the comments of create_voice and update_voice: whatever
\* fails or dies between the writes to the two stores, only a voice whose
\* create was cut lacks audio.
THEOREM RecordsKeepAudio == OneProcess => (Spec => []RecordsHaveAudio)
<1>. SUFFICES ASSUME OneProcess
              PROVE  Spec => []RecordsHaveAudio
  OBVIOUS
<1>1. StoreTypeOK /\ DiskInv => RecordsHaveAudio
  BY DEF DiskInv, HasAudio, RecordsHaveAudio, StoreTypeOK, Sources, Absent
<1>. QED
  BY <1>1, DiskInvHolds, PTL

\* FR-VS-10: the two reads of _resolve_voice agree.
THEOREM FoundVoicesResolve == OneProcess => (Spec => []VoiceResolves)
<1>. SUFFICES ASSUME OneProcess
              PROVE  Spec => []VoiceResolves
  OBVIOUS
<1>1. StoreTypeOK /\ DiskInv => VoiceResolves
  <2>. SUFFICES ASSUME StoreTypeOK, DiskInv, suspending = {},
                       NEW t \in Tasks, pc[t] = "load_audio"
                PROVE  /\ got[t] = "crud" => blobs[voice[t]] = "crud" \/ voice[t] \in torn
                       /\ got[t] = "seed" => blobs[voice[t]] # Absent
    BY DEF VoiceResolves
  <2>1. /\ voice[t] \in Voices /\ turn[Home(t)] = t
        /\ got[t] = records[voice[t]] /\ HasAudio(voice[t])
    BY AtACall DEF DiskInv, Settled
  <2>2. ~Creating(voice[t])
    BY <2>1, CreatingAlone DEF DiskInv, MayRun
  <2>. QED
    BY <2>1, <2>2 DEF HasAudio
<1>. QED
  BY <1>1, DiskInvHolds, PTL

\* FR-VM-01 and -03: no entry of a seed file is passed over.
THEOREM PassesCoverFiles == OneProcess => (Spec => []PassCoversFile)
<1>. SUFFICES ASSUME OneProcess
              PROVE  Spec => []PassCoversFile
  OBVIOUS
<1>1. DiskInv => PassCoversFile
  BY DEF DiskInv, Settled, PassCoversFile, Tasks
<1>. QED
  BY <1>1, DiskInvHolds, PTL
=============================================================================
