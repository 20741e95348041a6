\* JSON metadata on disk, with blobs on disk (nothing ever suspends) or in S3
\* (handlers and ingestion interleave); one worker, whose process may die at
\* any point and whose reads and writes may fail.
CONSTANTS
  r1 = r1  r2 = r2  w1 = w1  BadName = BadName
  NotJson = NotJson  Other = Other
  Voices = {v1, v2}
  SeedFiles <- AllFiles
  Requests = {r1, r2}
  Workers = {w1}
  WorkerOf <- OneWorker
  Deployments = {{}, {"blob"}}
  JsonFile = TRUE
  Faults = {"crash", "put_fails", "rollback_fails", "read_fails"}
  Nobody = Nobody
SPECIFICATION Spec
SYMMETRY Interchangeable
INVARIANTS
  StoreTypeOK
  RecordsHaveAudio
  VoiceResolves
  PassCoversFile
  IngestedFilesRestart
PROPERTIES
  NoLostRecord
  NoResurrection
