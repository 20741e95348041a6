\* Postgres and S3: seed ingestion overlaps with a create.
CONSTANTS
  r1 = r1  r2 = r2  w1 = w1  BadName = BadName
  NotJson = NotJson  Other = Other
  Voices = {v1, v2}
  SeedFiles <- UsualFiles
  Requests = {r1, r2}
  Workers = {w1}
  WorkerOf <- OneWorker
  Deployments = {{"metadata", "blob"}}
  JsonFile = FALSE
  Faults = {}
  Nobody = Nobody
SPECIFICATION Spec
PROPERTY SeedLeavesCrudAlone
