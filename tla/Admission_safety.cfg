\* Two buffered and two streaming slots contend for one model, four queue
\* permits and two concurrency permits; response construction may fail.
CONSTANTS
  b1 = b1  b2 = b2  b3 = b3  s1 = s1  s2 = s2  m1 = m1  m2 = m2
  Buffered = {b1, b2}
  Streaming = {s1, s2}
  Models = {m1}
  ModelOf <- SharedModel
  QueueDepth = 4
  Cap = 2
  MaxChunks = 2
  Faults = {"unencodable_header", "start_cancelled"}
SPECIFICATION Spec
SYMMETRY SharedSymmetry
INVARIANTS
  TypeOK
  PermitsAccounted
  ExclusiveInference
  NoStrandedWaiter
  VoiceFileLifetime
  Inv
  StopsAtChunkBoundary
  HealthHonest
