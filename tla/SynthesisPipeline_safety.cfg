\* Two buffered requests and a stream, each with a model of its own: a cache
\* of one entry and two concurrency permits, so that a call can lose both the
\* entry it evicted and its own while it still unloads the first.
CONSTANTS
  b1 = b1  b2 = b2  s1 = s1  m1 = m1  m2 = m2  m3 = m3
  Buffered = {b1, b2}
  Streaming = {s1}
  Models = {m1, m2, m3}
  ModelOf <- Distinct
  Threads = {b1, b2, s1}
  Keys = {m1, m2, m3}
  QueueDepth = 3
  Cap = 2
  MaxChunks = 1
  Faults = {}
  Allowed = {}
  MaxSize = 1
  Objects = {o1, o2, o3, o4, o5}
  None = None
  HasUnload = TRUE
SPECIFICATION PipelineSpec
SYMMETRY ObjectSymmetry
INVARIANTS
  LoadedModelsBounded
  CallsAreGated
