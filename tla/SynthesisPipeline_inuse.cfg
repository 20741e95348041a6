\* Two requests for two models, a cache of one entry (the default) and two
\* concurrency permits (the reference profile).
CONSTANTS
  b1 = b1  b2 = b2  s1 = s1  m1 = m1  m2 = m2  m3 = m3
  Buffered = {b1, b2}
  Streaming = {s1}
  Models = {m1, m2}
  ModelOf <- OneShared
  Threads = {b1, b2, s1}
  Keys = {m1, m2}
  QueueDepth = 3
  Cap = 2
  MaxChunks = 1
  Faults = {}
  Allowed = {}
  MaxSize = 1
  Objects = {o1, o2, o3, o4}
  None = None
  HasUnload = TRUE
SPECIFICATION PipelineSpec
INVARIANT NoUseAfterUnload
