\* Building a streaming response may raise.
CONSTANTS
  b1 = b1  b2 = b2  b3 = b3  s1 = s1  s2 = s2  m1 = m1  m2 = m2
  Buffered = {b1, b2}
  Streaming = {s1}
  Models = {m1, m2}
  ModelOf <- TwoModelsSmall
  QueueDepth = 2
  Cap = 1
  MaxChunks = 1
  Faults = {"unencodable_header"}
SPECIFICATION Spec
INVARIANT NothingLeaked
