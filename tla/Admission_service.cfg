\* Two models, no faults: the abstract service is implemented and every
\* admitted request ends.  Three queue permits for four slots.
CONSTANTS
  b1 = b1  b2 = b2  b3 = b3  s1 = s1  s2 = s2  m1 = m1  m2 = m2
  Buffered = {b1, b2, b3}
  Streaming = {s1}
  Models = {m1, m2}
  ModelOf <- TwoModels
  QueueDepth = 3
  Cap = 2
  MaxChunks = 1
  Faults = {}
SPECIFICATION FairSpec
PROPERTIES
  ServiceSpec
  AdmittedFinishes
