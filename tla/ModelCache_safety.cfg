\* Three threads, four keys of which one is not allowed, two cache slots;
\* nothing keeps two threads from asking for the same key.
CONSTANTS
  Threads = {t1, t2, t3}
  Keys = {k1, k2, k3, k4}
  Allowed = {k1, k2, k3}
  MaxSize = 2
  Objects = {o1, o2, o3, o4, o5}
  None = None
  HasUnload = TRUE
SPECIFICATION CacheSpec
SYMMETRY CacheSymmetry
INVARIANTS
  CacheTypeOK
  CacheCoherent
  UnloadedOnce
PROPERTIES
  EvictsLeastRecent
