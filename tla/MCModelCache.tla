---------------------------- MODULE MCModelCache ----------------------------
(* Instances of ModelCache for TLC. *)
EXTENDS ModelCache

CacheSymmetry == Permutations(Threads) \cup Permutations(Objects)
=============================================================================
