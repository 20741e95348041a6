------------------------ MODULE MCSynthesisPipeline ------------------------
(* Instances of SynthesisPipeline for TLC. *)
EXTENDS SynthesisPipeline

CONSTANTS b1, b2, s1, m1, m2, m3

OneShared == [r \in {b1, b2, s1} |-> IF r = b2 THEN m2 ELSE m1]

Distinct == [r \in {b1, b2, s1} |-> IF r = b1 THEN m1 ELSE IF r = b2 THEN m2 ELSE m3]

ObjectSymmetry == Permutations(Objects)
=============================================================================
