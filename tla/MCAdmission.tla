---------------------------- MODULE MCAdmission ----------------------------
(* Instances of Admission for TLC. *)
EXTENDS Admission

CONSTANTS b1, b2, b3, s1, s2, m1, m2

\* One contended model: two buffered requests and two streams.
SharedModel == [r \in {b1, b2, s1, s2} |-> m1]

\* Two models: waiters of one hold permits that the other needs.
TwoModels == [r \in {b1, b2, b3, s1} |-> IF r \in {b1, s1} THEN m1 ELSE m2]
TwoModelsSmall == [r \in {b1, b2, s1} |-> IF r = b2 THEN m2 ELSE m1]

SharedSymmetry == Permutations({b1, b2}) \cup Permutations({s1, s2})
=============================================================================
