--------------------------- MODULE BoundedService ---------------------------
(***************************************************************************)
(* What admission control promises (FR-CC-01, -03, -04), with no semaphore *)
(* in sight: at most QueueDepth requests are inside, at most Cap of them   *)
(* active and one per model, and one is turned away only when it is full.  *)
(***************************************************************************)
EXTENDS Integers, FiniteSets

CONSTANTS Requests, Models, ModelOf, QueueDepth, Cap

VARIABLE phase   \* of each slot: "out", "refused", "pending" or "active"

Inside == {r \in Requests : phase[r] \in {"pending", "active"}}
Active == {r \in Requests : phase[r] = "active"}

Init == phase = [r \in Requests |-> "out"]

CanRun(r) ==
  /\ Cardinality(Active) < Cap
  /\ \A s \in Active : ModelOf[s] # ModelOf[r]

Enter(r) ==
  /\ r \notin Inside
  /\ Cardinality(Inside) < QueueDepth
  /\ \/ phase' = [phase EXCEPT ![r] = "pending"]
     \/ CanRun(r) /\ phase' = [phase EXCEPT ![r] = "active"]

Refuse(r) ==
  /\ r \notin Inside
  /\ Cardinality(Inside) = QueueDepth
  /\ phase' = [phase EXCEPT ![r] = "refused"]

Activate(r) ==
  /\ phase[r] = "pending"
  /\ CanRun(r)
  /\ phase' = [phase EXCEPT ![r] = "active"]

Leave(r) ==
  /\ r \in Inside
  /\ phase' = [phase EXCEPT ![r] = "out"]

Next == \E r \in Requests : Enter(r) \/ Refuse(r) \/ Activate(r) \/ Leave(r)

Spec == Init /\ [][Next]_phase
=============================================================================
