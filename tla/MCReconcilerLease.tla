-------------------------- MODULE MCReconcilerLease --------------------------
EXTENDS ReconcilerEvidence, TLC

(* Deadlines of the requests 1, 2, ...: request r expires at time 1 + r.   *)
Deadlines == [r \in Requests |-> 1 + r]

(* The workers are interchangeable: every action treats them alike.        *)
WorkerSymmetry == Permutations(Workers)
=============================================================================
