---------------------------- MODULE MCReconciler ----------------------------
EXTENDS ReconcilerProps

(* Deadlines of the requests 1, 2, ...: request r expires at time 2 + r.   *)
Deadlines == [r \in Requests |-> 2 + r]
=============================================================================
