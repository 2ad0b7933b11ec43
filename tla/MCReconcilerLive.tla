-------------------------- MODULE MCReconcilerLive --------------------------
EXTENDS ReconcilerLive

Deadlines == [r \in Requests |-> 2]
=============================================================================
