------------------------ MODULE MCReconcilerPunctual ------------------------
EXTENDS ReconcilerHistory, TLC

Deadlines == [r \in Requests |-> 2 + r]
Symmetry == Permutations(Workers) \cup Permutations(Refs)
=============================================================================
