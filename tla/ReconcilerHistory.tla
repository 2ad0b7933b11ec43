-------------------------- MODULE ReconcilerHistory --------------------------
(***************************************************************************)
(* The reconciler with a record of what its completed cycles saw, kept     *)
(* beside the code's own streak counters to check them against.  Nothing   *)
(* the reconciler does depends on it.                                      *)
(***************************************************************************)
EXTENDS ReconcilerProps

(* run[r]: over how many cycles in a row, counted up to StabilityCycles,   *)
(* the observations that were written to r's row confirmed the payment     *)
(* (good) or did not (bad).  A failed observation ends both.               *)
VARIABLE run

CountOn(n) == IF n < StabilityCycles THEN n + 1 ELSE n

(* Worker w completes the cycle of its row in hand, which is still its own.*)
Completes(w, r) == /\ pc[w] \in {"write", "failed"} /\ cur[w].id = r
                   /\ pc'[w] \in {"rows", "idle"} /\ aborts' = aborts
                   /\ CanWrite(w, cur[w])

After(w, r) ==
    IF pc[w] = "failed" THEN [good |-> 0, bad |-> 0]
    ELSE IF Confirmed(view[w]) THEN [good |-> CountOn(run[r].good), bad |-> 0]
    ELSE [good |-> 0, bad |-> CountOn(run[r].bad)]

HInit == Init /\ run = [r \in Requests |-> [good |-> 0, bad |-> 0]]
HNext ==
    /\ Next
    /\ run' = [r \in Requests |->
                 IF \E w \in Workers : Completes(w, r)
                 THEN After(CHOOSE w \in Workers : Completes(w, r), r) ELSE run[r]]
HSpec == HInit /\ [][HNext]_<<vars, run>>

(* No flapping (reorg-recovery-finality-policy, FR-005): a request becomes *)
(* confirmed only after StabilityCycles cycles in a row that confirmed it, *)
(* and is rolled back only when the cycle orphaned tracked evidence or     *)
(* after StabilityCycles cycles in a row that did not confirm it.  A       *)
(* failed observation counts for neither and breaks the row.               *)
AntiFlap ==
    [][\A r \in Requests :
        /\ status[r] # "confirmed" /\ status'[r] = "confirmed" =>
              run'[r].good >= StabilityCycles
        /\ status[r] = "confirmed" /\ status'[r] = "reorged" =>
              \/ run'[r].bad >= StabilityCycles
              \/ \E w \in Workers : Completes(w, r) /\ orphaned[w]]_<<vars, run>>
=============================================================================
