--------------------------- MODULE ReconcilerLive ---------------------------
(***************************************************************************)
(* The reconciler under fair scheduling and with time that never ends.     *)
(*                                                                         *)
(* Every time stamp is only ever compared with a worker's reading of the   *)
(* clock, so once the clock has reached MaxTime one more unit of time is   *)
(* modelled by making every stamp one unit older instead; a stamp of 0 is  *)
(* in the past of every comparison already.                                *)
(***************************************************************************)
EXTENDS ReconcilerProps

ASSUME LiveAssumption ==
    /\ Punctual /\ MaxLag = 0 /\ MaxAhead = 0 /\ LeaseTime > 1
    /\ Webhook = {}
    /\ ObserveWindow + LeaseTime <= MaxTime
    /\ \A r \in Requests : ExpiresAt[r] + LeaseTime <= MaxTime

Older(t) == IF t = NULL \/ t = 0 THEN t ELSE t - 1
Aged(m) == [m EXCEPT !.first = Older(@), !.final = Older(@)]
AgedSnapshot(s) == IF s = NULL THEN NULL ELSE [s EXCEPT !.meta = Aged(@)]

TimePasses ==
    /\ clock = MaxTime
    /\ \A w \in Workers : pc[w] # "idle" => clock + 1 < LeaseEnd(w)
    /\ meta' = [r \in Requests |-> Aged(meta[r])]
    /\ lease' = [r \in Requests |-> [lease[r] EXCEPT !.until = Older(@)]]
    /\ now' = [w \in Workers |-> Older(now[w])]
    /\ rows' = [w \in Workers |-> {AgedSnapshot(s) : s \in rows[w]}]
    /\ cur' = [w \in Workers |-> AgedSnapshot(cur[w])]
    /\ UNCHANGED <<envVars, status, outbox, settlements, pc, view, orphaned>>

(* An observation of worker w comes back without an answer.                *)
ObservationFails(w) == pc[w] = "rows" /\ pc'[w] = "failed"

(* The workers poll on a ticker for as long as the process runs and every  *)
(* call of the observer has a timeout, so a worker that can take a step    *)
(* takes one, and time goes on.  Observations fail, but not for ever: one  *)
(* that never succeeds again erases first_confirmed_at in every cycle, and *)
(* such a row stays ahead of younger ones without end.  Nothing is assumed *)
(* of the chain, and nothing makes a worker stop.                          *)
LiveSpec ==
    /\ Init /\ [][Next \/ TimePasses]_vars
    /\ WF_vars(Tick \/ TimePasses)
    /\ \A w \in Workers : WF_vars(WorkerStep(w))
    /\ <>[][\A w \in Workers : ~ObservationFails(w)]_vars

(* Every open request is eventually confirmed or expired: the lease of a   *)
(* worker that crashed runs out and another worker goes on, and the batch  *)
(* limit starves no row for good (horizontal-scaling, NFR-003).            *)
EventuallyClosed ==
    \A r \in Requests : status[r] \in {"pending", "detected"} ~> status[r] \in {"confirmed", "expired"}

(* A worker has request r in its batch.                                    *)
Polled(r) == \E w \in Workers : \E s \in Held(w) : s.id = r

(* "Once finality reached and observe window elapsed, reconciler stops     *)
(* active chain polling for that request" (reorg-recovery-finality-policy, *)
(* FR-004 AC4): when finality is recorded for good, the workers take the   *)
(* request up only finitely often, whatever the chain goes on doing and    *)
(* although nothing but the claim query's window keeps them from it.       *)
(* Nothing is said of a request without finality, which AC3 of the same    *)
(* requirement wants claimable.                                            *)
PollingStops ==
    \A r \in Requests : <>[](meta[r].final # NULL) => <>[]~Polled(r)
=============================================================================
