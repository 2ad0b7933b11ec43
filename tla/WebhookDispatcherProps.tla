----------------------- MODULE WebhookDispatcherProps -----------------------
(***************************************************************************)
(* What must hold of the delivery of webhook events.                       *)
(***************************************************************************)
EXTENDS WebhookDispatcher

RowType ==
    /\ delivery \in [Events -> {"pending", "delivered", "failed"}]
    /\ attempts \in [Events -> 0 .. MaxAttempts]
    /\ nextAttempt \in [Events -> Nat]
    /\ lease \in [Events -> Leases]

WorkerType ==
    /\ pc \in [Workers -> {"idle", "rows", "sending", "mark"}]
    /\ now \in [Workers -> Nat]
    /\ rows \in [Workers -> SUBSET Snapshots]
    /\ cur \in [Workers -> Snapshots \cup {NULL}]
    /\ answer \in [Workers -> {"ok", "error", NULL}]
    /\ beat \in [Workers -> {"off", "first", "on", "lost"}]
    /\ \A w \in Workers : pc[w] \in {"sending", "mark"} => cur[w] \in Snapshots
    /\ \A w \in Workers : pc[w] = "mark" => answer[w] # NULL /\ beat[w] \in {"on", "lost"}

CountType == clock \in Nat /\ aborts \in Nat /\ manual \in Nat /\ tries \in [Events -> Nat]

(* Every variable has its type: in particular no snapshot of an event that *)
(* used up its attempts is ever in a worker's hands.                       *)
TypeOK ==
    /\ RowType /\ WorkerType /\ CountType
    /\ \A w \in Workers : \A s \in rows[w] : s.attempts < MaxAttempts

(* "While worker heartbeats normally, the same event is not reclaimable by *)
(* other workers before send attempt completes" (webhook-lease-heartbeat-  *)
(* renewal).  No two workers POST the same event while the heartbeats of   *)
(* both think the lease is theirs, unless an operator intervened.          *)
HeartbeatMutex ==
    \A v, w \in Workers :
        /\ v # w /\ pc[v] = "sending" /\ pc[w] = "sending" /\ cur[v].id = cur[w].id
        /\ beat[v] = "on" /\ beat[w] = "on"
        => manual > 0

(* An event that is delivered or failed carries no lease, whoever put it   *)
(* there: a requeued event can be claimed at once.                         *)
SettledUnleased == \A e \in Events : delivery[e] # "pending" => lease[e] = NoLease

(* The attempts recorded never exceed the POSTs that were made, although   *)
(* they are written from snapshots that may be stale; so an event that no  *)
(* operator touched fails only after MaxAttempts POSTs of it.              *)
FailedAfterBudget ==
    manual = 0 => \A e \in Events : /\ attempts[e] <= tries[e]
                                    /\ delivery[e] = "failed" => tries[e] >= MaxAttempts

(* No retry is put off further than MaxBackoff from now.                   *)
RetryBounded == \A e \in Events : nextAttempt[e] <= clock + MaxAhead + MaxBackoff

(* A delivered event stays delivered, and a failed or cancelled one leaves *)
(* that status only when an operator requeues it with fresh attempts: a    *)
(* worker whose POST was under way when the row was settled changes        *)
(* nothing.                                                                *)
SettledStays ==
    [][\A e \in Events :
         delivery[e] # "pending" /\ delivery'[e] # delivery[e] =>
            /\ delivery[e] = "failed" /\ delivery'[e] = "pending"
            /\ attempts'[e] = 0 /\ manual' = manual + 1]_vars

-----------------------------------------------------------------------------
(* What the documents promise and the code does not do.                    *)

(* "if renewal fails, continue existing mark logic and rely on lease       *)
(* expiry recovery model" and "renewal must not block delivery loop        *)
(* progress for other events" (webhook-lease-heartbeat-renewal).  A mark   *)
(* leaves the rest of the batch in the worker's hands.                     *)
RenewalFailureKeepsBatch ==
    [][\A w \in Workers : pc[w] = "mark" /\ aborts' = aborts => rows'[w] = rows[w]]_vars
=============================================================================
