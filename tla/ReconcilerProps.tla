--------------------------- MODULE ReconcilerProps ---------------------------
(***************************************************************************)
(* What must hold of the reconciler.  The type invariant comes first, then *)
(* the lease, the status, the metadata and the evidence.                   *)
(***************************************************************************)
EXTENDS Reconciler

Lifecycle == INSTANCE PaymentLifecycle WITH status <- status, outbox <- outbox,
                                               Requests <- Requests, Webhook <- Webhook

EnvType ==
    /\ clock \in Nat /\ aborts \in Nat
    /\ chain \in [Requests -> [Refs -> Levels]]
    /\ settlements \in [Requests -> [Refs -> {"none", "canonical", "orphaned"}]]

RowType ==
    /\ status \in [Requests -> Statuses]
    /\ meta \in [Requests -> Metas]
    /\ lease \in [Requests -> Leases]
    /\ outbox \in [Requests -> Seq(Events)]

WorkerType ==
    /\ pc \in [Workers -> {"idle", "rows", "sync", "write", "failed"}]
    /\ now \in [Workers -> Nat]
    /\ rows \in [Workers -> SUBSET Snapshots]
    /\ cur \in [Workers -> Snapshots \cup {NULL}]
    /\ view \in [Workers -> [Refs -> Levels] \cup {NULL}]
    /\ orphaned \in [Workers -> BOOLEAN]
    /\ \A w \in Workers : pc[w] \in {"sync", "write", "failed"} => cur[w] \in Snapshots
    /\ \A w \in Workers : pc[w] \in {"idle", "rows"} => cur[w] = NULL
    /\ \A w \in Workers : pc[w] \in {"sync", "write"} => view[w] \in [Refs -> Levels]
    /\ \A w \in Workers : pc[w] = "idle" => rows[w] = {}

(* Every variable has its type, a worker has a row in hand exactly between *)
(* taking it up and writing it, and an idle worker holds nothing.          *)
TypeOK == EnvType /\ RowType /\ WorkerType

(* The snapshots worker w still has to deal with, the one in hand too.     *)
InHand(w) == pc[w] \in {"sync", "write", "failed"}
Held(w) == rows[w] \cup (IF InHand(w) THEN {cur[w]} ELSE {})

(* Two replicas never work on the same request while both leases run: a    *)
(* row is claimable again only when its reconcile_lease_until has passed   *)
(* (specs/2026-02-20-reconciler-horizontal-scaling, NFR-001).  A lease     *)
(* counts as running until the fastest clock in the fleet sees it end.     *)
LeaseRuns(w) == LeaseEnd(w) > clock + MaxAhead
LeaseMutex ==
    \A v, w \in Workers : \A s \in Held(v), t \in Held(w) :
        v # w /\ s.id = t.id => ~LeaseRuns(v) \/ ~LeaseRuns(w)

(* The branch that skips a confirmed row whose observe window is over is   *)
(* never taken: the claim query has already left such a row out, even when *)
(* finality was reached.                                                   *)
SkipBranchDead == \A w \in Workers : \A s \in Held(w) : ~ShouldSkip(s, now[w])

(* Status and outbox move together along the documented lifecycle, even    *)
(* with stale workers, crashes and clock skew.                             *)
ImplementsLifecycle == Lifecycle!Spec

(* The events enqueued for a request are its whole status history.         *)
OutboxIsHistory == Lifecycle!OutboxIsHistory

(* finality_reached_at is only ever recorded next to a confirmed status    *)
(* and first_confirmed_at next to a confirmed or reorged one: expiry and   *)
(* rollback clear what no longer holds.                                    *)
FinalityOnlyWhileConfirmed ==
    \A r \in Requests :
        /\ meta[r].final # NULL => status[r] = "confirmed" /\ meta[r].first # NULL
        /\ meta[r].first # NULL => status[r] \in {"confirmed", "reorged"}

-----------------------------------------------------------------------------
(* The next ones hold when every worker finishes within its lease.         *)

(* The compare-and-set compares the status and the lease owner only, and   *)
(* then overwrites the metadata with values computed from the claimed      *)
(* snapshot.  Whenever it succeeds, the row's status and metadata are      *)
(* still the ones claimed: no streak, no first_confirmed_at and no         *)
(* finality_reached_at written in between is lost.                         *)
SnapshotFresh ==
    \A w \in Workers : \A s \in Held(w) : CanWrite(w, s) => Snapshot(s.id) = s

(* The start of the reorg observe window stays where the first             *)
(* confirmation put it, through rollback and reconfirmation; only expiry   *)
(* and a failed observation remove it.                                     *)
AnchorStable ==
    [][\A r \in Requests :
         meta[r].first # NULL /\ meta'[r].first # meta[r].first =>
            \/ status'[r] = "expired"
            \/ \E w \in Workers : pc[w] = "failed" /\ cur[w].id = r /\ cur'[w] = NULL]_vars

(* A request is closed as expired only once its deadline has passed, and   *)
(* never out of the confirmed status.                                      *)
ExpiredAfterDeadline ==
    [][\A r \in Requests :
         status[r] # "expired" /\ status'[r] = "expired" =>
            ExpiresAt[r] <= clock + MaxAhead /\ status[r] # "confirmed"]_vars
-----------------------------------------------------------------------------
(* What the documents promise and the code does not do.                    *)

(* "If finality is not reached, request remains claimable regardless of    *)
(* window elapsed" (reorg-recovery-finality-policy, FR-004 AC3).  The      *)
(* claim query looks at the window only.                                   *)
UnfinalStaysClaimable ==
    \A r \in Requests :
        status[r] = "confirmed" /\ meta[r].final = NULL /\ Unleased(r, clock)
            => Claimable(r, clock)

(* "observer endpoint timeout keeps current row unchanged" (02_design.md   *)
(* of the same specification).  The cycle of a failed observation leaves   *)
(* the status and the reconciliation record of its row as they were.       *)
FailedObservationKeepsRow ==
    [][\A w \in Workers :
         pc[w] = "failed" /\ cur'[w] = NULL =>
            status'[cur[w].id] = status[cur[w].id] /\ meta'[cur[w].id] = meta[cur[w].id]]_vars
=============================================================================
