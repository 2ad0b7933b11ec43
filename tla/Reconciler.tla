----------------------------- MODULE Reconciler -----------------------------
(***************************************************************************)
(* The payment-request reconciler: several worker processes that poll one  *)
(* PostgreSQL table of payment requests, lease a batch of rows, look at    *)
(* the chain, record the settlement evidence they saw and move the status  *)
(* of each row with a compare-and-set that also enqueues the webhook.      *)
(*                                                                         *)
(* Granularity: one step per SQL statement or transaction and one per call *)
(* of the chain observer; everything else a worker does is local.  A       *)
(* worker may stop between any two steps (crash, or a repository error,    *)
(* which abandons the rest of its batch), and the clock and the chain move *)
(* between any two steps.                                                  *)
(*                                                                         *)
(* Definitions named ...Variant... are not part of the model: each is the  *)
(* definition that follows it with one plausible mistake, and serves to    *)
(* show that some property tells the two apart.                            *)
(***************************************************************************)
EXTENDS Integers, FiniteSets, Sequences

CONSTANTS
    Workers,          \* reconciler processes, each with its own worker id
    Requests,         \* payment requests: naturals, in order of created_at
    Refs,             \* evidence references (txid:vout, tx hash, hash:log)
    NULL,
    ExpiresAt,        \* Requests -> time
    Webhook,          \* requests that have a webhook_url, {} when the outbox is disabled
    BatchSize, LeaseTime, ObserveWindow, StabilityCycles,
    DetectAt, ConfirmAt,  \* how many refs (of one unit each) reach the thresholds
    MayFail,          \* TRUE: the observer may fail, or not support the asset
    ChainEvents,      \* what the chain may do: SUBSET {"mine", "reorg", "remove", "sweep"}
    MaxLag, MaxAhead, \* how far a worker's reading of the time may be behind / ahead
    Punctual,         \* TRUE: no worker is still busy when its lease runs out
    MaxTime,          \* bound: the horizon of the clock
    MaxAborts,        \* bound: cycles that stop half-way
    MaxEvents         \* bound: a request with that many webhook events is not claimed again

ASSUME ReconcilerAssumption ==
    /\ Requests \subseteq Nat
    /\ NULL \notin Nat /\ NULL \notin Workers
    /\ ExpiresAt \in [Requests -> Nat]
    /\ Webhook \subseteq Requests
    /\ {BatchSize, LeaseTime, ObserveWindow, StabilityCycles, DetectAt} \subseteq Nat \ {0}
    /\ ConfirmAt \in Nat /\ DetectAt <= ConfirmAt
    /\ MayFail \in BOOLEAN
    /\ ChainEvents \subseteq {"mine", "reorg", "remove", "sweep"}
    /\ {MaxLag, MaxAhead, MaxTime, MaxAborts, MaxEvents} \subseteq Nat
    /\ Punctual \in BOOLEAN
    /\ Punctual => MaxLag + MaxAhead < LeaseTime

VARIABLES
    clock,        \* true time
    chain,        \* chain[r][e]: how the chain shows transfer e to r's address
    status,       \* payment_requests.status
    meta,         \* payment_requests.metadata -> reconciliation
    lease,        \* payment_requests.reconcile_lease_owner / _until
    settlements,  \* payment_request_settlements.is_canonical per ref
    outbox,       \* webhook_outbox_events of each request, in insertion order
    pc, now,      \* per worker: where it is, and the cycle's fixed "now"
    rows, cur,    \* per worker: claimed snapshots still to do, the one in hand
    view,         \* per worker: the observer's answer for cur
    orphaned,     \* per worker: settlementSummary.NewlyOrphanedCount > 0
    aborts        \* cycles stopped half-way so far

rowVars == <<status, meta, lease, outbox>>
workerVars == <<pc, now, rows, cur, view, orphaned>>
envVars == <<clock, chain, aborts>>
vars == <<envVars, rowVars, settlements, workerVars>>

-----------------------------------------------------------------------------
(* Rows, metadata and the claim                                            *)

OpenStatus == {"pending", "detected", "confirmed", "reorged"}
Statuses == OpenStatus \cup {"expired"}
Notified == {"detected", "confirmed", "reorged", "expired"}
Levels == {"absent", "shallow", "deep", "final", "removed", "spent"}

Times == Nat \cup {NULL}
(* The stored stability signal is "promote" exactly when promote > 0 and   *)
(* "demote" exactly when demote > 0, so the two streaks stand for it.      *)
Metas == [first : Times, final : Times,
          promote : 0 .. StabilityCycles - 1, demote : 0 .. StabilityCycles - 1]
Snapshots == [id : Requests, status : OpenStatus, meta : Metas]
Leases == [owner : Workers \cup {NULL}, until : Times]
Events == [from : OpenStatus, to : Notified]
NoMeta == [first |-> NULL, final |-> NULL, promote |-> 0, demote |-> 0]
NoLease == [owner |-> NULL, until |-> NULL]

Snapshot(r) == [id |-> r, status |-> status[r], meta |-> meta[r]]

MonitoredVariantNoWindow(r, n) == status[r] \in OpenStatus /\ n >= 0
(* The WHERE clause of the claim query, for a worker whose time is n.      *)
Monitored(r, n) ==
    \/ status[r] \in {"pending", "detected"}
    \/ /\ status[r] \in {"confirmed", "reorged"}
       /\ meta[r].first = NULL \/ meta[r].first + ObserveWindow > n
UnleasedVariantAlways(r, n) == lease[r].until \in Times /\ n >= 0
UnleasedVariantNoTimeout(r, n) == lease[r].until = NULL /\ n >= 0
Unleased(r, n) == lease[r].until = NULL \/ lease[r].until <= n
Claimable(r, n) == Monitored(r, n) /\ Unleased(r, n)

(* ORDER BY created_at, id LIMIT BatchSize                                 *)
Oldest(S) == {r \in S : Cardinality({q \in S : q < r}) < BatchSize}

(* The times a worker may read when the true time is clock.                *)
Readings == {n \in 0 .. clock + MaxAhead : n >= clock - MaxLag}

(* Rows another worker's statement may have locked: SKIP LOCKED passes     *)
(* over them.  Claiming or writing a row locks it, and so does inserting a *)
(* settlement that references it; a worker may be at any of these with any *)
(* row it holds.                                                           *)
InStatement(w) ==
    {s.id : s \in UNION {rows[v] \cup ({cur[v]} \ {NULL}) : v \in Workers \ {w}}}

Claim(w) ==
    /\ pc[w] = "idle"
    /\ \E n \in Readings, locked \in SUBSET InStatement(w) :
         LET taken == Oldest({r \in Requests \ locked :
                                 Claimable(r, n) /\ Len(outbox[r]) < MaxEvents})
         IN /\ taken # {}
            /\ now' = [now EXCEPT ![w] = n]
            /\ rows' = [rows EXCEPT ![w] = {Snapshot(r) : r \in taken}]
            /\ lease' = [r \in Requests |->
                            IF r \in taken THEN [owner |-> w, until |-> n + LeaseTime]
                            ELSE lease[r]]
            /\ pc' = [pc EXCEPT ![w] = "rows"]
    /\ UNCHANGED <<envVars, status, meta, outbox, settlements, cur, view, orphaned>>

-----------------------------------------------------------------------------
(* The compare-and-set, in one statement with the outbox insert            *)

CanWriteVariantOwnerOnly(w, s) == lease[s.id].owner \in {NULL, w}
CanWrite(w, s) == status[s.id] = s.status /\ lease[s.id].owner \in {NULL, w}

TransitionStatusIfCurrent(w, s, next, m) ==
    IF CanWrite(w, s)
    THEN /\ status' = [status EXCEPT ![s.id] = next]
         /\ meta' = [meta EXCEPT ![s.id] = m]
         /\ lease' = [lease EXCEPT ![s.id] = NoLease]
         /\ outbox' = IF s.id \in Webhook /\ next # s.status /\ next \in Notified
                      THEN [outbox EXCEPT ![s.id] = Append(@, [from |-> s.status, to |-> next])]
                      ELSE outbox
    ELSE UNCHANGED rowVars

(* The loop goes on with the rows left; an empty batch ends the cycle.     *)
NextRow(w, left) ==
    /\ rows' = [rows EXCEPT ![w] = left]
    /\ pc' = [pc EXCEPT ![w] = IF left = {} THEN "idle" ELSE "rows"]
    /\ cur' = [cur EXCEPT ![w] = NULL]
    /\ view' = [view EXCEPT ![w] = NULL]
    /\ orphaned' = [orphaned EXCEPT ![w] = FALSE]
    /\ now' = [now EXCEPT ![w] = IF left = {} THEN 0 ELSE @]

ShouldExpireVariantAnyOpen(s, n) == s.status \in OpenStatus /\ ExpiresAt[s.id] <= n
ShouldExpireVariantEarly(s, n) ==
    s.status \in {"pending", "detected", "reorged"} /\ ExpiresAt[s.id] <= n + LeaseTime
ShouldExpire(s, n) == s.status \in {"pending", "detected", "reorged"} /\ ExpiresAt[s.id] <= n

ShouldSkip(s, n) ==
    /\ s.status = "confirmed"
    /\ s.meta.first # NULL /\ s.meta.final # NULL
    /\ s.meta.first + ObserveWindow <= n

(* UPDATE ... RETURNING gives the rows in no particular order, so the loop *)
(* may meet any of them next.                                              *)
Expire(w) ==
    /\ pc[w] = "rows"
    /\ \E s \in rows[w] :
         /\ ShouldExpire(s, now[w])
         /\ TransitionStatusIfCurrent(w, s, "expired", NoMeta)
         /\ NextRow(w, rows[w] \ {s})
    /\ UNCHANGED <<envVars, settlements>>

(* The skip branch of the loop rewrites the row without looking at the     *)
(* chain; SkipBranchDead states that no claimed row ever takes it.         *)
Observe(w) ==
    /\ pc[w] = "rows"
    /\ \E s \in rows[w] :
         /\ ~ShouldExpire(s, now[w]) /\ ~ShouldSkip(s, now[w])
         /\ cur' = [cur EXCEPT ![w] = s]
         /\ rows' = [rows EXCEPT ![w] = @ \ {s}]
         /\ \/ /\ view' = [view EXCEPT ![w] = chain[s.id]]
               /\ pc' = [pc EXCEPT ![w] = "sync"]
            \/ /\ MayFail
               /\ pc' = [pc EXCEPT ![w] = "failed"]
               /\ UNCHANGED view
    /\ UNCHANGED <<envVars, rowVars, settlements, now, orphaned>>

-----------------------------------------------------------------------------
(* What an observation says, and the settlement rows it leaves             *)

Showing(v, levels) == {e \in Refs : v[e] \in levels}
Reported(v)  == Showing(v, {"shallow", "deep", "final", "removed"})
Confirmed(v) == Cardinality(Showing(v, {"deep", "final"})) >= ConfirmAt
Finality(v)  == Cardinality(Showing(v, {"final"})) >= ConfirmAt
Detected(v)  == ~Confirmed(v) /\ Cardinality(Showing(v, {"shallow", "deep", "final", "spent"})) >= DetectAt

(* The loop over what was observed inserts or updates one row per ref.     *)
Upserted(v, flags) ==
    [e \in Refs |-> CASE v[e] \in {"shallow", "deep", "final"} -> "canonical"
                      [] v[e] = "removed" -> "orphaned"
                      [] OTHER -> flags[e]]

(* The UPDATE of the canonical rows that were not observed, counted by its *)
(* row count: a ref reported as removed was updated by the loop already.   *)
NewlyOrphaned(v, flags) == {e \in Refs \ Reported(v) : flags[e] = "canonical"}

SyncVariantCountsNothing(w) ==
    LET r == cur[w].id
        orphans == NewlyOrphaned(view[w], settlements[r])
    IN /\ pc[w] = "sync"
       /\ settlements' = [settlements EXCEPT ![r] = [e \in Refs |->
              IF e \in orphans THEN "orphaned" ELSE Upserted(view[w], @)[e]]]
       /\ orphaned' = [orphaned EXCEPT ![w] = FALSE]
       /\ pc' = [pc EXCEPT ![w] = "write"]
       /\ UNCHANGED <<envVars, rowVars, now, rows, cur, view>>

SyncObservedSettlements(w) ==
    LET r == cur[w].id
        orphans == NewlyOrphaned(view[w], settlements[r])
    IN /\ pc[w] = "sync"
       /\ settlements' = [settlements EXCEPT ![r] = [e \in Refs |->
              IF e \in orphans THEN "orphaned" ELSE Upserted(view[w], @)[e]]]
       /\ orphaned' = [orphaned EXCEPT ![w] = orphans # {}]
       /\ pc' = [pc EXCEPT ![w] = "write"]
       /\ UNCHANGED <<envVars, rowVars, now, rows, cur, view>>

-----------------------------------------------------------------------------
(* The decision                                                            *)

Demoting(s, v, orph)  == s.status = "confirmed" /\ (~Confirmed(v) \/ orph)
Promoting(s, v) == s.status \in {"pending", "detected", "reorged"} /\ Confirmed(v)

TargetVariantOffByOne(s, v, orph) ==
    CASE Demoting(s, v, orph) /\ (orph \/ s.meta.demote + 1 > StabilityCycles) -> "reorged"
      [] Promoting(s, v) /\ s.meta.promote + 1 > StabilityCycles -> "confirmed"
      [] s.status = "pending" /\ Detected(v) -> "detected"
      [] OTHER -> s.status

Target(s, v, orph) ==
    CASE Demoting(s, v, orph) /\ (orph \/ s.meta.demote + 1 >= StabilityCycles) -> "reorged"
      [] Promoting(s, v) /\ s.meta.promote + 1 >= StabilityCycles -> "confirmed"
      [] s.status = "pending" /\ Detected(v) -> "detected"
      [] OTHER -> s.status

MetadataVariantKeepsFinality(s, v, orph, n) ==
    LET next == Target(s, v, orph)
        stays == next = s.status
    IN [first   |-> IF next = "confirmed" /\ s.meta.first = NULL THEN n ELSE s.meta.first,
        final   |-> IF next = "confirmed" /\ Finality(v) THEN n ELSE s.meta.final,
        promote |-> IF stays /\ Promoting(s, v) THEN s.meta.promote + 1 ELSE 0,
        demote  |-> IF stays /\ Demoting(s, v, orph) THEN s.meta.demote + 1 ELSE 0]

MetadataVariantMovesAnchor(s, v, orph, n) ==
    LET next == Target(s, v, orph)
        stays == next = s.status
    IN [first   |-> IF next = "confirmed" THEN n ELSE s.meta.first, final |-> NULL,
        promote |-> IF stays /\ Promoting(s, v) THEN s.meta.promote + 1 ELSE 0,
        demote  |-> IF stays /\ Demoting(s, v, orph) THEN s.meta.demote + 1 ELSE 0]

MetadataVariantKeepsStreaks(s, v, orph, n) ==
    LET stays == Target(s, v, orph) = s.status
    IN [first   |-> s.meta.first, final |-> s.meta.final,
        promote |-> IF stays /\ Promoting(s, v) THEN s.meta.promote + 1 ELSE s.meta.promote,
        demote  |-> IF stays /\ Demoting(s, v, orph) THEN s.meta.demote + 1 ELSE s.meta.demote]

BuildObservationMetadata(s, v, orph, n) ==
    LET next == Target(s, v, orph)
        stays == next = s.status
    IN [first   |-> IF next = "confirmed" /\ s.meta.first = NULL THEN n ELSE s.meta.first,
        final   |-> CASE next = "confirmed" /\ Finality(v) -> n
                      [] next = "reorged" -> NULL
                      [] OTHER -> s.meta.final,
        promote |-> IF stays /\ Promoting(s, v) THEN s.meta.promote + 1 ELSE 0,
        demote  |-> IF stays /\ Demoting(s, v, orph) THEN s.meta.demote + 1 ELSE 0]

Write(w) ==
    LET s == cur[w]
    IN /\ pc[w] = "write"
       /\ TransitionStatusIfCurrent(w, s, Target(s, view[w], orphaned[w]),
              BuildObservationMetadata(s, view[w], orphaned[w], now[w]))
       /\ NextRow(w, rows[w])
       /\ UNCHANGED <<envVars, settlements>>

(* The observer failed or does not support the asset: the status is kept   *)
(* and the whole "reconciliation" object is replaced by the error report.  *)
WriteFault(w) ==
    /\ pc[w] = "failed"
    /\ TransitionStatusIfCurrent(w, cur[w], cur[w].status, NoMeta)
    /\ NextRow(w, rows[w])
    /\ UNCHANGED <<envVars, settlements>>

(* The process dies, or a repository call fails and Execute returns: what  *)
(* was committed stays, the rows left keep their lease until it runs out.  *)
Abort(w) ==
    /\ pc[w] # "idle"
    /\ aborts < MaxAborts
    /\ aborts' = aborts + 1
    /\ NextRow(w, {})
    /\ UNCHANGED <<clock, chain, rowVars, settlements>>

-----------------------------------------------------------------------------
(* The environment                                                         *)

LeaseEnd(w) == now[w] + LeaseTime

Tick ==
    /\ clock < MaxTime
    /\ Punctual => \A w \in Workers : pc[w] # "idle" => clock + 1 + MaxAhead < LeaseEnd(w)
    /\ clock' = clock + 1
    /\ UNCHANGED <<chain, aborts, rowVars, settlements, workerVars>>

ChainMoves ==
    [mine   |-> {<<"absent", "shallow">>, <<"shallow", "deep">>, <<"deep", "final">>},
     reorg  |-> {<<"shallow", "absent">>, <<"deep", "absent">>, <<"deep", "shallow">>,
                 <<"removed", "absent">>},
     remove |-> {<<"shallow", "removed">>, <<"deep", "removed">>},
     sweep  |-> {<<"deep", "spent">>, <<"final", "spent">>}]

(* A transfer is mined, gains confirmations, is reorganised away, is       *)
(* reported as removed, or (an output) is spent by the wallet's owner.     *)
ChainStep ==
    /\ \E r \in Requests, e \in Refs, kind \in ChainEvents :
         \E move \in ChainMoves[kind] :
            /\ chain[r][e] = move[1]
            /\ chain' = [chain EXCEPT ![r][e] = move[2]]
    /\ UNCHANGED <<clock, aborts, rowVars, settlements, workerVars>>

-----------------------------------------------------------------------------
Init ==
    /\ clock = 0 /\ aborts = 0
    /\ chain = [r \in Requests |-> [e \in Refs |-> "absent"]]
    /\ status = [r \in Requests |-> "pending"]
    /\ meta = [r \in Requests |-> NoMeta]
    /\ lease = [r \in Requests |-> NoLease]
    /\ settlements = [r \in Requests |-> [e \in Refs |-> "none"]]
    /\ outbox = [r \in Requests |-> <<>>]
    /\ pc = [w \in Workers |-> "idle"]
    /\ now = [w \in Workers |-> 0]
    /\ rows = [w \in Workers |-> {}]
    /\ cur = [w \in Workers |-> NULL]
    /\ view = [w \in Workers |-> NULL]
    /\ orphaned = [w \in Workers |-> FALSE]

WorkerStep(w) ==
    \/ Claim(w) \/ Expire(w) \/ Observe(w) \/ SyncObservedSettlements(w)
    \/ Write(w) \/ WriteFault(w)

Next == Tick \/ ChainStep \/ \E w \in Workers : WorkerStep(w) \/ Abort(w)

Spec == Init /\ [][Next]_vars

=============================================================================
