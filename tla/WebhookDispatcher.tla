-------------------------- MODULE WebhookDispatcher --------------------------
(***************************************************************************)
(* Delivery of the webhook outbox: worker processes that claim a batch of  *)
(* pending events under a lease, POST them one after the other while a     *)
(* heartbeat goroutine keeps the lease of the event being sent alive, and  *)
(* mark each one delivered, failed or to be retried; and the operators'    *)
(* requeue and cancel, which may come at any moment.                       *)
(*                                                                         *)
(* Granularity: one step per SQL statement; a POST starts with TakeUp and  *)
(* ends with Answer.  Definitions named ...Variant... are the definition   *)
(* that follows them with one plausible mistake.                           *)
(***************************************************************************)
EXTENDS Integers, FiniteSets

CONSTANTS
    Workers,          \* dispatcher processes, each with its own worker id
    Events,           \* outbox rows: naturals, in order of created_at
    NULL,
    BatchSize, LeaseTime,
    MaxAttempts,      \* min(max_attempts, retry budget + 1)
    InitialBackoff, MaxBackoff,
    Jitter,           \* TRUE: a retry delay may be anything up to twice the doubled one
    Heartbeats,       \* TRUE: a running heartbeat renews before the lease ends
    MaxLag, MaxAhead, \* how far a process's reading of the time may be off
    MaxTime,          \* bound: the horizon of the clock
    MaxAborts,        \* bound: cycles that stop half-way, and renewals that fail
    MaxManual         \* bound: requeue and cancel calls that change a row

ASSUME DispatcherAssumption ==
    /\ Events \subseteq Nat
    /\ NULL \notin Nat \cup Workers \cup {"ok", "error"}
    /\ {BatchSize, LeaseTime, MaxAttempts, InitialBackoff} \subseteq Nat \ {0}
    /\ MaxBackoff \in Nat /\ InitialBackoff <= MaxBackoff
    /\ Jitter \in BOOLEAN /\ Heartbeats \in BOOLEAN
    /\ {MaxLag, MaxAhead, MaxTime, MaxAborts, MaxManual} \subseteq Nat

VARIABLES
    clock,
    delivery,     \* webhook_outbox_events.delivery_status
    attempts, nextAttempt,
    lease,        \* lease_owner / lease_until
    pc, now,      \* per worker: where it is, and the cycle's fixed "now"
    rows, cur,    \* per worker: claimed snapshots still to do, the one in hand
    answer,       \* per worker: the endpoint's answer to the POST of cur
    beat,         \* per worker: the heartbeat goroutine of cur
    aborts, manual,
    tries         \* POSTs begun for each event (recorded for the properties)

rowVars == <<delivery, attempts, nextAttempt, lease>>
workerVars == <<pc, now, rows, cur, answer, beat>>
countVars == <<aborts, manual, tries>>
vars == <<clock, rowVars, workerVars, countVars>>

-----------------------------------------------------------------------------
Times == Nat \cup {NULL}
Snapshots == [id : Events, attempts : 0 .. MaxAttempts]
Leases == [owner : Workers \cup {NULL}, until : Times]
NoLease == [owner |-> NULL, until |-> NULL]

Readings == {n \in 0 .. clock + MaxAhead : n >= clock - MaxLag}

ClaimableVariantLeased(e, n) == delivery[e] = "pending" /\ nextAttempt[e] <= n
ClaimableVariantNoTimeout(e, n) ==
    delivery[e] = "pending" /\ nextAttempt[e] <= n /\ lease[e].until = NULL

(* The WHERE clause of the claim query.  Every event has a destination:    *)
(* one is enqueued only for a request that has a webhook URL.              *)
Claimable(e, n) ==
    /\ delivery[e] = "pending" /\ nextAttempt[e] <= n
    /\ lease[e].until = NULL \/ lease[e].until <= n

Oldest(S) == {e \in S : Cardinality({d \in S : d < e}) < BatchSize}

(* FOR UPDATE SKIP LOCKED: a statement in progress on a row hides it.  The *)
(* statements on outbox rows are single-row and end at once, so only a     *)
(* mark or a renewal that is about to commit is passed over.               *)
InStatement(w) == {cur[v].id : v \in {u \in Workers \ {w} : pc[u] \in {"sending", "mark"}}}

ClaimPendingForDispatch(w) ==
    /\ pc[w] = "idle"
    /\ \E n \in Readings, locked \in SUBSET InStatement(w) :
         LET taken == Oldest({e \in Events \ locked : Claimable(e, n)})
         IN /\ taken # {}
            /\ now' = [now EXCEPT ![w] = n]
            /\ rows' = [rows EXCEPT ![w] = {[id |-> e, attempts |-> attempts[e]] : e \in taken}]
            /\ lease' = [e \in Events |->
                            IF e \in taken THEN [owner |-> w, until |-> n + LeaseTime]
                            ELSE lease[e]]
            /\ pc' = [pc EXCEPT ![w] = "rows"]
    /\ UNCHANGED <<clock, delivery, attempts, nextAttempt, cur, answer, beat, countVars>>

(* The heartbeat goroutine starts and the POST goes out, whatever the row  *)
(* looks like by now.                                                      *)
TakeUp(w) ==
    /\ pc[w] = "rows"
    /\ \E s \in rows[w] :
         /\ cur' = [cur EXCEPT ![w] = s]
         /\ rows' = [rows EXCEPT ![w] = @ \ {s}]
         /\ tries' = [tries EXCEPT ![s.id] = @ + 1]
    /\ pc' = [pc EXCEPT ![w] = "sending"]
    /\ beat' = [beat EXCEPT ![w] = "first"]
    /\ UNCHANGED <<clock, rowVars, now, answer, aborts, manual>>

(* Renewals use the time of day, not the cycle's "now".  One that finds    *)
(* the row settled or taken over, or that fails, is the last.              *)
RenewLease(w) ==
    LET e == cur[w].id
        mine == delivery[e] = "pending" /\ lease[e].owner = w
    IN /\ pc[w] = "sending" /\ beat[w] \in {"first", "on"}
       /\ \/ /\ mine
             /\ \E n \in Readings :
                  lease' = [lease EXCEPT ![e] = [owner |-> w, until |-> n + LeaseTime]]
             /\ beat' = [beat EXCEPT ![w] = "on"]
             /\ UNCHANGED aborts
          \/ /\ IF mine THEN aborts < MaxAborts /\ aborts' = aborts + 1 ELSE UNCHANGED aborts
             /\ beat' = [beat EXCEPT ![w] = "lost"]
             /\ UNCHANGED lease
       /\ UNCHANGED <<clock, delivery, attempts, nextAttempt, pc, now, rows, cur, answer, manual, tries>>

(* The POST ends, and the heartbeat's context is cancelled.  A renewal     *)
(* that has not ended by then ends with an error, the very first one       *)
(* included.                                                               *)
Answer(w) ==
    /\ pc[w] = "sending"
    /\ \E a \in {"ok", "error"} : answer' = [answer EXCEPT ![w] = a]
    /\ \E b \in {beat[w], "lost"} \ {"first"} : beat' = [beat EXCEPT ![w] = b]
    /\ pc' = [pc EXCEPT ![w] = "mark"]
    /\ UNCHANGED <<clock, rowVars, now, rows, cur, countVars>>

-----------------------------------------------------------------------------
(* Marking                                                                 *)

CanMarkVariantOwnerOnly(w, e) == lease[e].owner \in {NULL, w}
CanMark(w, e) == delivery[e] = "pending" /\ lease[e].owner \in {NULL, w}

ExhaustedVariantOneLess(s) == s.attempts + 2 >= MaxAttempts
Exhausted(s) == s.attempts + 1 >= MaxAttempts

(* The delay doubles with every attempt as long as it stays in bounds.     *)
BackoffVariantUnclamped(n) == InitialBackoff * 2 ^ (n - 1)
Backoff(n) == LET doubled == InitialBackoff * 2 ^ (n - 1)
              IN IF doubled \in InitialBackoff .. MaxBackoff THEN doubled ELSE MaxBackoff
(* The jitter takes off or adds up to the whole delay, within the bounds.  *)
Delays(n) == IF Jitter THEN {d \in 1 .. MaxBackoff : d <= 2 * Backoff(n)} ELSE {Backoff(n)}

MarkDelivered(w, e) ==
    /\ delivery' = [delivery EXCEPT ![e] = "delivered"]
    /\ lease' = [lease EXCEPT ![e] = NoLease]
    /\ UNCHANGED <<attempts, nextAttempt>>

MarkFailed(w, s) ==
    /\ delivery' = [delivery EXCEPT ![s.id] = "failed"]
    /\ attempts' = [attempts EXCEPT ![s.id] = s.attempts + 1]
    /\ lease' = [lease EXCEPT ![s.id] = NoLease]
    /\ UNCHANGED nextAttempt

MarkRetry(w, s) ==
    /\ attempts' = [attempts EXCEPT ![s.id] = s.attempts + 1]
    /\ \E d \in Delays(s.attempts + 1) : nextAttempt' = [nextAttempt EXCEPT ![s.id] = now[w] + d]
    /\ lease' = [lease EXCEPT ![s.id] = NoLease]
    /\ UNCHANGED delivery

EndCycle(w, left) ==
    /\ rows' = [rows EXCEPT ![w] = left]
    /\ pc' = [pc EXCEPT ![w] = IF left = {} THEN "idle" ELSE "rows"]
    /\ now' = [now EXCEPT ![w] = IF left = {} THEN 0 ELSE @]
    /\ cur' = [cur EXCEPT ![w] = NULL]
    /\ answer' = [answer EXCEPT ![w] = NULL]
    /\ beat' = [beat EXCEPT ![w] = "off"]

(* A heartbeat error is returned after the mark and ends the whole cycle.  *)
Mark(w) ==
    LET s == cur[w]
    IN /\ pc[w] = "mark"
       /\ \/ CanMark(w, s.id) /\ answer[w] = "ok" /\ MarkDelivered(w, s.id)
          \/ CanMark(w, s.id) /\ answer[w] = "error" /\ Exhausted(s) /\ MarkFailed(w, s)
          \/ CanMark(w, s.id) /\ answer[w] = "error" /\ ~Exhausted(s) /\ MarkRetry(w, s)
          \/ ~CanMark(w, s.id) /\ UNCHANGED rowVars
       /\ EndCycle(w, IF beat[w] = "lost" THEN {} ELSE rows[w])
       /\ UNCHANGED <<clock, countVars>>

(* The process dies, or a repository call fails and Execute returns: what  *)
(* was committed stays.                                                    *)
Abort(w) ==
    /\ pc[w] # "idle" /\ aborts < MaxAborts
    /\ aborts' = aborts + 1
    /\ EndCycle(w, {})
    /\ UNCHANGED <<clock, rowVars, manual, tries>>

-----------------------------------------------------------------------------
(* The operators, and time                                                 *)

RequeueVariantKeepsAttempts(e) ==
    /\ delivery[e] = "failed"
    /\ delivery' = [delivery EXCEPT ![e] = "pending"]
    /\ \E n \in Readings : nextAttempt' = [nextAttempt EXCEPT ![e] = n]
    /\ lease' = [lease EXCEPT ![e] = NoLease]
    /\ UNCHANGED attempts

RequeueFailedByEventID(e) ==
    /\ delivery[e] = "failed"
    /\ delivery' = [delivery EXCEPT ![e] = "pending"]
    /\ attempts' = [attempts EXCEPT ![e] = 0]
    /\ \E n \in Readings : nextAttempt' = [nextAttempt EXCEPT ![e] = n]
    /\ lease' = [lease EXCEPT ![e] = NoLease]

CancelVariantKeepsLease(e) ==
    /\ delivery[e] \in {"pending", "failed"}
    /\ delivery' = [delivery EXCEPT ![e] = "failed"]
    /\ UNCHANGED <<attempts, nextAttempt, lease>>

CancelByEventID(e) ==
    /\ delivery[e] \in {"pending", "failed"}
    /\ delivery' = [delivery EXCEPT ![e] = "failed"]
    /\ lease' = [lease EXCEPT ![e] = NoLease]
    /\ UNCHANGED <<attempts, nextAttempt>>

(* Calls of the operators that change nothing (no such event, or in        *)
(* another status) are left out.                                           *)
ManualCall ==
    /\ manual < MaxManual /\ manual' = manual + 1
    /\ UNCHANGED <<clock, workerVars, aborts, tries>>

RequeueDLQEvent(e) == RequeueFailedByEventID(e) /\ ManualCall
CancelOutboxEvent(e) == CancelByEventID(e) /\ ManualCall

Beating(w) == /\ pc[w] = "sending" /\ beat[w] = "on"
              /\ delivery[cur[w].id] = "pending" /\ lease[cur[w].id].owner = w

Tick ==
    /\ clock < MaxTime
    /\ Heartbeats => \A w \in Workers : Beating(w) => lease[cur[w].id].until > clock + 1 + MaxAhead
    /\ clock' = clock + 1
    /\ UNCHANGED <<rowVars, workerVars, countVars>>

-----------------------------------------------------------------------------
StartWith(initial) ==
    /\ clock = 0 /\ aborts = 0 /\ manual = 0
    /\ delivery = [e \in Events |-> initial]
    /\ attempts = [e \in Events |-> 0]
    /\ nextAttempt = [e \in Events |-> 0]
    /\ lease = [e \in Events |-> NoLease]
    /\ tries = [e \in Events |-> 0]
    /\ pc = [w \in Workers |-> "idle"]
    /\ now = [w \in Workers |-> 0]
    /\ rows = [w \in Workers |-> {}]
    /\ cur = [w \in Workers |-> NULL]
    /\ answer = [w \in Workers |-> NULL]
    /\ beat = [w \in Workers |-> "off"]

(* Every event is in the outbox from the start.                            *)
Init == StartWith("pending")

(* A row that a reconciler inserts, for modules where events come one      *)
(* after the other: "absent" until then.                                   *)
InsertRow(e, due) ==
    /\ delivery[e] = "absent" /\ \A d \in Events : delivery[d] = "absent" => e <= d
    /\ delivery' = [delivery EXCEPT ![e] = "pending"]
    /\ nextAttempt' = [nextAttempt EXCEPT ![e] = due]
    /\ UNCHANGED <<attempts, lease>>

WorkerStep(w) == ClaimPendingForDispatch(w) \/ TakeUp(w) \/ Answer(w) \/ Mark(w)

Next ==
    \/ Tick
    \/ \E w \in Workers : WorkerStep(w) \/ RenewLease(w) \/ Abort(w)
    \/ \E e \in Events : RequeueDLQEvent(e) \/ CancelOutboxEvent(e)

Spec == Init /\ [][Next]_vars
=============================================================================
