---------------------------- MODULE Notification ----------------------------
(***************************************************************************)
(* From a change of status to the client's endpoint: the reconcilers, as   *)
(* the payment lifecycle they implement (ReconcilerProofs), insert a row   *)
(* into the outbox in the statement that changes the status; the           *)
(* dispatchers deliver the rows (WebhookDispatcher); the endpoint accepts  *)
(* a POST, refuses it, or is not heard of.                                 *)
(***************************************************************************)
EXTENDS WebhookDispatcherLive, Sequences

CONSTANTS
    Requests,
    Webhook,     \* the requests with a webhook URL, the outbox being enabled
    Course,      \* bound: the edges of the lifecycle that requests take
    MaxCycle     \* how long before its statements a reconciler's cycle began

VARIABLES
    status,     \* payment_requests.status
    outbox,     \* per request: the changes that were enqueued, in order
    report,     \* per outbox row: the request and the change it reports
    accepted    \* the events the endpoint has answered 2xx to

Lifecycle == INSTANCE PaymentLifecycle

ASSUME NotificationAssumption ==
    /\ Webhook \subseteq Requests
    /\ Course \subseteq Lifecycle!Edges
    /\ MaxCycle \in Nat
    /\ NULL \notin [request : Requests, change : Nat, state : {"owed", "told", "dropped"}]

requestVars == <<status, outbox, report>>
allVars == <<vars, requestVars, accepted>>

-----------------------------------------------------------------------------
CycleStarts == {n \in 0 .. clock + MaxAhead : n >= clock - MaxLag - MaxCycle}

(* The payload names the change; the row is due at the "now" of the cycle  *)
(* that decided it, which may be long ago.                                 *)
InsertEvent(e, r) ==
    /\ \E n \in CycleStarts : InsertRow(e, n)
    /\ report' = [report EXCEPT ![e] = [request |-> r, change |-> Len(outbox[r]) + 1]]

(* Each change is one statement of a reconciler: it updates the status and *)
(* inserts the event.                                                      *)
TransitionStatusIfCurrent(r) ==
    /\ \E edge \in Course : Lifecycle!Move(r, edge[1], edge[2])
    /\ IF r \in Webhook THEN \E e \in Events : InsertEvent(e, r)
                        ELSE UNCHANGED <<rowVars, report>>
    /\ UNCHANGED <<clock, workerVars, countVars, accepted>>

-----------------------------------------------------------------------------
(* What comes of a request to the endpoint: its status code is 2xx or it   *)
(* is not, or none arrives, be it that the endpoint never saw the request. *)
Responses == {"2xx", "other", "none"}

SendVariantAnyStatus(response) == IF response = "none" THEN "error" ELSE "ok"
SendWebhookEvent(response) == IF response = "2xx" THEN "ok" ELSE "error"

(* The endpoint may have accepted what the sender never heard of.          *)
Heard(w, response) ==
    CASE response = "2xx" -> {accepted \cup {cur[w].id}}
      [] response = "none" -> {accepted, accepted \cup {cur[w].id}}
      [] OTHER -> {accepted}

Post(w) ==
    /\ Answer(w)
    /\ \E response \in Responses :
         /\ answer'[w] = SendWebhookEvent(response)
         /\ accepted' \in Heard(w, response)
    /\ UNCHANGED requestVars

(* The process may die with a POST under way.                              *)
Crash(w) ==
    /\ Abort(w)
    /\ accepted' \in IF pc[w] = "sending" THEN Heard(w, "none") ELSE {accepted}
    /\ UNCHANGED requestVars

Deliver(w) ==
    \/ Post(w)
    \/ /\ ClaimPendingForDispatch(w) \/ TakeUp(w) \/ Mark(w)
       /\ UNCHANGED <<requestVars, accepted>>

Others ==
    /\ \/ (Tick \/ TimePasses) /\ Prompt
       \/ \E w \in Workers : RenewLease(w)
       \/ \E e \in Events : RequeueDLQEvent(e) \/ CancelOutboxEvent(e)
    /\ UNCHANGED <<requestVars, accepted>>

-----------------------------------------------------------------------------
NotificationInit ==
    /\ StartWith("absent")
    /\ Lifecycle!Init
    /\ report = [e \in Events |-> NULL]
    /\ accepted = {}

NotificationNext ==
    \/ \E r \in Requests : TransitionStatusIfCurrent(r)
    \/ \E w \in Workers : Deliver(w) \/ Crash(w)
    \/ Others

(* The same fairness as the dispatcher alone: time and the workers go on.  *)
(* No change of status has to happen.                                      *)
NotificationSpec ==
    /\ NotificationInit /\ [][NotificationNext]_allVars
    /\ WF_allVars((Tick \/ TimePasses) /\ Prompt /\ UNCHANGED <<requestVars, accepted>>)
    /\ \A w \in Workers : WF_allVars(Deliver(w))

-----------------------------------------------------------------------------
(* What the client sees of a row.                                          *)
Noticed(e) == CASE delivery[e] = "pending" -> "owed"
                [] delivery[e] = "delivered" -> "told"
                [] OTHER -> "dropped"

Notice == [e \in Events |->
             IF delivery[e] = "absent" THEN NULL
             ELSE [request |-> report[e].request, change |-> report[e].change, state |-> Noticed(e)]]

Client == INSTANCE StatusNotification WITH
    Notices <- Events, notice <- Notice, accepted <- accepted,
    status <- status, outbox <- outbox

(* Every change of a request with a webhook owes its client one notice,    *)
(* from the very step that changes the status; the notice ends up accepted *)
(* by the endpoint or dropped, and is recorded as delivered only when the  *)
(* endpoint did accept it, whichever workers crash, outlive their leases   *)
(* or mark from old snapshots (webhook-status-outbox-delivery, FR-001..4). *)
NotificationImplements == Client!NoticeSpec
=============================================================================
