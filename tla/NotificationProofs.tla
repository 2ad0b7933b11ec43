------------------------- MODULE NotificationProofs -------------------------
(***************************************************************************)
(* What a client with a webhook can rely on, for any number of requests,   *)
(* events and workers and any timing: the safety part of the refinement    *)
(* that the Notification run checks with its liveness.                     *)
(***************************************************************************)
EXTENDS Notification, TLAPS

Stages == {"pending", "detected", "confirmed", "reorged", "expired"}
Reports == [request : Requests, change : Nat]

RowInv ==
    /\ delivery \in [Events -> {"absent", "pending", "delivered", "failed"}]
    /\ report \in [Events -> Reports \cup {NULL}]
    /\ \A e \in Events : delivery[e] # "absent" => report[e] \in Reports
    /\ outbox \in [Requests -> Seq([from : Stages, to : Stages])]

Present(e) == e \in Events /\ delivery[e] # "absent"

(* What a worker holds is in the outbox, and it takes an event for         *)
(* delivered only when the endpoint has accepted it.                       *)
WorkerInv ==
    /\ DOMAIN pc = Workers /\ DOMAIN rows = Workers
    /\ DOMAIN cur = Workers /\ DOMAIN answer = Workers
    /\ \A w \in Workers : \A s \in rows[w] : Present(s.id)
    /\ \A w \in Workers : pc[w] \in {"sending", "mark"} => Present(cur[w].id)
    /\ \A w \in Workers : pc[w] = "mark" /\ answer[w] = "ok" => cur[w].id \in accepted

NoticeInv == RowInv /\ WorkerInv

-----------------------------------------------------------------------------
(* The state of one notice                                                 *)

LEMMA NoticeIs ==
    ASSUME RowInv, NEW e \in Events
    PROVE  /\ delivery[e] = "absent" => Notice[e] = NULL
           /\ delivery[e] # "absent" =>
                /\ Notice[e] = [request |-> report[e].request, change |-> report[e].change,
                                state |-> Noticed(e)]
                /\ Notice[e] # NULL
  <1>1. delivery[e] # "absent" =>
          /\ report[e].request \in Requests /\ report[e].change \in Nat
          /\ Noticed(e) \in {"owed", "told", "dropped"}
    BY DEF RowInv, Reports, Noticed
  <1>2. Notice[e] = IF delivery[e] = "absent" THEN NULL
                    ELSE [request |-> report[e].request, change |-> report[e].change, state |-> Noticed(e)]
    BY DEF Notice
  <1> QED
    BY <1>1, <1>2, NotificationAssumption

(* Nothing but the rows' delivery status and reports is seen.              *)
LEMMA SameNotice ==
    ASSUME UNCHANGED <<delivery, report>>
    PROVE  UNCHANGED Notice
  BY DEF Notice, Noticed

(* One row changes its delivery status.                                    *)
LEMMA NoticeMoves ==
    ASSUME RowInv, NEW e \in Events, NEW to \in {"pending", "delivered", "failed"},
           delivery[e] # "absent",
           delivery' = [delivery EXCEPT ![e] = to], report' = report
    PROVE  Notice' = [Notice EXCEPT ![e].state = Noticed(e)']
  <1>1. Notice' = [d \in Events |->
                     IF delivery'[d] = "absent" THEN NULL
                     ELSE [request |-> report[d].request, change |-> report[d].change, state |-> Noticed(d)']]
    BY DEF Notice
  <1>2. /\ delivery'[e] = to
        /\ \A d \in Events \ {e} : delivery'[d] = delivery[d] /\ Noticed(d)' = Noticed(d)
    BY DEF RowInv, Noticed
  <1>3. \A d \in Events \ {e} : Notice'[d] = Notice[d]
    BY <1>1, <1>2 DEF Notice
  <1>4. Notice'[e] = [request |-> report[e].request, change |-> report[e].change, state |-> Noticed(e)']
    BY <1>1, <1>2
  <1>5. Notice[e] = [request |-> report[e].request, change |-> report[e].change, state |-> Noticed(e)]
    BY NoticeIs
  <1>6. [Notice[e] EXCEPT !.state = Noticed(e)'] = Notice'[e]
    BY <1>4, <1>5
  <1>7. DOMAIN Notice = Events /\ Notice = [d \in Events |-> Notice[d]]
    BY DEF Notice
  <1>8. Notice' = [d \in Events |-> Notice'[d]]
    BY <1>1
  <1> HIDE DEF Notice
  <1>9. [Notice EXCEPT ![e].state = Noticed(e)'] =
          [d \in Events |-> IF d = e THEN [Notice[e] EXCEPT !.state = Noticed(e)'] ELSE Notice[d]]
    BY <1>7
  <1> QED
    BY <1>3, <1>6, <1>8, <1>9

-----------------------------------------------------------------------------
(* Frames                                                                  *)

LEMMA WorkersHold ==
    ASSUME WorkerInv, UNCHANGED workerVars, accepted \subseteq accepted',
           \A e \in Events : delivery[e] # "absent" => delivery'[e] # "absent"
    PROVE  WorkerInv'
  BY DEF WorkerInv, Present, workerVars

LEMMA EndCycleHolds ==
    ASSUME NoticeInv, NEW w \in Workers, NEW left \in SUBSET rows[w], EndCycle(w, left),
           accepted \subseteq accepted',
           \A e \in Events : delivery[e] # "absent" => delivery'[e] # "absent"
    PROVE  WorkerInv'
  BY DEF NoticeInv, WorkerInv, Present, EndCycle

-----------------------------------------------------------------------------
(* A change of status                                                      *)

LEMMA ChangeStep ==
    ASSUME NoticeInv, NEW r \in Requests, TransitionStatusIfCurrent(r)
    PROVE  NoticeInv' /\ Client!NoticeNext
  <1>1. PICK edge \in Course : Lifecycle!Move(r, edge[1], edge[2])
    BY DEF TransitionStatusIfCurrent
  <1>2. edge \in Client!Edges /\ edge[1] \in Stages /\ edge[2] \in Stages
    BY NotificationAssumption DEF Lifecycle!Edges, Client!Edges, Stages
  <1>3. Client!Move(r, edge[1], edge[2])
    BY <1>1 DEF Lifecycle!Move, Client!Move
  <1>4. /\ UNCHANGED <<workerVars, accepted>>
        /\ IF r \in Webhook THEN \E e \in Events : InsertEvent(e, r)
                            ELSE UNCHANGED <<rowVars, report>>
    BY DEF TransitionStatusIfCurrent
  <1>5. outbox' \in [Requests -> Seq([from : Stages, to : Stages])]
    <2>1. [from |-> edge[1], to |-> edge[2]] \in [from : Stages, to : Stages]
      BY <1>2
    <2>2. \A log \in Seq([from : Stages, to : Stages]) :
            Append(log, [from |-> edge[1], to |-> edge[2]]) \in Seq([from : Stages, to : Stages])
      BY <2>1
    <2> QED
      BY <1>1, <2>2 DEF Lifecycle!Move, NoticeInv, RowInv
  <1>6. CASE r \in Webhook
    <2>1. PICK e \in Events : InsertEvent(e, r)
      BY <1>4, <1>6
    <2> DEFINE new == [request |-> r, change |-> Len(outbox[r]) + 1]
    <2>2. /\ delivery[e] = "absent" /\ delivery' = [delivery EXCEPT ![e] = "pending"]
          /\ report' = [report EXCEPT ![e] = new]
      BY <2>1 DEF InsertEvent, InsertRow
    <2>3. new \in Reports
      BY DEF NoticeInv, RowInv, Reports
    <2>4. RowInv'
      <3> HIDE DEF new
      <3> QED
        BY <1>5, <2>2, <2>3 DEF NoticeInv, RowInv
    <2>5. WorkerInv'
      BY <1>4, <2>2, WorkersHold DEF NoticeInv, RowInv
    <2>6. ~Client!Known(e)
      BY <2>2, NoticeIs DEF Client!Known, NoticeInv
    <2>7. Notice' = [Notice EXCEPT ![e] = [request |-> r, change |-> Len(outbox[r]) + 1, state |-> "owed"]]
      <3>1. \A d \in Events \ {e} : /\ delivery'[d] = delivery[d] /\ report'[d] = report[d]
                                    /\ Noticed(d)' = Noticed(d)
        BY <2>2 DEF NoticeInv, RowInv, Noticed
      <3>2. delivery'[e] = "pending" /\ report'[e] = new /\ Noticed(e)' = "owed"
        BY <2>2 DEF NoticeInv, RowInv, Noticed
      <3>3. Notice' = [d \in Events |->
                 IF delivery'[d] = "absent" THEN NULL
                 ELSE [request |-> report'[d].request, change |-> report'[d].change, state |-> Noticed(d)']]
        BY DEF Notice
      <3>4. Notice'[e] = [request |-> r, change |-> Len(outbox[r]) + 1, state |-> "owed"]
        BY <3>2, <3>3
      <3>5. \A d \in Events \ {e} : Notice'[d] = Notice[d]
        BY <3>1, <3>3 DEF Notice
      <3>6. DOMAIN Notice = Events /\ Notice' = [d \in Events |-> Notice'[d]]
        BY <3>3 DEF Notice
      <3> HIDE DEF Notice
      <3> QED
        BY <3>4, <3>5, <3>6
    <2>8. Client!Change(r, edge[1], edge[2])
      BY <1>3, <1>4, <1>6, <2>6, <2>7 DEF Client!Change
    <2> QED
      BY <1>2, <2>4, <2>5, <2>8 DEF NoticeInv, Client!NoticeNext
  <1>7. CASE r \notin Webhook
    <2>1. UNCHANGED <<delivery, report>>
      BY <1>4, <1>7 DEF rowVars
    <2>2. RowInv' /\ WorkerInv'
      BY <1>4, <1>5, <2>1, WorkersHold DEF NoticeInv, RowInv
    <2>3. Client!Change(r, edge[1], edge[2])
      BY <1>3, <1>4, <1>7, <2>1, SameNotice DEF Client!Change
    <2> QED
      BY <1>2, <2>2, <2>3 DEF NoticeInv, Client!NoticeNext
  <1> QED
    BY <1>6, <1>7

-----------------------------------------------------------------------------
(* What the dispatchers and the endpoint do                                *)

StepHolds == NoticeInv' /\ (Client!NoticeNext \/ UNCHANGED Client!noticeVars)

(* Steps that change neither a status nor what is seen of a row.           *)
LEMMA QuietStep ==
    ASSUME NoticeInv, WorkerInv', UNCHANGED <<delivery, requestVars, accepted>>
    PROVE  StepHolds
  BY SameNotice DEF StepHolds, NoticeInv, RowInv, requestVars, Client!noticeVars

(* The endpoint accepts an event of the outbox, or hears of none.          *)
LEMMA AcceptStep ==
    ASSUME NoticeInv, WorkerInv', NEW e, Present(e), UNCHANGED <<delivery, requestVars>>,
           accepted' \in {accepted, accepted \cup {e}}
    PROVE  StepHolds
  <1>1. RowInv' /\ UNCHANGED Notice
    BY SameNotice DEF NoticeInv, RowInv, requestVars
  <1>2. e \in Events /\ Client!Known(e)
    BY NoticeIs DEF Present, Client!Known, NoticeInv
  <1>3. CASE accepted' = accepted \cup {e}
    BY <1>1, <1>2, <1>3 DEF StepHolds, NoticeInv, requestVars, Client!NoticeNext, Client!Accept
  <1>4. CASE accepted' = accepted
    BY <1>1, <1>4 DEF StepHolds, NoticeInv, requestVars, Client!noticeVars
  <1> QED
    BY <1>3, <1>4

LEMMA PostStep ==
    ASSUME NoticeInv, NEW w \in Workers, Post(w)
    PROVE  StepHolds
  <1>1. PICK response \in Responses :
          answer'[w] = SendWebhookEvent(response) /\ accepted' \in Heard(w, response)
    BY DEF Post
  <1>2. /\ pc[w] = "sending" /\ pc' = [pc EXCEPT ![w] = "mark"]
        /\ UNCHANGED <<delivery, rows, cur, requestVars>>
        /\ \E a \in {"ok", "error"} : answer' = [answer EXCEPT ![w] = a]
    BY DEF Post, Answer, rowVars
  <1>3. Present(cur[w].id) /\ accepted' \in {accepted, accepted \cup {cur[w].id}}
    BY <1>1, <1>2 DEF NoticeInv, WorkerInv, Responses, Heard
  <1>4. answer'[w] = "ok" => cur[w].id \in accepted'
    BY <1>1 DEF SendWebhookEvent, Heard
  <1>5. WorkerInv'
    BY <1>2, <1>3, <1>4 DEF NoticeInv, WorkerInv, Present
  <1> QED
    BY <1>2, <1>3, <1>5, AcceptStep

LEMMA CrashStep ==
    ASSUME NoticeInv, NEW w \in Workers, Crash(w)
    PROVE  StepHolds
  <1>1. /\ EndCycle(w, {}) /\ UNCHANGED <<delivery, requestVars>>
        /\ accepted' \in IF pc[w] = "sending" THEN Heard(w, "none") ELSE {accepted}
    BY DEF Crash, Abort, rowVars
  <1>2. accepted \subseteq accepted'
    BY <1>1 DEF Heard
  <1>3. WorkerInv'
    BY <1>1, <1>2, EndCycleHolds
  <1>4. CASE pc[w] = "sending"
    <2>1. Present(cur[w].id) /\ accepted' \in {accepted, accepted \cup {cur[w].id}}
      BY <1>1, <1>4 DEF NoticeInv, WorkerInv, Heard
    <2> QED
      BY <1>1, <1>3, <2>1, AcceptStep
  <1>5. CASE pc[w] # "sending"
    BY <1>1, <1>3, <1>5, QuietStep
  <1> QED
    BY <1>4, <1>5

LEMMA ClaimStep ==
    ASSUME NoticeInv, NEW w \in Workers, ClaimPendingForDispatch(w), UNCHANGED <<requestVars, accepted>>
    PROVE  StepHolds
  <1>1. /\ UNCHANGED <<delivery, cur, answer>>
        /\ pc' = [pc EXCEPT ![w] = "rows"]
        /\ \E taken \in SUBSET {e \in Events : delivery[e] = "pending"} :
             rows' = [rows EXCEPT ![w] = {[id |-> e, attempts |-> attempts[e]] : e \in taken}]
    BY DEF ClaimPendingForDispatch, Oldest, Claimable
  <1>2. WorkerInv'
    BY <1>1 DEF NoticeInv, WorkerInv, Present
  <1> QED
    BY <1>1, <1>2, QuietStep

LEMMA TakeUpStep ==
    ASSUME NoticeInv, NEW w \in Workers, TakeUp(w), UNCHANGED <<requestVars, accepted>>
    PROVE  StepHolds
  <1>1. /\ UNCHANGED <<delivery, answer>>
        /\ pc' = [pc EXCEPT ![w] = "sending"]
        /\ \E s \in rows[w] : cur' = [cur EXCEPT ![w] = s] /\ rows' = [rows EXCEPT ![w] = @ \ {s}]
    BY DEF TakeUp, rowVars
  <1>2. WorkerInv'
    BY <1>1 DEF NoticeInv, WorkerInv, Present
  <1> QED
    BY <1>1, <1>2, QuietStep

(* An owed notice is told or dropped, a dropped one owed again.            *)
LEMMA BecomesStep ==
    ASSUME NoticeInv, WorkerInv', NEW e \in Events, NEW to \in {"pending", "delivered", "failed"},
           UNCHANGED <<requestVars, accepted>>,
           delivery' = [delivery EXCEPT ![e] = to],
           \/ delivery[e] = "pending" /\ to = "delivered" /\ e \in accepted
           \/ delivery[e] = "pending" /\ to = "failed"
           \/ delivery[e] = "failed" /\ to = "pending"
    PROVE  StepHolds
  <1>1. RowInv'
    BY DEF NoticeInv, RowInv, requestVars
  <1>2. /\ Noticed(e)' = CASE to = "pending" -> "owed" [] to = "delivered" -> "told" [] OTHER -> "dropped"
        /\ delivery[e] # "absent"
    BY DEF Noticed, NoticeInv, RowInv
  <1>3. Notice' = [Notice EXCEPT ![e].state = Noticed(e)']
    <2>1. RowInv /\ report' = report
      BY DEF requestVars, NoticeInv
    <2> QED
      BY <1>2, <2>1, NoticeMoves
  <1>4. Client!Known(e) /\ Notice[e].state = Noticed(e)
    <2>1. /\ Notice[e] # NULL
          /\ Notice[e] = [request |-> report[e].request, change |-> report[e].change, state |-> Noticed(e)]
      BY <1>2, NoticeIs DEF NoticeInv
    <2> QED
      BY <2>1 DEF Client!Known
  <1>5. Client!State(e, Noticed(e))
    BY <1>4 DEF Client!State
  <1>6. CASE delivery[e] = "pending" /\ to = "delivered" /\ e \in accepted
    <2>1. Noticed(e) = "owed" /\ Noticed(e)' = "told"
      BY <1>2, <1>6 DEF Noticed
    <2>2. Client!Tell(e)
      BY <1>3, <1>5, <1>6, <2>1 DEF Client!Tell, Client!BecomesFrom, requestVars
    <2> QED
      BY <1>1, <2>2 DEF StepHolds, NoticeInv, Client!NoticeNext
  <1>7. CASE delivery[e] = "pending" /\ to = "failed"
    <2>1. Noticed(e) = "owed" /\ Noticed(e)' = "dropped"
      BY <1>2, <1>7 DEF Noticed
    <2>2. Client!Drop(e)
      BY <1>3, <1>5, <2>1 DEF Client!Drop, Client!BecomesFrom, requestVars
    <2> QED
      BY <1>1, <2>2 DEF StepHolds, NoticeInv, Client!NoticeNext
  <1>8. CASE delivery[e] = "failed" /\ to = "pending"
    <2>1. Noticed(e) = "dropped" /\ Noticed(e)' = "owed"
      BY <1>2, <1>8 DEF Noticed
    <2>2. Client!OweAgain(e)
      BY <1>3, <1>5, <2>1 DEF Client!OweAgain, Client!BecomesFrom, requestVars
    <2> QED
      BY <1>1, <2>2 DEF StepHolds, NoticeInv, Client!NoticeNext
  <1> QED
    BY <1>6, <1>7, <1>8

LEMMA MarkStep ==
    ASSUME NoticeInv, NEW w \in Workers, Mark(w), UNCHANGED <<requestVars, accepted>>
    PROVE  StepHolds
  <1> DEFINE e == cur[w].id
  <1>1. /\ pc[w] = "mark" /\ e \in Events /\ delivery[e] # "absent"
        /\ answer[w] = "ok" => e \in accepted
    BY DEF Mark, NoticeInv, WorkerInv, Present
  <1>2. \E left \in SUBSET rows[w] : EndCycle(w, left)
    BY DEF Mark
  <1>3. \/ CanMark(w, e) /\ answer[w] = "ok" /\ delivery' = [delivery EXCEPT ![e] = "delivered"]
        \/ CanMark(w, e) /\ delivery' = [delivery EXCEPT ![e] = "failed"]
        \/ UNCHANGED delivery
    BY DEF Mark, MarkDelivered, MarkFailed, MarkRetry, rowVars
  <1>4. WorkerInv'
    <2>1. \A d \in Events : delivery[d] # "absent" => delivery'[d] # "absent"
      BY <1>3 DEF NoticeInv, RowInv
    <2> QED
      BY <1>2, <2>1, EndCycleHolds
  <1>5. CanMark(w, e) => delivery[e] = "pending"
    BY DEF CanMark
  <1> HIDE DEF e
  <1>6. CASE CanMark(w, e) /\ answer[w] = "ok" /\ delivery' = [delivery EXCEPT ![e] = "delivered"]
    BY <1>1, <1>4, <1>5, <1>6, BecomesStep
  <1>7. CASE CanMark(w, e) /\ delivery' = [delivery EXCEPT ![e] = "failed"]
    BY <1>1, <1>4, <1>5, <1>7, BecomesStep
  <1>8. CASE UNCHANGED delivery
    BY <1>4, <1>8, QuietStep
  <1> QED
    BY <1>3, <1>6, <1>7, <1>8

LEMMA OperatorStep ==
    ASSUME NoticeInv, NEW e \in Events, RequeueDLQEvent(e) \/ CancelOutboxEvent(e),
           UNCHANGED <<requestVars, accepted>>
    PROVE  StepHolds
  <1>1. /\ UNCHANGED workerVars
        /\ \/ delivery[e] = "failed" /\ delivery' = [delivery EXCEPT ![e] = "pending"]
           \/ delivery[e] \in {"pending", "failed"} /\ delivery' = [delivery EXCEPT ![e] = "failed"]
    BY DEF RequeueDLQEvent, CancelOutboxEvent, RequeueFailedByEventID, CancelByEventID, ManualCall
  <1>2. WorkerInv'
    BY <1>1, WorkersHold DEF NoticeInv, RowInv
  <1>3. CASE delivery[e] = "failed" /\ delivery' = [delivery EXCEPT ![e] = "failed"]
    <2>1. UNCHANGED delivery
      BY <1>3 DEF NoticeInv, RowInv
    <2> QED
      BY <1>2, <2>1, QuietStep
  <1>4. CASE ~(delivery[e] = "failed" /\ delivery' = [delivery EXCEPT ![e] = "failed"])
    BY <1>1, <1>2, <1>4, BecomesStep
  <1> QED
    BY <1>3, <1>4

LEMMA OthersStep ==
    ASSUME NoticeInv, Others
    PROVE  StepHolds
  <1>1. UNCHANGED <<requestVars, accepted>>
    BY DEF Others
  <1>2. CASE Tick
    BY <1>1, <1>2, WorkersHold, QuietStep DEF NoticeInv, Tick, rowVars
  <1>3. CASE TimePasses
    <2>1. WorkerInv'
      BY <1>1, <1>3 DEF NoticeInv, WorkerInv, Present, TimePasses
    <2> QED
      BY <1>1, <1>3, <2>1, QuietStep DEF TimePasses
  <1>4. CASE \E w \in Workers : RenewLease(w)
    <2>1. UNCHANGED <<delivery, pc, rows, cur, answer>>
      BY <1>4 DEF RenewLease
    <2>2. WorkerInv'
      BY <1>1, <2>1 DEF NoticeInv, WorkerInv, Present
    <2> QED
      BY <1>1, <2>1, <2>2, QuietStep
  <1>5. CASE \E e \in Events : RequeueDLQEvent(e) \/ CancelOutboxEvent(e)
    BY <1>1, <1>5, OperatorStep
  <1> QED
    BY <1>2, <1>3, <1>4, <1>5 DEF Others

-----------------------------------------------------------------------------
LEMMA InitHolds == NotificationInit => NoticeInv /\ Client!NoticeInit
  <1> SUFFICES ASSUME NotificationInit PROVE NoticeInv /\ Client!NoticeInit
    OBVIOUS
  <1>1. /\ delivery = [e \in Events |-> "absent"] /\ report = [e \in Events |-> NULL]
        /\ outbox = [r \in Requests |-> <<>>] /\ status = [r \in Requests |-> "pending"]
        /\ accepted = {}
    BY DEF NotificationInit, StartWith, Lifecycle!Init
  <1>2. RowInv
    BY <1>1 DEF RowInv
  <1>3. WorkerInv
    BY DEF NotificationInit, StartWith, WorkerInv, Present
  <1>4. Notice = [e \in Events |-> NULL]
    BY <1>1 DEF Notice
  <1> QED
    BY <1>1, <1>2, <1>3, <1>4 DEF NoticeInv, Client!NoticeInit, Client!Init

LEMMA NextHolds == NoticeInv /\ [NotificationNext]_allVars => StepHolds
  <1> SUFFICES ASSUME NoticeInv, [NotificationNext]_allVars PROVE StepHolds
    OBVIOUS
  <1>1. CASE \E r \in Requests : TransitionStatusIfCurrent(r)
    BY <1>1, ChangeStep DEF StepHolds
  <1>2. ASSUME NEW w \in Workers, Deliver(w) PROVE StepHolds
    BY <1>2, PostStep, ClaimStep, TakeUpStep, MarkStep DEF Deliver
  <1>3. CASE \E w \in Workers : Crash(w)
    BY <1>3, CrashStep
  <1>4. CASE Others
    BY <1>4, OthersStep
  <1>5. CASE UNCHANGED allVars
    BY <1>5, WorkersHold, QuietStep DEF allVars, vars, rowVars, NoticeInv
  <1> QED
    BY <1>1, <1>2, <1>3, <1>4, <1>5 DEF NotificationNext

(* Every change of status of a request with a webhook owes its client a    *)
(* notice from that very step on, and the dispatchers record as delivered  *)
(* only what the endpoint has accepted: each step of reconcilers,          *)
(* dispatchers, operators and endpoint is one the promise allows.          *)
THEOREM NoticesKept == NotificationSpec => Client!NoticeSafety
  <1>1. NotificationInit => NoticeInv /\ Client!NoticeInit
    BY InitHolds
  <1>2. NoticeInv /\ [NotificationNext]_allVars => NoticeInv' /\ [Client!NoticeNext]_(Client!noticeVars)
    BY NextHolds DEF StepHolds
  <1> QED
    BY <1>1, <1>2, PTL DEF NotificationSpec, Client!NoticeSafety
=============================================================================
