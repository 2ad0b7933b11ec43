----------------------- MODULE WebhookDispatcherProofs -----------------------
(***************************************************************************)
(* What is proved of the webhook dispatcher for any number of workers and  *)
(* events and any batch size, lease, backoff, attempts, skew and horizon.  *)
(***************************************************************************)
EXTENDS WebhookDispatcherProps, TLAPS

(* An event that may still be sent has attempts left, in its row and in    *)
(* every snapshot a worker holds of it; a heartbeat goes with every POST.  *)
AttemptsLeft ==
    /\ \A e \in Events : delivery[e] = "pending" => attempts[e] < MaxAttempts
    /\ \A w \in Workers : pc[w] \in {"sending", "mark"} => cur[w].attempts < MaxAttempts
    /\ \A w \in Workers : pc[w] = "sending" => beat[w] # "off"

TypeInv == TypeOK /\ AttemptsLeft

-----------------------------------------------------------------------------
(* The operators the actions are built from                                *)

LEMMA BackoffType ==
    ASSUME NEW n \in Nat \ {0}
    PROVE  /\ Delays(n) \subseteq Nat
           /\ \A d \in Delays(n) : d <= MaxBackoff
  <1>1. InitialBackoff \in Nat /\ MaxBackoff \in Nat
    BY DispatcherAssumption
  <1>2. Backoff(n) \in Nat /\ Backoff(n) <= MaxBackoff
    <2> DEFINE doubled == InitialBackoff * 2 ^ (n - 1)
    <2> HIDE DEF doubled
    <2>1. Backoff(n) = IF doubled \in InitialBackoff .. MaxBackoff THEN doubled ELSE MaxBackoff
      BY DEF Backoff, doubled
    <2> QED
      BY <1>1, <2>1
  <1> QED
    BY <1>1, <1>2 DEF Delays

LEMMA NoLeaseType == NoLease \in Leases
  BY DEF NoLease, Leases, Times

LEMMA LeaseTypes ==
    ASSUME TypeOK, NEW w \in Workers, NEW n \in Readings
    PROVE  n \in Nat /\ n + LeaseTime \in Nat /\ [owner |-> w, until |-> n + LeaseTime] \in Leases
  BY DispatcherAssumption DEF TypeOK, CountType, Readings, Leases, Times

(* What a worker is left with when it is done with an event or a cycle.    *)
LEMMA EndCycleType ==
    ASSUME TypeOK, NEW w \in Workers, NEW left \in SUBSET rows[w], EndCycle(w, left)
    PROVE  /\ WorkerType'
           /\ \A v \in Workers : \A s \in rows'[v] : s.attempts < MaxAttempts
  BY DEF TypeOK, WorkerType, EndCycle

-----------------------------------------------------------------------------
(* Type correctness                                                        *)

LEMMA InitTypeInv == Init => TypeInv
  <1> SUFFICES ASSUME Init PROVE TypeInv
    OBVIOUS
  <1>1. RowType
    BY NoLeaseType, DispatcherAssumption DEF Init, StartWith, RowType
  <1>2. WorkerType /\ CountType
    BY DEF Init, StartWith, WorkerType, CountType
  <1>3. AttemptsLeft
    BY DispatcherAssumption DEF Init, StartWith, AttemptsLeft
  <1> QED
    BY <1>1, <1>2, <1>3 DEF TypeInv, TypeOK, Init, StartWith

(* The claim hands out snapshots of pending events.                        *)
LEMMA ClaimTypeInv ==
    ASSUME TypeInv, NEW w \in Workers, ClaimPendingForDispatch(w)
    PROVE  TypeInv'
  <1> USE DEF TypeInv, TypeOK
  <1>1. PICK n \in Readings, locked \in SUBSET InStatement(w) :
          LET taken == Oldest({e \in Events \ locked : Claimable(e, n)})
          IN /\ taken # {}
             /\ now' = [now EXCEPT ![w] = n]
             /\ rows' = [rows EXCEPT ![w] = {[id |-> e, attempts |-> attempts[e]] : e \in taken}]
             /\ lease' = [e \in Events |->
                             IF e \in taken THEN [owner |-> w, until |-> n + LeaseTime]
                             ELSE lease[e]]
             /\ pc' = [pc EXCEPT ![w] = "rows"]
    BY DEF ClaimPendingForDispatch
  <1> DEFINE taken == Oldest({e \in Events \ locked : Claimable(e, n)})
             got == {[id |-> e, attempts |-> attempts[e]] : e \in taken}
  <1>2. UNCHANGED <<clock, delivery, attempts, nextAttempt, cur, answer, beat, countVars>>
    BY DEF ClaimPendingForDispatch
  <1>3. n \in Nat /\ [owner |-> w, until |-> n + LeaseTime] \in Leases
    BY LeaseTypes
  <1>4. \A e \in taken : e \in Events /\ attempts[e] < MaxAttempts
    BY DEF Oldest, Claimable, AttemptsLeft
  <1>5. got \in SUBSET Snapshots /\ \A s \in got : s.attempts < MaxAttempts
    <2>1. \A e \in taken : [id |-> e, attempts |-> attempts[e]] \in Snapshots
      BY <1>4 DEF Snapshots, RowType
    <2> HIDE DEF taken
    <2> QED
      BY <1>4, <2>1
  <1>6. rows' = [rows EXCEPT ![w] = got]
    BY <1>1
  <1>7. RowType'
    BY <1>1, <1>2, <1>3 DEF RowType
  <1> HIDE DEF taken, got
  <1>8. WorkerType' /\ \A v \in Workers : \A s \in rows'[v] : s.attempts < MaxAttempts
    BY <1>1, <1>2, <1>3, <1>5, <1>6 DEF WorkerType
  <1>9. AttemptsLeft'
    BY <1>1, <1>2 DEF AttemptsLeft, WorkerType
  <1> QED
    BY <1>2, <1>7, <1>8, <1>9 DEF CountType, countVars

LEMMA MarkTypeInv ==
    ASSUME TypeInv, NEW w \in Workers, Mark(w)
    PROVE  TypeInv'
  <1> USE DEF TypeInv, TypeOK
  <1> DEFINE s == cur[w]
  <1>1. /\ s \in Snapshots /\ s.id \in Events /\ s.attempts \in Nat
        /\ s.attempts + 1 \in 0 .. MaxAttempts /\ now[w] \in Nat
    <2>1. s \in Snapshots /\ s.attempts < MaxAttempts /\ now[w] \in Nat
      BY DEF Mark, WorkerType, AttemptsLeft
    <2> QED
      BY <2>1, DispatcherAssumption DEF Snapshots
  <1>2. WorkerType' /\ \A v \in Workers : \A t \in rows'[v] : t.attempts < MaxAttempts
    BY EndCycleType DEF Mark
  <1>3. RowType' /\ \A e \in Events : delivery'[e] = "pending" => attempts'[e] < MaxAttempts
    <2>1. CASE MarkDelivered(w, s.id)
      BY <1>1, <2>1, NoLeaseType DEF MarkDelivered, RowType, AttemptsLeft
    <2>2. CASE MarkFailed(w, s)
      BY <1>1, <2>2, NoLeaseType DEF MarkFailed, RowType, AttemptsLeft
    <2>3. CASE ~Exhausted(s) /\ MarkRetry(w, s)
      <3>1. PICK d \in Delays(s.attempts + 1) :
              nextAttempt' = [nextAttempt EXCEPT ![s.id] = now[w] + d]
        BY <2>3 DEF MarkRetry
      <3>2. now[w] + d \in Nat
        BY <1>1, <3>1, BackoffType
      <3>3. s.attempts + 1 < MaxAttempts
        BY <1>1, <2>3, DispatcherAssumption DEF Exhausted
      <3> QED
        BY <1>1, <2>3, <3>1, <3>2, <3>3, NoLeaseType DEF MarkRetry, RowType, AttemptsLeft
    <2>4. CASE UNCHANGED rowVars
      BY <2>4 DEF rowVars, RowType, AttemptsLeft
    <2> QED
      BY <2>1, <2>2, <2>3, <2>4 DEF Mark
  <1>4. \A v \in Workers : /\ pc'[v] \in {"sending", "mark"} => cur'[v].attempts < MaxAttempts
                           /\ pc'[v] = "sending" => beat'[v] # "off"
    BY DEF Mark, EndCycle, AttemptsLeft, WorkerType
  <1> QED
    BY <1>2, <1>3, <1>4 DEF Mark, CountType, countVars, AttemptsLeft

LEMMA NextTypeInv == TypeInv /\ [Next]_vars => TypeInv'
  <1> SUFFICES ASSUME TypeInv, [Next]_vars PROVE TypeInv'
    OBVIOUS
  <1> USE DEF TypeInv, TypeOK
  <1>1. CASE Tick
    BY <1>1 DEF Tick, rowVars, workerVars, countVars, RowType, WorkerType, CountType, AttemptsLeft
  <1>2. ASSUME NEW w \in Workers, ClaimPendingForDispatch(w) PROVE TypeInv'
    BY <1>2, ClaimTypeInv
  <1>3. ASSUME NEW w \in Workers, TakeUp(w) PROVE TypeInv'
    <2>1. PICK s \in rows[w] : /\ cur' = [cur EXCEPT ![w] = s]
                               /\ rows' = [rows EXCEPT ![w] = @ \ {s}]
                               /\ tries' = [tries EXCEPT ![s.id] = @ + 1]
      BY <1>3 DEF TakeUp
    <2>2. s \in Snapshots /\ s.id \in Events /\ s.attempts < MaxAttempts
      BY DEF WorkerType, Snapshots
    <2>3. UNCHANGED <<clock, rowVars, now, answer, aborts, manual>>
          /\ pc' = [pc EXCEPT ![w] = "sending"] /\ beat' = [beat EXCEPT ![w] = "first"]
      BY <1>3 DEF TakeUp
    <2>4. RowType' /\ CountType'
      BY <2>1, <2>2, <2>3 DEF RowType, CountType, rowVars
    <2>5. WorkerType' /\ \A v \in Workers : \A t \in rows'[v] : t.attempts < MaxAttempts
      BY <2>1, <2>2, <2>3 DEF WorkerType
    <2>6. AttemptsLeft'
      BY <2>1, <2>2, <2>3 DEF AttemptsLeft, WorkerType, rowVars
    <2> QED
      BY <2>4, <2>5, <2>6
  <1>4. ASSUME NEW w \in Workers, RenewLease(w) PROVE TypeInv'
    <2>1. UNCHANGED <<clock, delivery, attempts, nextAttempt, pc, now, rows, cur, answer, manual, tries>>
      BY <1>4 DEF RenewLease
    <2>2. cur[w].id \in Events /\ pc[w] = "sending"
      BY <1>4 DEF RenewLease, WorkerType, Snapshots
    <2>3. lease' \in [Events -> Leases]
      <3>1. \A n \in Readings : [owner |-> w, until |-> n + LeaseTime] \in Leases
        BY LeaseTypes
      <3>2. \/ lease' = lease
            \/ \E n \in Readings :
                 lease' = [lease EXCEPT ![cur[w].id] = [owner |-> w, until |-> n + LeaseTime]]
        BY <1>4 DEF RenewLease
      <3> QED
        BY <2>2, <3>1, <3>2 DEF RowType
    <2>4. beat' \in [Workers -> {"off", "first", "on", "lost"}] /\ aborts' \in Nat
      BY <1>4, DispatcherAssumption DEF RenewLease, WorkerType, CountType
    <2>5. \A v \in Workers : v # w => beat'[v] = beat[v]
      BY <1>4 DEF RenewLease, WorkerType
    <2>6. beat'[w] \in {"on", "lost"}
      BY <1>4 DEF RenewLease, WorkerType
    <2>7. RowType' /\ CountType' /\ WorkerType'
      BY <2>1, <2>2, <2>3, <2>4, <2>5 DEF RowType, WorkerType, CountType
    <2>8. AttemptsLeft'
      BY <2>1, <2>5, <2>6 DEF AttemptsLeft
    <2> QED
      BY <2>1, <2>7, <2>8
  <1>5. ASSUME NEW w \in Workers, Answer(w) PROVE TypeInv'
    <2>1. UNCHANGED <<clock, rowVars, now, rows, cur, countVars>> /\ pc[w] = "sending"
          /\ pc' = [pc EXCEPT ![w] = "mark"]
      BY <1>5 DEF Answer
    <2>2. PICK a \in {"ok", "error"} : answer' = [answer EXCEPT ![w] = a]
      BY <1>5 DEF Answer
    <2>3. PICK b \in {beat[w], "lost"} \ {"first"} : beat' = [beat EXCEPT ![w] = b]
      BY <1>5 DEF Answer
    <2>4. b \in {"on", "lost"} /\ a # NULL
      BY <2>1, <2>3, DispatcherAssumption DEF WorkerType, AttemptsLeft
    <2> QED
      BY <2>1, <2>2, <2>3, <2>4 DEF rowVars, countVars, RowType, WorkerType, CountType, AttemptsLeft
  <1>6. ASSUME NEW w \in Workers, Mark(w) PROVE TypeInv'
    BY <1>6, MarkTypeInv
  <1>7. ASSUME NEW w \in Workers, Abort(w) PROVE TypeInv'
    <2>1. WorkerType' /\ \A v \in Workers : \A s \in rows'[v] : s.attempts < MaxAttempts
      BY <1>7, EndCycleType DEF Abort
    <2>2. UNCHANGED <<clock, rowVars, manual, tries>> /\ aborts' = aborts + 1
      BY <1>7 DEF Abort
    <2>3. AttemptsLeft'
      BY <1>7, <2>2 DEF Abort, EndCycle, AttemptsLeft, WorkerType, rowVars
    <2> QED
      BY <2>1, <2>2, <2>3 DEF RowType, CountType, rowVars
  <1>8. ASSUME NEW e \in Events, RequeueDLQEvent(e) PROVE TypeInv'
    <2>1. PICK n \in Readings : nextAttempt' = [nextAttempt EXCEPT ![e] = n]
      BY <1>8 DEF RequeueDLQEvent, RequeueFailedByEventID
    <2>2. n \in Nat /\ 0 \in 0 .. MaxAttempts /\ 0 < MaxAttempts
      BY DispatcherAssumption DEF Readings, CountType
    <2> QED
      BY <1>8, <2>1, <2>2, NoLeaseType
      DEF RequeueDLQEvent, RequeueFailedByEventID, ManualCall, workerVars,
          RowType, WorkerType, CountType, AttemptsLeft
  <1>9. ASSUME NEW e \in Events, CancelOutboxEvent(e) PROVE TypeInv'
    BY <1>9, NoLeaseType
    DEF CancelOutboxEvent, CancelByEventID, ManualCall, workerVars,
        RowType, WorkerType, CountType, AttemptsLeft
  <1>10. CASE UNCHANGED vars
    BY <1>10 DEF vars, rowVars, workerVars, countVars, RowType, WorkerType, CountType, AttemptsLeft
  <1> QED
    BY <1>1, <1>2, <1>3, <1>4, <1>5, <1>6, <1>7, <1>8, <1>9, <1>10 DEF Next, WorkerStep

LEMMA TypeInvHolds == Spec => []TypeInv
  BY InitTypeInv, NextTypeInv, PTL DEF Spec

(* Every variable keeps its type, whatever workers and operators do at     *)
(* once; in particular attempts never exceed MaxAttempts and no worker     *)
(* holds a snapshot of an event that used them up.                         *)
THEOREM DispatcherTypeCorrect == Spec => []TypeOK
  <1>1. TypeInv => TypeOK
    BY DEF TypeInv
  <1> QED
    BY <1>1, TypeInvHolds, PTL

-----------------------------------------------------------------------------
(* Settled events                                                          *)

LEMMA InitUnleased == Init => SettledUnleased
  BY DEF Init, StartWith, SettledUnleased

LEMMA NextUnleased == TypeOK /\ SettledUnleased /\ [Next]_vars => SettledUnleased'
  <1> SUFFICES ASSUME TypeOK, SettledUnleased, [Next]_vars PROVE SettledUnleased'
    OBVIOUS
  <1> USE DEF TypeOK, RowType, SettledUnleased
  <1>1. CASE Tick
    BY <1>1 DEF Tick, rowVars
  <1>2. ASSUME NEW w \in Workers, ClaimPendingForDispatch(w) PROVE SettledUnleased'
    <2>1. PICK n \in Readings, locked \in SUBSET InStatement(w) :
            LET taken == Oldest({e \in Events \ locked : Claimable(e, n)})
            IN lease' = [e \in Events |->
                           IF e \in taken THEN [owner |-> w, until |-> n + LeaseTime]
                           ELSE lease[e]]
      BY <1>2 DEF ClaimPendingForDispatch
    <2>2. \A e \in Events : delivery[e] # "pending" => lease'[e] = lease[e]
      BY <2>1 DEF Oldest, Claimable
    <2> QED
      BY <1>2, <2>2 DEF ClaimPendingForDispatch
  <1>3. ASSUME NEW w \in Workers, TakeUp(w) \/ Answer(w) \/ Abort(w) PROVE SettledUnleased'
    BY <1>3 DEF TakeUp, Answer, Abort, rowVars
  <1>4. ASSUME NEW w \in Workers, RenewLease(w) PROVE SettledUnleased'
    <2>1. \A e \in Events : delivery[e] # "pending" => lease'[e] = lease[e]
      BY <1>4 DEF RenewLease
    <2> QED
      BY <1>4, <2>1 DEF RenewLease
  <1>5. ASSUME NEW w \in Workers, Mark(w) PROVE SettledUnleased'
    <2>1. cur[w].id \in Events
      BY <1>5 DEF Mark, WorkerType, Snapshots
    <2> QED
      BY <1>5, <2>1 DEF Mark, MarkDelivered, MarkFailed, MarkRetry, rowVars
  <1>6. ASSUME NEW e \in Events, RequeueDLQEvent(e) \/ CancelOutboxEvent(e) PROVE SettledUnleased'
    BY <1>6 DEF RequeueDLQEvent, RequeueFailedByEventID, CancelOutboxEvent, CancelByEventID
  <1>7. CASE UNCHANGED vars
    BY <1>7 DEF vars, rowVars
  <1> QED
    BY <1>1, <1>2, <1>3, <1>4, <1>5, <1>6, <1>7 DEF Next, WorkerStep

(* No event that is delivered or failed carries a lease, however marks,    *)
(* renewals, claims and operators' calls interleave.                       *)
THEOREM SettledUnleasedHolds == Spec => []SettledUnleased
  BY InitUnleased, NextUnleased, DispatcherTypeCorrect, PTL DEF Spec

(* Delivered is for good, and failed is left by a requeue only: no worker  *)
(* with an old snapshot unsettles an event.                                *)
THEOREM SettledStaysHolds == Spec => SettledStays
  <1> DEFINE Stays == \A e \in Events :
                        delivery[e] # "pending" /\ delivery'[e] # delivery[e] =>
                          /\ delivery[e] = "failed" /\ delivery'[e] = "pending"
                          /\ attempts'[e] = 0 /\ manual' = manual + 1
  <1>1. TypeOK /\ [Next]_vars => [Stays]_vars
    <2> SUFFICES ASSUME TypeOK, [Next]_vars PROVE Stays
      OBVIOUS
    <2> USE DEF TypeOK, RowType
    <2>1. CASE Tick
      BY <2>1 DEF Tick, rowVars
    <2>2. ASSUME NEW w \in Workers,
                 ClaimPendingForDispatch(w) \/ TakeUp(w) \/ RenewLease(w) \/ Answer(w) \/ Abort(w)
          PROVE  Stays
      BY <2>2 DEF ClaimPendingForDispatch, TakeUp, RenewLease, Answer, Abort, rowVars
    <2>3. ASSUME NEW w \in Workers, Mark(w) PROVE Stays
      BY <2>3 DEF Mark, CanMark, MarkDelivered, MarkFailed, MarkRetry, rowVars
    <2>4. ASSUME NEW e \in Events, RequeueDLQEvent(e) PROVE Stays
      BY <2>4 DEF RequeueDLQEvent, RequeueFailedByEventID, ManualCall
    <2>5. ASSUME NEW e \in Events, CancelOutboxEvent(e) PROVE Stays
      BY <2>5 DEF CancelOutboxEvent, CancelByEventID
    <2>6. CASE UNCHANGED vars
      BY <2>6 DEF vars, rowVars
    <2> QED
      BY <2>1, <2>2, <2>3, <2>4, <2>5, <2>6 DEF Next, WorkerStep
  <1> QED
    BY <1>1, DispatcherTypeCorrect, PTL DEF Spec, SettledStays

-----------------------------------------------------------------------------
(* Retries                                                                 *)

(* No worker's cycle is ahead of the clock by more than the skew.          *)
RetryInv == RetryBounded /\ \A w \in Workers : now[w] <= clock + MaxAhead

LEMMA NextRetryInv == TypeInv /\ RetryInv /\ [Next]_vars => RetryInv'
  <1> SUFFICES ASSUME TypeInv, RetryInv, [Next]_vars PROVE RetryInv'
    OBVIOUS
  <1> USE DispatcherAssumption DEF TypeInv, TypeOK, RowType, CountType, RetryInv, RetryBounded
  <1>1. CASE Tick
    BY <1>1 DEF Tick, rowVars, workerVars, WorkerType
  <1>2. ASSUME NEW w \in Workers, ClaimPendingForDispatch(w) PROVE RetryInv'
    <2>1. PICK n \in Readings : now' = [now EXCEPT ![w] = n]
      BY <1>2 DEF ClaimPendingForDispatch
    <2> QED
      BY <1>2, <2>1 DEF ClaimPendingForDispatch, Readings, WorkerType
  <1>3. ASSUME NEW w \in Workers, TakeUp(w) \/ RenewLease(w) \/ Answer(w) PROVE RetryInv'
    BY <1>3 DEF TakeUp, RenewLease, Answer, rowVars
  <1>4. ASSUME NEW w \in Workers, Mark(w) PROVE RetryInv'
    <2>1. /\ cur[w].id \in Events /\ cur[w].attempts + 1 \in Nat \ {0}
          /\ now[w] \in Nat /\ clock' = clock
      BY <1>4 DEF Mark, WorkerType, Snapshots
    <2>2. \A v \in Workers : now'[v] <= clock + MaxAhead
      BY <1>4, <2>1 DEF Mark, EndCycle, WorkerType
    <2>3. \A e \in Events : nextAttempt'[e] <= clock + MaxAhead + MaxBackoff
      <3>1. CASE MarkRetry(w, cur[w])
        <4>1. PICK d \in Delays(cur[w].attempts + 1) :
                nextAttempt' = [nextAttempt EXCEPT ![cur[w].id] = now[w] + d]
          BY <3>1 DEF MarkRetry
        <4>2. d \in Nat /\ d <= MaxBackoff
          BY <2>1, <4>1, BackoffType
        <4>3. now[w] + d <= clock + MaxAhead + MaxBackoff
          BY <2>1, <4>2
        <4>4. \A e \in Events : nextAttempt'[e] = IF e = cur[w].id THEN now[w] + d ELSE nextAttempt[e]
          BY <4>1
        <4> QED
          BY <4>3, <4>4
      <3>2. CASE UNCHANGED nextAttempt
        BY <3>2
      <3> QED
        BY <1>4, <3>1, <3>2 DEF Mark, MarkDelivered, MarkFailed, rowVars
    <2> QED
      BY <2>1, <2>2, <2>3
  <1>5. ASSUME NEW w \in Workers, Abort(w) PROVE RetryInv'
    BY <1>5 DEF Abort, EndCycle, WorkerType, rowVars
  <1>6. ASSUME NEW e \in Events, RequeueDLQEvent(e) PROVE RetryInv'
    <2>1. PICK n \in Readings : nextAttempt' = [nextAttempt EXCEPT ![e] = n]
      BY <1>6 DEF RequeueDLQEvent, RequeueFailedByEventID
    <2> QED
      BY <1>6, <2>1 DEF RequeueDLQEvent, ManualCall, workerVars, Readings
  <1>7. ASSUME NEW e \in Events, CancelOutboxEvent(e) PROVE RetryInv'
    BY <1>7 DEF CancelOutboxEvent, CancelByEventID, ManualCall, workerVars
  <1>8. CASE UNCHANGED vars
    BY <1>8 DEF vars, rowVars, workerVars
  <1> QED
    BY <1>1, <1>2, <1>3, <1>4, <1>5, <1>6, <1>7, <1>8 DEF Next, WorkerStep

(* No retry is put off further than MaxBackoff beyond the most advanced    *)
(* clock, from however old a snapshot and cycle it is computed.            *)
THEOREM RetryBoundedHolds == Spec => []RetryBounded
  <1>1. Init => RetryInv
    BY DispatcherAssumption DEF Init, StartWith, RetryInv, RetryBounded
  <1>2. RetryInv => RetryBounded
    BY DEF RetryInv
  <1> QED
    BY <1>1, <1>2, NextRetryInv, TypeInvHolds, PTL DEF Spec

(* Attempts in snapshots never exceed the POSTs made so far, and a POST    *)
(* under way is not counted in its snapshot yet.                           *)
CountedOnce ==
    manual = 0 =>
        \A w \in Workers :
            /\ \A s \in rows[w] : s.attempts <= tries[s.id]
            /\ pc[w] \in {"sending", "mark"} => cur[w].attempts < tries[cur[w].id]

BudgetInv == FailedAfterBudget /\ CountedOnce

LEMMA NextBudgetInv == TypeInv /\ BudgetInv /\ [Next]_vars => BudgetInv'
  <1> SUFFICES ASSUME TypeInv, BudgetInv, [Next]_vars PROVE BudgetInv'
    OBVIOUS
  <1> USE DEF TypeInv, TypeOK, RowType, CountType, BudgetInv, FailedAfterBudget, CountedOnce
  <1>1. CASE Tick
    BY <1>1 DEF Tick, rowVars, workerVars, countVars
  <1>2. ASSUME NEW w \in Workers, ClaimPendingForDispatch(w) PROVE BudgetInv'
    <2>1. PICK taken \in SUBSET Events :
            rows' = [rows EXCEPT ![w] = {[id |-> e, attempts |-> attempts[e]] : e \in taken}]
      <3>1. \A S \in SUBSET Events : Oldest(S) \in SUBSET Events
        BY DEF Oldest
      <3> QED
        BY <1>2, <3>1 DEF ClaimPendingForDispatch
    <2>2. /\ UNCHANGED <<delivery, attempts, cur, manual, tries>>
          /\ pc' = [pc EXCEPT ![w] = "rows"]
      BY <1>2 DEF ClaimPendingForDispatch, countVars
    <2>3. manual = 0 => \A v \in Workers : \A s \in rows'[v] : s.attempts <= tries[s.id]
      BY <2>1 DEF WorkerType
    <2> QED
      BY <2>2, <2>3 DEF WorkerType
  <1>3. ASSUME NEW w \in Workers, TakeUp(w) PROVE BudgetInv'
    <2>1. PICK s \in rows[w] : /\ cur' = [cur EXCEPT ![w] = s]
                               /\ rows' = [rows EXCEPT ![w] = @ \ {s}]
                               /\ tries' = [tries EXCEPT ![s.id] = @ + 1]
      BY <1>3 DEF TakeUp
    <2>2. s.id \in Events /\ s.attempts \in Nat
      BY DispatcherAssumption DEF WorkerType, Snapshots
    <2>3. \A e \in Events : tries'[e] \in Nat /\ tries[e] \in Nat /\ tries'[e] >= tries[e]
      BY <2>1, <2>2
    <2>4. UNCHANGED <<delivery, attempts, manual>> /\ pc' = [pc EXCEPT ![w] = "sending"]
      BY <1>3 DEF TakeUp, rowVars
    <2>5. FailedAfterBudget'
      BY <2>3, <2>4, DispatcherAssumption
    <2>6. ASSUME manual = 0, NEW v \in Workers
          PROVE  /\ \A t \in rows'[v] : t.attempts <= tries'[t.id]
                 /\ pc'[v] \in {"sending", "mark"} => cur'[v].attempts < tries'[cur'[v].id]
      <3>1. \A t \in rows[v] : t.id \in Events /\ t.attempts \in Nat /\ t.attempts <= tries[t.id]
        BY <2>6, DispatcherAssumption DEF WorkerType, Snapshots
      <3>2. \A t \in rows'[v] : t \in rows[v]
        BY <2>1 DEF WorkerType
      <3>3. CASE v = w
        BY <2>1, <2>2, <2>3, <3>1, <3>2, <3>3 DEF WorkerType
      <3>4. CASE v # w
        <4>1. cur'[v] = cur[v] /\ pc'[v] = pc[v]
          BY <2>1, <2>4, <3>4 DEF WorkerType
        <4>2. pc[v] \in {"sending", "mark"} =>
                cur[v].id \in Events /\ cur[v].attempts \in Nat /\ cur[v].attempts < tries[cur[v].id]
          BY <2>6, DispatcherAssumption DEF WorkerType, Snapshots
        <4> QED
          BY <2>3, <3>1, <3>2, <4>1, <4>2
      <3> QED
        BY <3>3, <3>4
    <2> QED
      BY <2>4, <2>5, <2>6
  <1>4. ASSUME NEW w \in Workers, RenewLease(w) PROVE BudgetInv'
    BY <1>4 DEF RenewLease
  <1>5. ASSUME NEW w \in Workers, Answer(w) PROVE BudgetInv'
    BY <1>5 DEF Answer, rowVars, countVars, WorkerType
  <1>6. ASSUME NEW w \in Workers, Mark(w) PROVE BudgetInv'
    <2> DEFINE s == cur[w]
    <2>1. s.id \in Events /\ s.attempts \in Nat /\ (manual = 0 => s.attempts + 1 <= tries[s.id])
      <3>1. pc[w] = "mark" /\ s \in Snapshots
        BY <1>6 DEF Mark, WorkerType
      <3>2. s.id \in Events /\ s.attempts \in Nat
        BY <3>1, DispatcherAssumption DEF Snapshots
      <3>3. manual = 0 => s.attempts < tries[s.id]
        BY <3>1
      <3> HIDE DEF s
      <3> QED
        BY <3>2, <3>3
    <2>2. CountedOnce'
      BY <1>6 DEF Mark, EndCycle, countVars, WorkerType
    <2>3. FailedAfterBudget'
      <3>1. CASE MarkDelivered(w, s.id)
        BY <1>6, <2>1, <3>1 DEF Mark, MarkDelivered, countVars
      <3>2. CASE Exhausted(s) /\ MarkFailed(w, s)
        BY <1>6, <2>1, <3>2, DispatcherAssumption DEF Mark, MarkFailed, Exhausted, countVars
      <3>3. CASE MarkRetry(w, s)
        BY <1>6, <2>1, <3>3 DEF Mark, MarkRetry, countVars
      <3>4. CASE UNCHANGED rowVars
        BY <1>6, <3>4 DEF Mark, rowVars, countVars
      <3> QED
        BY <1>6, <3>1, <3>2, <3>3, <3>4 DEF Mark
    <2> QED
      BY <2>2, <2>3
  <1>7. ASSUME NEW w \in Workers, Abort(w) PROVE BudgetInv'
    BY <1>7 DEF Abort, EndCycle, rowVars, WorkerType
  <1>8. ASSUME NEW e \in Events, RequeueDLQEvent(e) \/ CancelOutboxEvent(e) PROVE BudgetInv'
    <2>1. manual' # 0
      BY <1>8 DEF RequeueDLQEvent, CancelOutboxEvent, ManualCall
    <2> QED
      BY <2>1
  <1>9. CASE UNCHANGED vars
    BY <1>9 DEF vars, rowVars, workerVars, countVars
  <1> QED
    BY <1>1, <1>2, <1>3, <1>4, <1>5, <1>6, <1>7, <1>8, <1>9 DEF Next, WorkerStep

(* Unless an operator intervenes, the attempts recorded never exceed the   *)
(* POSTs made and an event fails only after MaxAttempts of them, although  *)
(* workers write attempts from snapshots of any age.                       *)
THEOREM FailedAfterBudgetHolds == Spec => []FailedAfterBudget
  <1>1. Init => BudgetInv
    BY DEF Init, StartWith, BudgetInv, FailedAfterBudget, CountedOnce
  <1>2. BudgetInv => FailedAfterBudget
    BY DEF BudgetInv
  <1> QED
    BY <1>1, <1>2, NextBudgetInv, TypeInvHolds, PTL DEF Spec

-----------------------------------------------------------------------------
(* Heartbeats                                                              *)

(* The lease of e is the one of w on every worker's clock.                 *)
Held(w, e) == /\ delivery[e] = "pending"
              /\ lease[e].owner = w
              /\ lease[e].until \in Nat /\ lease[e].until > clock + MaxAhead

HeartbeatInv ==
    manual = 0 =>
        \A w \in Workers : pc[w] = "sending" /\ beat[w] = "on" => Held(w, cur[w].id)

LEMMA NextHeartbeatInv ==
    ASSUME Heartbeats, LeaseTime > MaxLag + MaxAhead
    PROVE  TypeInv /\ HeartbeatInv /\ [Next]_vars => HeartbeatInv'
  <1> SUFFICES ASSUME TypeInv, HeartbeatInv, [Next]_vars PROVE HeartbeatInv'
    OBVIOUS
  <1> USE DEF TypeInv, TypeOK, RowType, CountType, HeartbeatInv
  <1>1. CASE Tick
    <2>1. \A w \in Workers : Beating(w) => lease[cur[w].id].until > clock + 1 + MaxAhead
      BY <1>1 DEF Tick
    <2> QED
      BY <1>1, <2>1 DEF Tick, Beating, Held, rowVars, workerVars, countVars
  <1>2. ASSUME NEW w \in Workers, ClaimPendingForDispatch(w) PROVE HeartbeatInv'
    <2>1. PICK n \in Readings, locked \in SUBSET InStatement(w) :
            LET taken == Oldest({e \in Events \ locked : Claimable(e, n)})
            IN lease' = [e \in Events |->
                           IF e \in taken THEN [owner |-> w, until |-> n + LeaseTime]
                           ELSE lease[e]]
      BY <1>2 DEF ClaimPendingForDispatch
    <2>2. UNCHANGED <<clock, delivery, cur, beat, manual>> /\ pc' = [pc EXCEPT ![w] = "rows"]
      BY <1>2 DEF ClaimPendingForDispatch, countVars
    <2>3. ASSUME NEW v \in Workers, NEW e \in Events, Held(v, e) PROVE Held(v, e)'
      <3>1. ~Claimable(e, n)
        BY <2>3, DispatcherAssumption DEF Held, Claimable, Readings
      <3>2. lease'[e] = lease[e]
        BY <2>1, <3>1 DEF Oldest
      <3> QED
        BY <2>2, <2>3, <3>2 DEF Held
    <2>4. \A v \in Workers : pc'[v] = "sending" => pc[v] = "sending" /\ cur[v].id \in Events
      BY <2>2 DEF WorkerType, Snapshots
    <2> QED
      BY <2>2, <2>3, <2>4
  <1>3. ASSUME NEW w \in Workers, TakeUp(w) PROVE HeartbeatInv'
    <2>1. /\ UNCHANGED <<clock, rowVars, manual>> /\ beat' = [beat EXCEPT ![w] = "first"]
          /\ \A v \in Workers : v # w => pc'[v] = pc[v] /\ cur'[v] = cur[v]
      BY <1>3 DEF TakeUp, WorkerType
    <2> QED
      BY <2>1 DEF Held, rowVars, WorkerType
  <1>4. ASSUME NEW w \in Workers, RenewLease(w) PROVE HeartbeatInv'
    <2> DEFINE e == cur[w].id
    <2>1. /\ UNCHANGED <<clock, delivery, pc, cur, manual>> /\ e \in Events /\ pc[w] = "sending"
          /\ \A v \in Workers : v # w => beat'[v] = beat[v]
      BY <1>4 DEF RenewLease, WorkerType, Snapshots
    <2>2. CASE delivery[e] = "pending" /\ lease[e].owner = w /\ beat'[w] = "on"
      <3>1. PICK n \in Readings :
              lease' = [lease EXCEPT ![e] = [owner |-> w, until |-> n + LeaseTime]]
        BY <1>4, <2>2 DEF RenewLease, WorkerType
      <3>2. Held(w, e)'
        BY <2>1, <2>2, <3>1, DispatcherAssumption DEF Held, Readings
      <3>3. ASSUME NEW v \in Workers, v # w, manual = 0, pc[v] = "sending", beat[v] = "on"
            PROVE  Held(v, cur[v].id)'
        <4>1. cur[v].id # e /\ cur[v].id \in Events
          BY <2>2, <3>3 DEF Held, WorkerType, Snapshots
        <4> QED
          BY <2>1, <3>1, <3>3, <4>1 DEF Held
      <3> QED
        BY <2>1, <3>2, <3>3
    <2>3. CASE UNCHANGED lease /\ beat'[w] = "lost"
      BY <2>1, <2>3 DEF Held
    <2> QED
      BY <1>4, <2>2, <2>3 DEF RenewLease, WorkerType
  <1>5. ASSUME NEW w \in Workers, Answer(w) PROVE HeartbeatInv'
    BY <1>5 DEF Answer, rowVars, countVars, WorkerType, Held
  <1>6. ASSUME NEW w \in Workers, Mark(w) PROVE HeartbeatInv'
    <2> DEFINE e == cur[w].id
    <2>1. /\ UNCHANGED <<clock, manual>> /\ e \in Events
          /\ pc'[w] # "sending"
          /\ \A v \in Workers : v # w => pc'[v] = pc[v] /\ cur'[v] = cur[v] /\ beat'[v] = beat[v]
      BY <1>6 DEF Mark, EndCycle, WorkerType, Snapshots, countVars
    <2>2. ASSUME NEW v \in Workers, v # w, NEW d \in Events, Held(v, d) PROVE Held(v, d)'
      <3>1. d = e => ~CanMark(w, e)
        BY <2>2, DispatcherAssumption DEF Held, CanMark
      <3>2. delivery'[d] = delivery[d] /\ lease'[d] = lease[d]
        BY <1>6, <2>1, <3>1 DEF Mark, MarkDelivered, MarkFailed, MarkRetry, rowVars
      <3> QED
        BY <2>1, <2>2, <3>2 DEF Held
    <2>3. \A v \in Workers : pc[v] = "sending" => cur[v].id \in Events
      BY DEF WorkerType, Snapshots
    <2> QED
      BY <2>1, <2>2, <2>3
  <1>7. ASSUME NEW w \in Workers, Abort(w) PROVE HeartbeatInv'
    <2>1. /\ UNCHANGED <<clock, rowVars, manual>> /\ pc'[w] # "sending"
          /\ \A v \in Workers : v # w => pc'[v] = pc[v] /\ cur'[v] = cur[v] /\ beat'[v] = beat[v]
      BY <1>7 DEF Abort, EndCycle, WorkerType
    <2> QED
      BY <2>1 DEF Held, rowVars
  <1>8. ASSUME NEW e \in Events, RequeueDLQEvent(e) \/ CancelOutboxEvent(e) PROVE HeartbeatInv'
    <2>1. manual' # 0
      BY <1>8 DEF RequeueDLQEvent, CancelOutboxEvent, ManualCall
    <2> QED
      BY <2>1
  <1>9. CASE UNCHANGED vars
    BY <1>9 DEF vars, rowVars, workerVars, countVars, Held
  <1> QED
    BY <1>1, <1>2, <1>3, <1>4, <1>5, <1>6, <1>7, <1>8, <1>9 DEF Next, WorkerStep

(* With a lease longer than the skew of the clocks and heartbeats that     *)
(* renew in time, no two workers POST one event under running heartbeats:  *)
(* the lease of an event stays with its sender until the POST has ended,   *)
(* or until an operator's requeue or cancellation takes it away.           *)
THEOREM HeartbeatMutexHolds ==
    ASSUME Heartbeats, LeaseTime > MaxLag + MaxAhead
    PROVE  Spec => []HeartbeatMutex
  <1>1. Init => HeartbeatInv
    BY DEF Init, StartWith, HeartbeatInv
  <1>2. TypeInv /\ HeartbeatInv => HeartbeatMutex
    BY DEF TypeInv, TypeOK, CountType, HeartbeatInv, HeartbeatMutex, Held
  <1>3. TypeInv /\ HeartbeatInv /\ [Next]_vars => HeartbeatInv'
    BY NextHeartbeatInv
  <1> QED
    BY <1>1, <1>2, <1>3, TypeInvHolds, PTL DEF Spec
=============================================================================
