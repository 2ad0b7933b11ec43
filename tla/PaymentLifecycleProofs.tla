----------------------- MODULE PaymentLifecycleProofs -----------------------
(* The outbox of a request is its whole status history, for any number of  *)
(* requests and however often they are reorganised.                        *)
EXTENDS PaymentLifecycle, TLAPS

Stages == {"pending", "detected", "confirmed", "reorged", "expired"}
Reports == [from : Stages, to : Stages]

LifecycleType ==
    /\ status \in [Requests -> Stages]
    /\ outbox \in [Requests -> Seq(Reports)]

LEMMA EdgeStages == \A edge \in Edges : edge[1] \in Stages /\ edge[2] \in Stages
  BY DEF Edges, Stages

(* A status reached with an event appended prolongs the history by it.     *)
LEMMA HistoryGrows ==
    ASSUME LifecycleType, NEW r \in Webhook, r \in Requests, History(r),
           NEW to \in Stages,
           status' = [status EXCEPT ![r] = to],
           outbox' = [outbox EXCEPT ![r] = Append(@, [from |-> status[r], to |-> to])]
    PROVE  History(r)'
  <1> DEFINE log == outbox[r]
             e == [from |-> status[r], to |-> to]
  <1>1. /\ log \in Seq(Reports) /\ e \in Reports
        /\ status'[r] = to /\ outbox'[r] = Append(log, e)
    BY DEF LifecycleType, Reports
  <1>2. /\ Len(Append(log, e)) = Len(log) + 1 /\ Len(log) \in Nat
        /\ Append(log, e)[Len(log) + 1] = e
        /\ \A i \in 1 .. Len(log) : Append(log, e)[i] = log[i]
    BY <1>1
  <1>3. /\ log = <<>> => status[r] = "pending"
        /\ log # <<>> => log[1].from = "pending" /\ log[Len(log)].to = status[r]
        /\ \A i \in 1 .. Len(log) - 1 : log[i + 1].from = log[i].to
    BY DEF History
  <1>4. log = <<>> <=> Len(log) = 0
    BY <1>1
  <1> HIDE DEF log
  <1>5. outbox'[r] # <<>>
    BY <1>1
  <1>6. outbox'[r][1].from = "pending"
    <2>1. CASE Len(log) = 0
      BY <1>1, <1>2, <1>3, <1>4, <2>1
    <2>2. CASE Len(log) # 0
      BY <1>1, <1>2, <1>3, <1>4, <2>2
    <2> QED
      BY <2>1, <2>2
  <1>7. outbox'[r][Len(outbox'[r])].to = status'[r]
    BY <1>1, <1>2
  <1>8. ASSUME NEW i \in 1 .. Len(outbox'[r]) - 1
        PROVE  outbox'[r][i + 1].from = outbox'[r][i].to
    <2>1. CASE i = Len(log)
      BY <1>1, <1>2, <1>3, <1>4, <1>8, <2>1
    <2>2. CASE i # Len(log)
      <3>1. i \in 1 .. Len(log) - 1 /\ i \in 1 .. Len(log) /\ i + 1 \in 1 .. Len(log)
        BY <1>1, <1>2, <1>8, <2>2
      <3> QED
        BY <1>1, <1>2, <1>3, <3>1
    <2> QED
      BY <2>1, <2>2
  <1> QED
    BY <1>5, <1>6, <1>7, <1>8 DEF History

(* Every event a consumer gets takes up where the one before left off, and *)
(* the last one says where the request is now.                             *)
THEOREM HistoryHolds == ASSUME Webhook \subseteq Requests PROVE Spec => []OutboxIsHistory
  <1> DEFINE Inv == LifecycleType /\ OutboxIsHistory
  <1>1. Init => Inv
    BY DEF Init, LifecycleType, Stages, OutboxIsHistory, History
  <1>2. Inv /\ [Next]_lifecycleVars => Inv'
    <2> SUFFICES ASSUME Inv, [Next]_lifecycleVars PROVE Inv'
      OBVIOUS
    <2>1. CASE UNCHANGED lifecycleVars
      BY <2>1 DEF lifecycleVars, LifecycleType, OutboxIsHistory, History
    <2>2. ASSUME NEW r \in Requests, NEW edge \in Edges, Move(r, edge[1], edge[2]) PROVE Inv'
      <3>1. edge[1] \in Stages /\ edge[2] \in Stages
        BY EdgeStages
      <3>2. LifecycleType'
        <4>1. [from |-> edge[1], to |-> edge[2]] \in Reports
          BY <3>1 DEF Reports
        <4>2. \A log \in Seq(Reports) : Append(log, [from |-> edge[1], to |-> edge[2]]) \in Seq(Reports)
          BY <4>1
        <4>3. status' \in [Requests -> Stages]
          BY <2>2, <3>1 DEF Move, LifecycleType
        <4>4. outbox' \in [Requests -> Seq(Reports)]
          BY <2>2, <4>2 DEF Move, LifecycleType
        <4> QED
          BY <4>3, <4>4 DEF LifecycleType
      <3>3. ASSUME NEW q \in Webhook PROVE History(q)'
        <4>1. CASE q = r
          BY <2>2, <3>1, <4>1, HistoryGrows DEF Move, OutboxIsHistory
        <4>2. CASE q # r
          <5>1. status'[q] = status[q] /\ outbox'[q] = outbox[q]
            BY <2>2, <4>2 DEF Move, LifecycleType
          <5> QED
            BY <5>1 DEF OutboxIsHistory, History
        <4> QED
          BY <4>1, <4>2
      <3> QED
        BY <3>2, <3>3 DEF OutboxIsHistory
    <2> QED
      BY <2>1, <2>2 DEF Next
  <1> QED
    BY <1>1, <1>2, PTL DEF Spec
=============================================================================
