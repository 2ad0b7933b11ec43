-------------------------- MODULE ReconcilerProofs --------------------------
(***************************************************************************)
(* What is proved of the reconciler for every number of workers, requests  *)
(* and evidence refs and every value of the time and policy constants.     *)
(***************************************************************************)
EXTENDS ReconcilerProps, TLAPS

-----------------------------------------------------------------------------
(* The operators the actions are built from                                *)

LEMMA TargetType ==
    ASSUME NEW s \in Snapshots, NEW v, NEW orph \in BOOLEAN
    PROVE  Target(s, v, orph) \in OpenStatus
  BY DEF Target, Snapshots, OpenStatus

LEMMA NoMetaType == NoMeta \in Metas
  BY ReconcilerAssumption DEF NoMeta, Metas, Times

(* The streaks that are stored never reach StabilityCycles: the cycle that *)
(* would do so changes the status and starts them again.                   *)
LEMMA MetadataType ==
    ASSUME NEW s \in Snapshots, NEW v, NEW orph \in BOOLEAN, NEW n \in Nat
    PROVE  BuildObservationMetadata(s, v, orph, n) \in Metas
  <1> DEFINE next == Target(s, v, orph)
             m == BuildObservationMetadata(s, v, orph, n)
  <1>1. s.meta \in Metas /\ s.status \in OpenStatus
    BY DEF Snapshots
  <1>2. StabilityCycles \in Nat \ {0}
    BY ReconcilerAssumption
  <1>3. next = s.status /\ Promoting(s, v) => s.meta.promote + 1 < StabilityCycles
    BY <1>1, <1>2 DEF Target, Promoting, Demoting, Metas
  <1>4. next = s.status /\ Demoting(s, v, orph) => s.meta.demote + 1 < StabilityCycles
    BY <1>1, <1>2 DEF Target, Promoting, Demoting, Metas
  <1> QED
    BY <1>1, <1>2, <1>3, <1>4 DEF BuildObservationMetadata, Metas, Times

LEMMA TransitionType ==
    ASSUME RowType, NEW w \in Workers, NEW s \in Snapshots,
           NEW next \in Statuses, NEW m \in Metas,
           TransitionStatusIfCurrent(w, s, next, m)
    PROVE  RowType'
  <1>1. CASE CanWrite(w, s)
    <2>1. s.id \in Requests /\ s.status \in OpenStatus
      BY DEF Snapshots
    <2>2. status' \in [Requests -> Statuses] /\ meta' \in [Requests -> Metas]
      BY <1>1, <2>1 DEF TransitionStatusIfCurrent, RowType
    <2>3. lease' \in [Requests -> Leases]
      <3>1. NoLease \in Leases
        BY DEF NoLease, Leases, Times
      <3> QED
        BY <1>1, <2>1, <3>1 DEF TransitionStatusIfCurrent, RowType
    <2>4. outbox' \in [Requests -> Seq(Events)]
      <3>1. next \in Notified => [from |-> s.status, to |-> next] \in Events
        BY <2>1 DEF Events
      <3> DEFINE grown == Append(outbox[s.id], [from |-> s.status, to |-> next])
      <3>2. next \in Notified => grown \in Seq(Events)
        BY <2>1, <3>1 DEF RowType
      <3>3. \/ outbox' = outbox
            \/ next \in Notified /\ outbox' = [outbox EXCEPT ![s.id] = grown]
        BY <1>1 DEF TransitionStatusIfCurrent
      <3> HIDE DEF grown
      <3> QED
        BY <3>2, <3>3 DEF RowType
    <2> QED
      BY <2>2, <2>3, <2>4 DEF RowType
  <1>2. CASE ~CanWrite(w, s)
    BY <1>2 DEF TransitionStatusIfCurrent, RowType, rowVars
  <1> QED
    BY <1>1, <1>2

LEMMA NextRowType ==
    ASSUME WorkerType, NEW w \in Workers, NEW left \in SUBSET Snapshots, NextRow(w, left)
    PROVE  WorkerType'
  BY DEF NextRow, WorkerType

-----------------------------------------------------------------------------
(* Type correctness                                                        *)

LEMMA InitType == Init => TypeOK
  <1> SUFFICES ASSUME Init PROVE TypeOK
    OBVIOUS
  <1>1. EnvType
    BY DEF Init, EnvType, Levels
  <1>2. RowType
    <2>1. NoLease \in Leases /\ "pending" \in Statuses /\ <<>> \in Seq(Events)
      BY DEF NoLease, Leases, Times, Statuses, OpenStatus
    <2> QED
      BY <2>1, NoMetaType DEF Init, RowType
  <1>3. WorkerType
    BY DEF Init, WorkerType
  <1> QED
    BY <1>1, <1>2, <1>3 DEF TypeOK

LEMMA SnapshotType ==
    ASSUME RowType, NEW r \in Requests, status[r] \in OpenStatus
    PROVE  Snapshot(r) \in Snapshots
  BY DEF RowType, Snapshot, Snapshots

LEMMA ClaimType ==
    ASSUME TypeOK, NEW w \in Workers, Claim(w)
    PROVE  RowType' /\ WorkerType'
  <1> USE DEF TypeOK
  <1>1. PICK n \in Readings, locked \in SUBSET InStatement(w) :
          LET taken == Oldest({r \in Requests \ locked :
                                 Claimable(r, n) /\ Len(outbox[r]) < MaxEvents})
          IN /\ now' = [now EXCEPT ![w] = n]
             /\ rows' = [rows EXCEPT ![w] = {Snapshot(r) : r \in taken}]
             /\ lease' = [r \in Requests |->
                            IF r \in taken THEN [owner |-> w, until |-> n + LeaseTime]
                            ELSE lease[r]]
             /\ pc' = [pc EXCEPT ![w] = "rows"]
    BY DEF Claim
  <1> DEFINE taken == Oldest({r \in Requests \ locked :
                                 Claimable(r, n) /\ Len(outbox[r]) < MaxEvents})
  <1>2. pc[w] = "idle" /\ UNCHANGED <<status, meta, outbox, cur, view, orphaned>>
    BY DEF Claim
  <1>3. n \in Nat /\ n + LeaseTime \in Nat
    BY ReconcilerAssumption DEF Readings, EnvType
  <1>4. \A r \in taken : r \in Requests /\ status[r] \in OpenStatus
    BY DEF Oldest, Claimable, Monitored, OpenStatus
  <1>5. {Snapshot(r) : r \in taken} \in SUBSET Snapshots
    BY <1>4, SnapshotType
  <1>6. RowType'
    <2>1. [owner |-> w, until |-> n + LeaseTime] \in Leases
      BY <1>3 DEF Leases, Times
    <2>2. lease' \in [Requests -> Leases]
      BY <1>1, <2>1 DEF RowType
    <2> QED
      BY <1>2, <2>2 DEF RowType
  <1>7. WorkerType'
    <2> HIDE DEF taken
    <2>1. rows' \in [Workers -> SUBSET Snapshots]
      BY <1>1, <1>5 DEF WorkerType, taken
    <2> QED
      BY <1>1, <1>2, <1>3, <2>1 DEF WorkerType
  <1> QED
    BY <1>6, <1>7

LEMMA StepType == TypeOK /\ [Next]_vars => TypeOK'
  <1> SUFFICES ASSUME TypeOK, [Next]_vars PROVE TypeOK'
    OBVIOUS
  <1> USE DEF TypeOK
  <1>1. CASE Tick
    BY <1>1 DEF Tick, EnvType, RowType, WorkerType, rowVars, workerVars
  <1>2. CASE ChainStep
    <2>1. chain' \in [Requests -> [Refs -> Levels]]
      <3>1. \A kind \in ChainEvents : \A move \in ChainMoves[kind] : move[2] \in Levels
        BY ReconcilerAssumption DEF ChainMoves, Levels
      <3> QED
        BY <1>2, <3>1 DEF ChainStep, EnvType
    <2> QED
      BY <1>2, <2>1 DEF ChainStep, EnvType, RowType, WorkerType, rowVars, workerVars
  <1>3. ASSUME NEW w \in Workers, Claim(w) PROVE TypeOK'
    <2>1. EnvType'
      BY <1>3 DEF Claim, EnvType, envVars
    <2> QED
      BY <1>3, <2>1, ClaimType
  <1>4. ASSUME NEW w \in Workers, Expire(w) PROVE TypeOK'
    <2>1. PICK s \in rows[w] : /\ TransitionStatusIfCurrent(w, s, "expired", NoMeta)
                               /\ NextRow(w, rows[w] \ {s})
      BY <1>4 DEF Expire
    <2>2. s \in Snapshots /\ rows[w] \ {s} \in SUBSET Snapshots
      BY DEF WorkerType
    <2>3. RowType'
      BY <2>1, <2>2, NoMetaType, TransitionType DEF Statuses
    <2>4. WorkerType'
      BY <2>1, <2>2, NextRowType
    <2> QED
      BY <1>4, <2>3, <2>4 DEF Expire, EnvType, envVars
  <1>5. ASSUME NEW w \in Workers, Observe(w) PROVE TypeOK'
    <2>1. PICK s \in rows[w] :
             /\ cur' = [cur EXCEPT ![w] = s]
             /\ rows' = [rows EXCEPT ![w] = @ \ {s}]
             /\ \/ /\ view' = [view EXCEPT ![w] = chain[s.id]]
                   /\ pc' = [pc EXCEPT ![w] = "sync"]
                \/ /\ pc' = [pc EXCEPT ![w] = "failed"]
                   /\ UNCHANGED view
      BY <1>5 DEF Observe
    <2>2. s \in Snapshots /\ chain[s.id] \in [Refs -> Levels] /\ pc[w] = "rows"
      BY <1>5 DEF Observe, WorkerType, EnvType, Snapshots
    <2>3. UNCHANGED <<envVars, rowVars, settlements, now, orphaned>>
      BY <1>5 DEF Observe
    <2>4. rows' \in [Workers -> SUBSET Snapshots]
      BY <2>1 DEF WorkerType
    <2>5. WorkerType'
      BY <2>1, <2>2, <2>3, <2>4 DEF WorkerType
    <2> QED
      BY <2>3, <2>5 DEF EnvType, RowType, envVars, rowVars
  <1>6. ASSUME NEW w \in Workers, SyncObservedSettlements(w) PROVE TypeOK'
    <2>1. cur[w].id \in Requests
      BY <1>6 DEF SyncObservedSettlements, WorkerType, Snapshots
    <2>2. settlements' \in [Requests -> [Refs -> {"none", "canonical", "orphaned"}]]
      <3>1. \A flags \in [Refs -> {"none", "canonical", "orphaned"}] :
              Upserted(view[w], flags) \in [Refs -> {"none", "canonical", "orphaned"}]
        BY DEF Upserted
      <3>2. settlements[cur[w].id] \in [Refs -> {"none", "canonical", "orphaned"}]
        BY <2>1 DEF EnvType
      <3>3. Upserted(view[w], settlements[cur[w].id]) \in [Refs -> {"none", "canonical", "orphaned"}]
        BY <3>1, <3>2
      <3> QED
        BY <1>6, <2>1, <3>3 DEF SyncObservedSettlements, EnvType
    <2>3. WorkerType'
      BY <1>6 DEF SyncObservedSettlements, WorkerType
    <2> QED
      BY <1>6, <2>2, <2>3 DEF SyncObservedSettlements, EnvType, RowType, envVars, rowVars
  <1>7. ASSUME NEW w \in Workers, Write(w) PROVE TypeOK'
    <2> DEFINE s == cur[w]
    <2>1. s \in Snapshots /\ orphaned[w] \in BOOLEAN /\ now[w] \in Nat
      BY <1>7 DEF Write, WorkerType
    <2>2. Target(s, view[w], orphaned[w]) \in Statuses
      BY <2>1, TargetType DEF Statuses
    <2>3. BuildObservationMetadata(s, view[w], orphaned[w], now[w]) \in Metas
      BY <2>1, MetadataType
    <2>4. RowType'
      BY <1>7, <2>1, <2>2, <2>3, TransitionType DEF Write
    <2>5. WorkerType'
      <3>1. rows[w] \in SUBSET Snapshots /\ NextRow(w, rows[w])
        BY <1>7 DEF Write, WorkerType
      <3> QED
        BY <3>1, NextRowType
    <2> QED
      BY <1>7, <2>4, <2>5 DEF Write, EnvType, envVars
  <1>8. ASSUME NEW w \in Workers, WriteFault(w) PROVE TypeOK'
    <2>1. cur[w] \in Snapshots /\ cur[w].status \in Statuses
      BY <1>8 DEF WriteFault, WorkerType, Snapshots, Statuses
    <2>2. RowType'
      BY <1>8, <2>1, NoMetaType, TransitionType DEF WriteFault
    <2>3. WorkerType'
      <3>1. rows[w] \in SUBSET Snapshots /\ NextRow(w, rows[w])
        BY <1>8 DEF WriteFault, WorkerType
      <3> QED
        BY <3>1, NextRowType
    <2> QED
      BY <1>8, <2>2, <2>3 DEF WriteFault, EnvType, envVars
  <1>9. ASSUME NEW w \in Workers, Abort(w) PROVE TypeOK'
    <2>1. WorkerType'
      BY <1>9, NextRowType DEF Abort
    <2> QED
      BY <1>9, <2>1, ReconcilerAssumption DEF Abort, EnvType, RowType, rowVars
  <1>10. CASE UNCHANGED vars
    BY <1>10 DEF vars, envVars, rowVars, workerVars, EnvType, RowType, WorkerType
  <1> QED
    BY <1>1, <1>2, <1>3, <1>4, <1>5, <1>6, <1>7, <1>8, <1>9, <1>10 DEF Next, WorkerStep

(* Every variable keeps its type, however many workers interleave, crash   *)
(* and read skewed clocks; in particular no stored streak reaches          *)
(* StabilityCycles and an idle worker holds no row.                        *)
THEOREM TypeCorrect == Spec => []TypeOK
  BY InitType, StepType, PTL DEF Spec

-----------------------------------------------------------------------------
(* The lease                                                               *)

(* A worker holds one snapshot per request, and the one in hand is not     *)
(* among those still to do.                                                *)
OneSnapshot ==
    \A w \in Workers : /\ \A s, t \in rows[w] : s.id = t.id => s = t
                       /\ InHand(w) => \A s \in rows[w] : s.id # cur[w].id

(* While a worker's lease runs, the rows it holds carry exactly that       *)
(* lease.                                                                  *)
LeaseRecorded ==
    \A w \in Workers : \A s \in Held(w) :
        LeaseRuns(w) => lease[s.id] = [owner |-> w, until |-> LeaseEnd(w)]

LeaseInv == OneSnapshot /\ LeaseRecorded

LEMMA HeldType ==
    ASSUME TypeOK, NEW w \in Workers
    PROVE  Held(w) \subseteq Snapshots
  <1>1. rows[w] \subseteq Snapshots
    BY DEF TypeOK, WorkerType
  <1>2. InHand(w) => cur[w] \in Snapshots
    BY DEF TypeOK, WorkerType, InHand
  <1> QED
    BY <1>1, <1>2 DEF Held

(* What a worker does with a row takes the row out of its hands.           *)
LEMMA HandsOver ==
    ASSUME TypeOK, OneSnapshot, NEW w \in Workers, NEW s \in Held(w),
           NEW left \in SUBSET rows[w], NextRow(w, left), \A t \in left : t.id # s.id
    PROVE  /\ OneSnapshot'
           /\ \A v \in Workers : Held(v)' \subseteq Held(v)
           /\ \A t \in Held(w)' : t.id # s.id
           /\ \A v \in Workers : Held(v)' # {} => now'[v] = now[v]
  <1>1. /\ rows' = [rows EXCEPT ![w] = left]
        /\ cur' = [cur EXCEPT ![w] = NULL]
        /\ now' = [now EXCEPT ![w] = IF left = {} THEN 0 ELSE @]
    BY DEF NextRow
  <1>2. /\ rows \in [Workers -> SUBSET Snapshots] /\ now \in [Workers -> Nat]
        /\ cur \in [Workers -> Snapshots \cup {NULL}]
    BY DEF TypeOK, WorkerType
  <1>8. ~InHand(w)' /\ \A v \in Workers : v # w => InHand(v)' = InHand(v)
    BY DEF NextRow, InHand, TypeOK, WorkerType
  <1>3. OneSnapshot'
    BY <1>1, <1>2, <1>8 DEF OneSnapshot
  <1>4. Held(w)' = left
    BY <1>1, <1>2, <1>8 DEF Held
  <1>5. \A v \in Workers : v # w => Held(v)' = Held(v) /\ now'[v] = now[v]
    BY <1>1, <1>2, <1>8 DEF Held
  <1>6. left # {} => now'[w] = now[w]
    BY <1>1, <1>2
  <1>7. left \subseteq Held(w)
    BY DEF Held
  <1> QED
    BY <1>3, <1>4, <1>5, <1>6, <1>7

(* A row some worker holds under a running lease can be written, and so    *)
(* released, by that worker only.                                          *)
LEMMA WriteKeepsLeases ==
    ASSUME TypeOK, LeaseInv, UNCHANGED clock,
           NEW w \in Workers, NEW s \in Held(w), NEW next, NEW m,
           TransitionStatusIfCurrent(w, s, next, m),
           NEW left \in SUBSET rows[w], NextRow(w, left), \A t \in left : t.id # s.id
    PROVE  LeaseInv'
  <1>1. /\ OneSnapshot'
        /\ \A v \in Workers : Held(v)' \subseteq Held(v)
        /\ \A t \in Held(w)' : t.id # s.id
        /\ \A v \in Workers : Held(v)' # {} => now'[v] = now[v]
    BY HandsOver DEF LeaseInv
  <1>2. \A q \in Requests : q # s.id \/ ~CanWrite(w, s) => lease'[q] = lease[q]
    BY DEF TransitionStatusIfCurrent, rowVars, TypeOK, RowType
  <1> SUFFICES ASSUME NEW v \in Workers, NEW t \in Held(v)', LeaseRuns(v)'
               PROVE  lease'[t.id] = [owner |-> v, until |-> LeaseEnd(v)']
    BY <1>1 DEF LeaseInv, LeaseRecorded
  <1>3. t \in Held(v) /\ LeaseRuns(v) /\ LeaseEnd(v)' = LeaseEnd(v)
    BY <1>1 DEF LeaseRuns, LeaseEnd
  <1>4. lease[t.id] = [owner |-> v, until |-> LeaseEnd(v)]
    BY <1>3 DEF LeaseInv, LeaseRecorded
  <1>5. t.id \in Requests
    BY <1>3, HeldType DEF Snapshots
  <1>6. t.id = s.id => v # w /\ ~CanWrite(w, s)
    BY <1>1, <1>4, ReconcilerAssumption DEF CanWrite
  <1> QED
    BY <1>2, <1>3, <1>4, <1>5, <1>6

LEMMA ClaimKeepsLeases ==
    ASSUME TypeOK, LeaseInv, NEW w \in Workers, Claim(w)
    PROVE  LeaseInv'
  <1>1. PICK n \in Readings, locked \in SUBSET InStatement(w) :
          LET taken == Oldest({r \in Requests \ locked :
                                 Claimable(r, n) /\ Len(outbox[r]) < MaxEvents})
          IN /\ now' = [now EXCEPT ![w] = n]
             /\ rows' = [rows EXCEPT ![w] = {Snapshot(r) : r \in taken}]
             /\ lease' = [r \in Requests |->
                            IF r \in taken THEN [owner |-> w, until |-> n + LeaseTime]
                            ELSE lease[r]]
    BY DEF Claim
  <1> DEFINE taken == Oldest({r \in Requests \ locked :
                                 Claimable(r, n) /\ Len(outbox[r]) < MaxEvents})
  <1>2. \A r \in taken : r \in Requests /\ Unleased(r, n)
    BY DEF Oldest, Claimable
  <1> HIDE DEF taken
  <1>3. /\ now' = [now EXCEPT ![w] = n]
        /\ rows' = [rows EXCEPT ![w] = {Snapshot(r) : r \in taken}]
        /\ lease' = [r \in Requests |-> IF r \in taken THEN [owner |-> w, until |-> n + LeaseTime]
                                        ELSE lease[r]]
    BY <1>1 DEF taken
  <1>4. /\ UNCHANGED <<cur, clock>>
        /\ ~InHand(w)' /\ \A v \in Workers : v # w => InHand(v)' = InHand(v)
    BY DEF Claim, envVars, TypeOK, WorkerType, InHand
  <1>5. /\ rows \in [Workers -> SUBSET Snapshots] /\ now \in [Workers -> Nat]
        /\ cur \in [Workers -> Snapshots \cup {NULL}] /\ clock \in Nat
    BY DEF TypeOK, WorkerType, EnvType
  <1>6. n \in Nat /\ n <= clock + MaxAhead /\ LeaseTime \in Nat /\ MaxAhead \in Nat
    BY <1>5, ReconcilerAssumption DEF Readings
  <1>7. OneSnapshot'
    BY <1>3, <1>4, <1>5 DEF LeaseInv, OneSnapshot, Snapshot
  <1>8. ASSUME NEW v \in Workers, NEW t \in Held(v)', LeaseRuns(v)'
        PROVE  lease'[t.id] = [owner |-> v, until |-> LeaseEnd(v)']
    <2>1. CASE v = w
      <3>1. PICK r \in taken : t = Snapshot(r)
        BY <1>3, <1>4, <1>5, <1>8, <2>1 DEF Held
      <3>2. t.id = r /\ r \in Requests
        BY <3>1, <1>2 DEF Snapshot
      <3>3. LeaseEnd(v)' = n + LeaseTime
        BY <1>3, <1>5, <2>1 DEF LeaseEnd
      <3> QED
        BY <1>3, <2>1, <3>1, <3>2, <3>3
    <2>2. CASE v # w
      <3>1. t \in Held(v) /\ LeaseRuns(v) /\ LeaseEnd(v)' = LeaseEnd(v)
        BY <1>3, <1>4, <1>5, <1>8, <2>2 DEF Held, LeaseRuns, LeaseEnd
      <3>2. lease[t.id] = [owner |-> v, until |-> LeaseEnd(v)]
        BY <3>1 DEF LeaseInv, LeaseRecorded
      <3>3. t.id \in Requests
        BY <3>1, HeldType DEF Snapshots
      <3>4. LeaseEnd(v) \in Nat /\ LeaseEnd(v) > n
        BY <1>5, <1>6, <3>1 DEF LeaseRuns, LeaseEnd
      <3>5. t.id \notin taken
        BY <1>2, <1>6, <3>2, <3>4, ReconcilerAssumption DEF Unleased
      <3> QED
        BY <1>3, <3>1, <3>2, <3>3, <3>5
    <2> QED
      BY <2>1, <2>2
  <1> QED
    BY <1>7, <1>8 DEF LeaseInv, LeaseRecorded

(* Taking a row up moves it from one hand to the other.                    *)
LEMMA ObserveKeepsHeld ==
    ASSUME TypeOK, OneSnapshot, NEW w \in Workers, Observe(w)
    PROVE  OneSnapshot' /\ \A v \in Workers : Held(v)' = Held(v)
  <1>1. PICK s \in rows[w] : /\ cur' = [cur EXCEPT ![w] = s]
                             /\ rows' = [rows EXCEPT ![w] = @ \ {s}]
    BY DEF Observe
  <1>2. /\ rows \in [Workers -> SUBSET Snapshots] /\ cur \in [Workers -> Snapshots \cup {NULL}]
        /\ cur[w] = NULL
    BY DEF TypeOK, WorkerType, Observe
  <1>3. /\ ~InHand(w) /\ InHand(w)'
        /\ \A v \in Workers : v # w => InHand(v)' = InHand(v)
    BY DEF Observe, TypeOK, WorkerType, InHand
  <1>4. OneSnapshot'
    BY <1>1, <1>2, <1>3 DEF OneSnapshot
  <1>5. Held(w)' = Held(w)
    BY <1>1, <1>2, <1>3 DEF Held
  <1>6. \A v \in Workers : v # w => Held(v)' = Held(v)
    BY <1>1, <1>2, <1>3 DEF Held
  <1> QED
    BY <1>4, <1>5, <1>6

LEMMA StepLeases == TypeOK /\ LeaseInv /\ [Next]_vars => LeaseInv'
  <1> SUFFICES ASSUME TypeOK, LeaseInv, [Next]_vars PROVE LeaseInv'
    OBVIOUS
  <1>1. CASE Tick
    <2>1. clock \in Nat /\ clock' = clock + 1 /\ UNCHANGED <<lease, now, rows, cur, pc>>
      BY <1>1 DEF Tick, rowVars, workerVars, TypeOK, EnvType
    <2>2. \A w \in Workers : Held(w)' = Held(w) /\ (LeaseRuns(w)' => LeaseRuns(w))
                              /\ LeaseEnd(w)' = LeaseEnd(w)
      BY <2>1, ReconcilerAssumption DEF Held, InHand, LeaseRuns, LeaseEnd, TypeOK, WorkerType
    <2> QED
      BY <2>1, <2>2 DEF LeaseInv, LeaseRecorded, OneSnapshot, InHand
  <1>2. CASE ChainStep
    BY <1>2 DEF ChainStep, rowVars, workerVars, LeaseInv, LeaseRecorded, OneSnapshot,
                Held, InHand, LeaseRuns, LeaseEnd
  <1>3. ASSUME NEW w \in Workers, Claim(w) PROVE LeaseInv'
    BY <1>3, ClaimKeepsLeases
  <1>4. ASSUME NEW w \in Workers, Expire(w) PROVE LeaseInv'
    <2>1. PICK s \in rows[w] : /\ TransitionStatusIfCurrent(w, s, "expired", NoMeta)
                               /\ NextRow(w, rows[w] \ {s})
      BY <1>4 DEF Expire
    <2>2. s \in Held(w) /\ UNCHANGED clock
      BY <1>4 DEF Held, Expire, envVars
    <2>3. \A t \in rows[w] \ {s} : t.id # s.id
      BY DEF LeaseInv, OneSnapshot
    <2> QED
      BY <2>1, <2>2, <2>3, WriteKeepsLeases
  <1>5. ASSUME NEW w \in Workers, Observe(w) PROVE LeaseInv'
    <2>1. UNCHANGED <<clock, lease, now>>
      BY <1>5 DEF Observe, envVars, rowVars
    <2> QED
      BY <1>5, <2>1, ObserveKeepsHeld DEF LeaseInv, LeaseRecorded, LeaseRuns, LeaseEnd
  <1>6. ASSUME NEW w \in Workers, SyncObservedSettlements(w) PROVE LeaseInv'
    <2>1. \A v \in Workers : InHand(v)' = InHand(v)
      BY <1>6 DEF SyncObservedSettlements, InHand, TypeOK, WorkerType
    <2> QED
      BY <1>6, <2>1 DEF SyncObservedSettlements, envVars, rowVars, LeaseInv, LeaseRecorded,
                        OneSnapshot, Held, LeaseRuns, LeaseEnd
  <1>7. ASSUME NEW w \in Workers, Write(w) \/ WriteFault(w) PROVE LeaseInv'
    <2>1. PICK next, m : TransitionStatusIfCurrent(w, cur[w], next, m)
      BY <1>7 DEF Write, WriteFault
    <2>2. NextRow(w, rows[w]) /\ UNCHANGED clock
      BY <1>7 DEF Write, WriteFault, envVars
    <2>3. cur[w] \in Snapshots /\ InHand(w)
      BY <1>7 DEF Write, WriteFault, TypeOK, WorkerType, InHand
    <2>4. cur[w] \in Held(w) /\ \A t \in rows[w] : t.id # cur[w].id
      BY <2>3 DEF Held, LeaseInv, OneSnapshot
    <2> QED
      BY <2>1, <2>2, <2>4, WriteKeepsLeases
  <1>8. ASSUME NEW w \in Workers, Abort(w) PROVE LeaseInv'
    <2>1. UNCHANGED <<clock, lease>> /\ NextRow(w, {})
      BY <1>8 DEF Abort, rowVars
    <2>2. /\ rows' = [rows EXCEPT ![w] = {}] /\ cur' = [cur EXCEPT ![w] = NULL]
          /\ now' = [now EXCEPT ![w] = 0]
      BY <2>1 DEF NextRow
    <2>5. ~InHand(w)' /\ \A v \in Workers : v # w => InHand(v)' = InHand(v)
      BY <2>1 DEF NextRow, InHand, TypeOK, WorkerType
    <2>3. \A v \in Workers : \/ Held(v)' = {}
                             \/ Held(v)' = Held(v) /\ now'[v] = now[v]
      BY <2>2, <2>5 DEF Held, TypeOK, WorkerType
    <2>4. OneSnapshot'
      BY <2>2, <2>5 DEF LeaseInv, OneSnapshot, TypeOK, WorkerType
    <2> QED
      BY <2>1, <2>3, <2>4 DEF LeaseInv, LeaseRecorded, LeaseRuns, LeaseEnd
  <1>9. CASE UNCHANGED vars
    BY <1>9 DEF vars, envVars, rowVars, workerVars, LeaseInv, LeaseRecorded, OneSnapshot,
                Held, InHand, LeaseRuns, LeaseEnd
  <1> QED
    BY <1>1, <1>2, <1>3, <1>4, <1>5, <1>6, <1>7, <1>8, <1>9 DEF Next, WorkerStep

LEMMA InitLeases == Init => LeaseInv
  BY DEF Init, LeaseInv, LeaseRecorded, OneSnapshot, Held, InHand

THEOREM LeasesRecorded == Spec => []LeaseInv
  BY TypeCorrect, InitLeases, StepLeases, PTL DEF Spec

(* Two replicas never hold unexpired leases on the same request, whatever  *)
(* their number, the lease time, the skew of their clocks and the rows     *)
(* that crashed workers leave behind.                                      *)
THEOREM LeaseMutexHolds == Spec => []LeaseMutex
  <1>1. ASSUME LeaseInv, NEW v \in Workers, NEW w \in Workers, v # w,
               NEW s \in Held(v), NEW t \in Held(w), s.id = t.id
        PROVE  ~LeaseRuns(v) \/ ~LeaseRuns(w)
    <2> SUFFICES ASSUME LeaseRuns(v), LeaseRuns(w) PROVE FALSE
      OBVIOUS
    <2>1. LeaseRecorded
      BY <1>1 DEF LeaseInv
    <2>2. lease[s.id] = [owner |-> v, until |-> LeaseEnd(v)]
      BY <1>1, <2>1 DEF LeaseRecorded
    <2>3. lease[s.id] = [owner |-> w, until |-> LeaseEnd(w)]
      BY <1>1, <2>1 DEF LeaseRecorded
    <2>4. lease[s.id].owner = v /\ lease[s.id].owner = w
      BY <2>2, <2>3
    <2> QED
      BY <1>1, <2>4
  <1>2. LeaseInv => LeaseMutex
    BY <1>1 DEF LeaseMutex
  <1> QED
    BY <1>2, LeasesRecorded, PTL

-----------------------------------------------------------------------------
(* The three shapes a step can have                                        *)

(* What worker w may write for snapshot s: it expires the row, decides on  *)
(* an observation, or reports a failed one.                                *)
Outcome(w, s, next, m) ==
    \/ ShouldExpire(s, now[w]) /\ next = "expired" /\ m = NoMeta
    \/ /\ pc[w] = "write" /\ s = cur[w]
       /\ next = Target(s, view[w], orphaned[w])
       /\ m = BuildObservationMetadata(s, view[w], orphaned[w], now[w])
    \/ /\ pc[w] = "failed" /\ s = cur[w] /\ cur'[w] = NULL
       /\ next = s.status /\ m = NoMeta

WroteRow(w, s) ==
    /\ \E next, m : TransitionStatusIfCurrent(w, s, next, m) /\ Outcome(w, s, next, m)
    /\ \A t \in Held(w)' : t.id # s.id

HeldShrinks == \A v \in Workers : /\ Held(v)' \subseteq Held(v)
                                  /\ Held(v)' # {} => now'[v] = now[v]

LEMMA StepShape ==
    ASSUME TypeOK, OneSnapshot, [Next]_vars
    PROVE  \/ \E w \in Workers : Claim(w)
           \/ UNCHANGED rowVars /\ HeldShrinks
           \/ HeldShrinks /\ \E w \in Workers : \E s \in Held(w) : WroteRow(w, s)
  <1> USE DEF HeldShrinks
  <1>1. CASE Tick \/ ChainStep \/ UNCHANGED vars
    <2>1. UNCHANGED rowVars /\ UNCHANGED workerVars
      BY <1>1 DEF Tick, ChainStep, vars
    <2>2. \A v \in Workers : Held(v)' = Held(v) /\ now'[v] = now[v]
      BY <2>1 DEF workerVars, Held, InHand
    <2> QED
      BY <2>1, <2>2
  <1>2. ASSUME NEW w \in Workers, Expire(w)
        PROVE  HeldShrinks /\ \E s \in Held(w) : WroteRow(w, s)
    <2>1. PICK s \in rows[w] : /\ ShouldExpire(s, now[w])
                               /\ TransitionStatusIfCurrent(w, s, "expired", NoMeta)
                               /\ NextRow(w, rows[w] \ {s})
      BY <1>2 DEF Expire
    <2>2. s \in Held(w) /\ \A t \in rows[w] \ {s} : t.id # s.id
      BY DEF Held, OneSnapshot
    <2>3. HeldShrinks /\ \A t \in Held(w)' : t.id # s.id
      BY <2>1, <2>2, HandsOver
    <2>4. Outcome(w, s, "expired", NoMeta)
      BY <2>1 DEF Outcome
    <2> QED
      BY <2>1, <2>2, <2>3, <2>4 DEF WroteRow
  <1>3. ASSUME NEW w \in Workers, Observe(w) PROVE UNCHANGED rowVars /\ HeldShrinks
    BY <1>3, ObserveKeepsHeld DEF Observe
  <1>4. ASSUME NEW w \in Workers, SyncObservedSettlements(w)
        PROVE  UNCHANGED rowVars /\ HeldShrinks
    <2>1. \A v \in Workers : InHand(v)' = InHand(v)
      BY <1>4 DEF SyncObservedSettlements, InHand, TypeOK, WorkerType
    <2> QED
      BY <1>4, <2>1 DEF SyncObservedSettlements, Held
  <1>5. ASSUME NEW w \in Workers, Write(w) \/ WriteFault(w)
        PROVE  HeldShrinks /\ \E s \in Held(w) : WroteRow(w, s)
    <2>1. NextRow(w, rows[w]) /\ cur'[w] = NULL
      BY <1>5 DEF Write, WriteFault, NextRow, TypeOK, WorkerType
    <2>2. cur[w] \in Held(w) /\ \A t \in rows[w] : t.id # cur[w].id
      BY <1>5 DEF Write, WriteFault, Held, InHand, OneSnapshot
    <2>3. HeldShrinks /\ \A t \in Held(w)' : t.id # cur[w].id
      BY <2>1, <2>2, HandsOver
    <2>4. \E next, m : TransitionStatusIfCurrent(w, cur[w], next, m) /\ Outcome(w, cur[w], next, m)
      BY <1>5, <2>1 DEF Write, WriteFault, Outcome
    <2> QED
      BY <2>2, <2>3, <2>4 DEF WroteRow
  <1>6. ASSUME NEW w \in Workers, Abort(w) PROVE UNCHANGED rowVars /\ HeldShrinks
    <2>1. UNCHANGED rowVars /\ NextRow(w, {})
      BY <1>6 DEF Abort
    <2>2. /\ rows' = [rows EXCEPT ![w] = {}] /\ cur' = [cur EXCEPT ![w] = NULL]
          /\ now' = [now EXCEPT ![w] = 0]
      BY <2>1 DEF NextRow
    <2>3. ~InHand(w)' /\ \A v \in Workers : v # w => InHand(v)' = InHand(v)
      BY <2>1 DEF NextRow, InHand, TypeOK, WorkerType
    <2> QED
      BY <2>1, <2>2, <2>3 DEF Held, TypeOK, WorkerType
  <1> QED
    BY <1>1, <1>2, <1>3, <1>4, <1>5, <1>6 DEF Next, WorkerStep

(* What a claim puts in the hands of the worker.                           *)
LEMMA ClaimShape ==
    ASSUME TypeOK, NEW w \in Workers, Claim(w)
    PROVE  /\ UNCHANGED <<clock, status, meta, outbox>>
           /\ \A v \in Workers : v # w => Held(v)' = Held(v) /\ now'[v] = now[v]
           /\ now'[w] \in Readings /\ pc'[w] = "rows"
           /\ \A s \in Held(w)' : s.id \in Requests /\ s = Snapshot(s.id)
                                   /\ Monitored(s.id, now'[w])
  <1>1. PICK n \in Readings, locked \in SUBSET InStatement(w) :
          LET taken == Oldest({r \in Requests \ locked :
                                 Claimable(r, n) /\ Len(outbox[r]) < MaxEvents})
          IN /\ now' = [now EXCEPT ![w] = n]
             /\ rows' = [rows EXCEPT ![w] = {Snapshot(r) : r \in taken}]
    BY DEF Claim
  <1> DEFINE taken == Oldest({r \in Requests \ locked :
                                 Claimable(r, n) /\ Len(outbox[r]) < MaxEvents})
  <1>2. \A r \in taken : r \in Requests /\ Monitored(r, n)
    BY DEF Oldest, Claimable
  <1> HIDE DEF taken
  <1>3. now' = [now EXCEPT ![w] = n] /\ rows' = [rows EXCEPT ![w] = {Snapshot(r) : r \in taken}]
    BY <1>1 DEF taken
  <1>4. /\ UNCHANGED <<clock, status, meta, outbox, cur>> /\ pc'[w] = "rows"
        /\ ~InHand(w)' /\ \A v \in Workers : v # w => InHand(v)' = InHand(v)
    BY DEF Claim, envVars, TypeOK, WorkerType, InHand
  <1>5. rows \in [Workers -> SUBSET Snapshots] /\ now \in [Workers -> Nat]
    BY DEF TypeOK, WorkerType
  <1>6. Held(w)' = {Snapshot(r) : r \in taken} /\ now'[w] = n
    BY <1>3, <1>4, <1>5 DEF Held
  <1>7. \A v \in Workers : v # w => Held(v)' = Held(v) /\ now'[v] = now[v]
    BY <1>3, <1>4, <1>5 DEF Held
  <1> QED
    BY <1>2, <1>4, <1>6, <1>7 DEF Snapshot

-----------------------------------------------------------------------------
(* The skip branch                                                         *)

(* No claimed row ever takes the branch that skips a confirmed request     *)
(* whose observe window is over: the query and the branch use the same     *)
(* "now", and the query has already left such rows out.                    *)
THEOREM SkipBranchNeverTaken == Spec => []SkipBranchDead
  <1>1. Init => SkipBranchDead
    BY DEF Init, SkipBranchDead, Held, InHand
  <1>2. TypeOK /\ LeaseInv /\ SkipBranchDead /\ [Next]_vars => SkipBranchDead'
    <2> SUFFICES ASSUME TypeOK, LeaseInv, SkipBranchDead, [Next]_vars PROVE SkipBranchDead'
      OBVIOUS
    <2>1. CASE HeldShrinks
      BY <2>1 DEF HeldShrinks, SkipBranchDead, ShouldSkip
    <2>2. ASSUME NEW w \in Workers, Claim(w) PROVE SkipBranchDead'
      <3> SUFFICES ASSUME NEW v \in Workers, NEW s \in Held(v)' PROVE ~ShouldSkip(s, now'[v])
        BY DEF SkipBranchDead, ShouldSkip
      <3>1. CASE v # w
        BY <2>2, <3>1, ClaimShape DEF SkipBranchDead
      <3>2. CASE v = w
        <4>1. s = Snapshot(s.id) /\ Monitored(s.id, now'[w]) /\ s.id \in Requests
          BY <2>2, <3>2, ClaimShape
        <4>2. now'[w] \in Nat /\ meta[s.id] \in Metas
          BY <2>2, <4>1, ClaimShape DEF Readings, TypeOK, RowType
        <4>3. s.status = status[s.id] /\ s.meta = meta[s.id]
          BY <4>1 DEF Snapshot
        <4> QED
          BY <3>2, <4>1, <4>2, <4>3, ReconcilerAssumption
             DEF Monitored, ShouldSkip, Metas, Times
      <3> QED
        BY <3>1, <3>2
    <2> QED
      BY <2>1, <2>2, StepShape DEF LeaseInv
  <1> QED
    BY <1>1, <1>2, TypeCorrect, LeasesRecorded, PTL DEF Spec

-----------------------------------------------------------------------------
(* The reconciler implements the lifecycle it promises, and what follows   *)
(* for the outbox.                                                         *)

Histories == INSTANCE PaymentLifecycleProofs WITH status <- status, outbox <- outbox,
                                                     Requests <- Requests, Webhook <- Webhook

(* Every decision of the reconciler keeps the status or follows an edge.   *)
LEMMA OutcomeIsEdge ==
    ASSUME TypeOK, NEW w \in Workers, NEW s \in Held(w), NEW next, NEW m, Outcome(w, s, next, m)
    PROVE  next = s.status \/ <<s.status, next>> \in Lifecycle!Edges
  <1>1. s.status \in OpenStatus
    BY HeldType DEF Snapshots
  <1>2. CASE ShouldExpire(s, now[w]) /\ next = "expired"
    BY <1>2 DEF ShouldExpire, Lifecycle!Edges
  <1>3. CASE next = Target(s, view[w], orphaned[w])
    BY <1>1, <1>3 DEF Target, Demoting, Promoting, OpenStatus, Lifecycle!Edges
  <1> QED
    BY <1>2, <1>3 DEF Outcome

LEMMA EdgesNotified == \A edge \in Lifecycle!Edges : edge[2] \in Notified /\ edge[1] # edge[2]
  BY DEF Lifecycle!Edges, Notified

(* The compare-and-set is a move of the lifecycle or leaves it alone.      *)
LEMMA TransitionIsMove ==
    ASSUME TypeOK, NEW w \in Workers, NEW s \in Held(w), NEW next, NEW m,
           TransitionStatusIfCurrent(w, s, next, m), Outcome(w, s, next, m)
    PROVE  [Lifecycle!Next]_<<status, outbox>>
  <1>1. s.id \in Requests
    BY HeldType DEF Snapshots
  <1>2. CASE ~CanWrite(w, s)
    BY <1>2 DEF TransitionStatusIfCurrent, rowVars
  <1>3. CASE CanWrite(w, s) /\ next = s.status
    <2>1. status' = status
      <3>1. status \in [Requests -> Statuses]
        BY DEF TypeOK, RowType
      <3>2. status' = [status EXCEPT ![s.id] = status[s.id]]
        BY <1>3 DEF TransitionStatusIfCurrent, CanWrite
      <3> QED
        BY <3>1, <3>2
    <2>2. outbox' = outbox
      BY <1>3 DEF TransitionStatusIfCurrent
    <2> QED
      BY <2>1, <2>2
  <1>4. CASE CanWrite(w, s) /\ next # s.status
    <2>1. <<s.status, next>> \in Lifecycle!Edges
      BY <1>4, OutcomeIsEdge
    <2>2. next \in Notified
      BY <2>1, EdgesNotified
    <2>3. Lifecycle!Move(s.id, s.status, next)
      BY <1>4, <2>2 DEF TransitionStatusIfCurrent, CanWrite, Lifecycle!Move
    <2> QED
      BY <1>1, <2>1, <2>3 DEF Lifecycle!Next
  <1> QED
    BY <1>2, <1>3, <1>4

(* Any interleaving of workers, crashes, stale snapshots and chain         *)
(* reorganisations moves a request along the documented edges only, and    *)
(* enqueues exactly one event with each move, in the same transaction.     *)
THEOREM ReconcilerImplementsLifecycle == Spec => ImplementsLifecycle
  <1>1. Init => Lifecycle!Init
    BY DEF Init, Lifecycle!Init
  <1>2. TypeOK /\ LeaseInv /\ [Next]_vars => [Lifecycle!Next]_(Lifecycle!lifecycleVars)
    <2> SUFFICES ASSUME TypeOK, LeaseInv, [Next]_vars PROVE [Lifecycle!Next]_<<status, outbox>>
      BY DEF Lifecycle!lifecycleVars
    <2>1. CASE UNCHANGED rowVars
      BY <2>1 DEF rowVars
    <2>2. CASE \E w \in Workers : Claim(w)
      BY <2>2, ClaimShape
    <2>3. ASSUME NEW w \in Workers, NEW s \in Held(w), WroteRow(w, s)
          PROVE  [Lifecycle!Next]_<<status, outbox>>
      BY <2>3, TransitionIsMove DEF WroteRow
    <2> QED
      BY <2>1, <2>2, <2>3, StepShape DEF LeaseInv
  <1> QED
    BY <1>1, <1>2, TypeCorrect, LeasesRecorded, PTL DEF Spec, ImplementsLifecycle, Lifecycle!Spec

(* So the webhook events of a request are its whole history.               *)
THEOREM OutboxHistoryHolds == Spec => []OutboxIsHistory
  <1>1. Webhook \subseteq Requests
    BY ReconcilerAssumption
  <1>2. Histories!Spec => []Histories!OutboxIsHistory
    BY <1>1, Histories!HistoryHolds
  <1>3. OutboxIsHistory <=> Histories!OutboxIsHistory
    BY DEF OutboxIsHistory, Lifecycle!OutboxIsHistory, Histories!OutboxIsHistory,
           Lifecycle!History, Histories!History
  <1>4. Lifecycle!Init <=> Histories!Init
    BY DEF Lifecycle!Init, Histories!Init
  <1>5. [Lifecycle!Next]_(Lifecycle!lifecycleVars) => [Histories!Next]_(Histories!lifecycleVars)
    BY DEF Lifecycle!Next, Histories!Next, Lifecycle!Move, Histories!Move,
           Lifecycle!lifecycleVars, Histories!lifecycleVars, Lifecycle!Edges, Histories!Edges
  <1> QED
    BY <1>2, <1>3, <1>4, <1>5, ReconcilerImplementsLifecycle, PTL
       DEF ImplementsLifecycle, Lifecycle!Spec, Histories!Spec

=============================================================================
