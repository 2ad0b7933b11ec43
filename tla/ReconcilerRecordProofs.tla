----------------------- MODULE ReconcilerRecordProofs -----------------------
(***************************************************************************)
(* What the reconciler keeps in a row: the finality record, the start of   *)
(* the observe window, the snapshot a worker decides on, and the deadline. *)
(***************************************************************************)
EXTENDS ReconcilerProofs, ReconcilerHistory, ReconcilerEvidence, FiniteSetTheorems

LEMMA ClockMoves == [Next]_vars => UNCHANGED clock \/ Tick
  BY DEF Next, WorkerStep, vars, envVars, ChainStep, Claim, Expire, Observe,
         SyncObservedSettlements, Write, WriteFault, Abort

(* What a write leaves of the rows.                                        *)
LEMMA WriteEffect ==
    ASSUME TypeOK, NEW w \in Workers, NEW s \in Held(w), NEW next, NEW m,
           TransitionStatusIfCurrent(w, s, next, m), NEW r \in Requests
    PROVE  \/ status'[r] = status[r] /\ meta'[r] = meta[r]
           \/ CanWrite(w, s) /\ r = s.id /\ status'[r] = next /\ meta'[r] = m
  BY DEF TransitionStatusIfCurrent, rowVars, TypeOK, RowType

-----------------------------------------------------------------------------
(* The finality record                                                     *)

MetaFits(st, m) ==
    /\ m.final # NULL => st = "confirmed" /\ m.first # NULL
    /\ m.first # NULL => st \in {"confirmed", "reorged"}

RecordsFit ==
    /\ \A r \in Requests : MetaFits(status[r], meta[r])
    /\ \A w \in Workers : \A s \in Held(w) : MetaFits(s.status, s.meta)

LEMMA OutcomeFits ==
    ASSUME TypeOK, NEW w \in Workers, NEW s \in Held(w), NEW next, NEW m,
           Outcome(w, s, next, m), MetaFits(s.status, s.meta)
    PROVE  MetaFits(next, m)
  <1>1. CASE m = NoMeta
    BY <1>1 DEF NoMeta, MetaFits
  <1>2. CASE /\ next = Target(s, view[w], orphaned[w])
             /\ m = BuildObservationMetadata(s, view[w], orphaned[w], now[w])
    <2>1. now[w] # NULL
      BY ReconcilerAssumption DEF TypeOK, WorkerType
    <2>2. s.meta.first # NULL => next \in {"confirmed", "reorged"}
      BY <1>2 DEF MetaFits, Target, Promoting, Demoting
    <2>3. m.first # NULL => next \in {"confirmed", "reorged"}
      BY <1>2, <2>2 DEF BuildObservationMetadata
    <2>4. next = "confirmed" => m.first # NULL
      BY <1>2, <2>1 DEF BuildObservationMetadata
    <2>5. m.final # NULL => next = "confirmed"
      BY <1>2, <2>1, <2>2 DEF BuildObservationMetadata, MetaFits
    <2> QED
      BY <2>3, <2>4, <2>5 DEF MetaFits
  <1> QED
    BY <1>1, <1>2 DEF Outcome

(* finality_reached_at never outlives the confirmed status and             *)
(* first_confirmed_at never outlives confirmed and reorged, although the   *)
(* metadata written is computed from a snapshot that may be stale.         *)
THEOREM FinalityRecordHolds == Spec => []FinalityOnlyWhileConfirmed
  <1>1. Init => RecordsFit
    BY DEF Init, RecordsFit, MetaFits, NoMeta, Held, InHand
  <1>2. TypeOK /\ LeaseInv /\ RecordsFit /\ [Next]_vars => RecordsFit'
    <2> SUFFICES ASSUME TypeOK, LeaseInv, RecordsFit, [Next]_vars PROVE RecordsFit'
      OBVIOUS
    <2>1. CASE UNCHANGED rowVars /\ HeldShrinks
      BY <2>1 DEF rowVars, HeldShrinks, RecordsFit
    <2>2. ASSUME NEW w \in Workers, Claim(w) PROVE RecordsFit'
      <3>1. UNCHANGED <<status, meta>>
        BY <2>2, ClaimShape
      <3>2. ASSUME NEW v \in Workers, NEW s \in Held(v)' PROVE MetaFits(s.status, s.meta)
        <4>1. CASE v # w
          BY <2>2, <3>2, <4>1, ClaimShape DEF RecordsFit
        <4>2. CASE v = w
          BY <2>2, <3>2, <4>2, ClaimShape DEF RecordsFit, Snapshot
        <4> QED
          BY <4>1, <4>2
      <3> QED
        BY <3>1, <3>2 DEF RecordsFit
    <2>3. ASSUME HeldShrinks, NEW w \in Workers, NEW s \in Held(w), WroteRow(w, s)
          PROVE  RecordsFit'
      <3>1. PICK next, m : TransitionStatusIfCurrent(w, s, next, m) /\ Outcome(w, s, next, m)
        BY <2>3 DEF WroteRow
      <3>2. MetaFits(next, m)
        BY <2>3, <3>1, OutcomeFits DEF RecordsFit
      <3>3. \A r \in Requests : MetaFits(status'[r], meta'[r])
        BY <2>3, <3>1, <3>2, WriteEffect DEF RecordsFit
      <3> QED
        BY <2>3, <3>3 DEF RecordsFit, HeldShrinks
    <2> QED
      BY <2>1, <2>2, <2>3, StepShape DEF LeaseInv
  <1>3. RecordsFit => FinalityOnlyWhileConfirmed
    BY DEF RecordsFit, MetaFits, FinalityOnlyWhileConfirmed
  <1> QED
    BY <1>1, <1>2, <1>3, TypeCorrect, LeasesRecorded, PTL DEF Spec

-----------------------------------------------------------------------------
(* Time                                                                    *)

(* A worker that holds rows read its clock in the past or at most MaxAhead *)
(* in the future, and under Punctual its lease still runs.                 *)
Timely ==
    \A w \in Workers : Held(w) # {} => /\ now[w] <= clock + MaxAhead
                                       /\ Punctual => LeaseRuns(w)

LEMMA StepTimely == TypeOK /\ LeaseInv /\ Timely /\ [Next]_vars => Timely'
  <1> SUFFICES ASSUME TypeOK, LeaseInv, Timely, [Next]_vars,
                      NEW w \in Workers, Held(w)' # {}
               PROVE  now'[w] <= clock' + MaxAhead /\ (Punctual => LeaseRuns(w)')
    BY DEF Timely
  <1>1. /\ clock \in Nat /\ now[w] \in Nat
        /\ MaxAhead \in Nat /\ MaxLag \in Nat /\ LeaseTime \in Nat
    BY ReconcilerAssumption DEF TypeOK, EnvType, WorkerType
  <1>2. CASE Tick
    <2>1. Held(w)' = Held(w) /\ now'[w] = now[w] /\ pc[w] # "idle" /\ clock' = clock + 1
      BY <1>2 DEF Tick, workerVars, Held, InHand, TypeOK, WorkerType
    <2>2. Punctual => clock + 1 + MaxAhead < LeaseEnd(w)
      BY <1>2, <2>1 DEF Tick
    <2> QED
      BY <1>1, <2>1, <2>2 DEF Timely, LeaseRuns, LeaseEnd
  <1>3. CASE UNCHANGED clock /\ HeldShrinks
    BY <1>3 DEF HeldShrinks, Timely, LeaseRuns, LeaseEnd
  <1>4. ASSUME NEW v \in Workers, Claim(v)
        PROVE  now'[w] <= clock' + MaxAhead /\ (Punctual => LeaseRuns(w)')
    <2>1. CASE w # v
      BY <1>4, <2>1, ClaimShape DEF Timely, LeaseRuns, LeaseEnd
    <2>2. CASE w = v
      <3>1. now'[w] \in Readings /\ clock' = clock
        BY <1>4, <2>2, ClaimShape
      <3>2. now'[w] \in Nat /\ now'[w] <= clock + MaxAhead /\ now'[w] >= clock - MaxLag
        BY <1>1, <3>1 DEF Readings
      <3>3. Punctual => MaxLag + MaxAhead < LeaseTime
        BY ReconcilerAssumption
      <3> QED
        BY <1>1, <3>1, <3>2, <3>3 DEF LeaseRuns, LeaseEnd
    <2> QED
      BY <2>1, <2>2
  <1> QED
    BY <1>2, <1>3, <1>4, StepShape, ClockMoves DEF LeaseInv

THEOREM TimelyHolds == Spec => []Timely
  <1>1. Init => Timely
    BY DEF Init, Timely, Held, InHand
  <1> QED
    BY <1>1, StepTimely, TypeCorrect, LeasesRecorded, PTL DEF Spec

(* A request is closed as expired only after its deadline, up to the skew  *)
(* of the clocks, and never while it is confirmed.                         *)
THEOREM ExpiredAfterDeadlineHolds == Spec => ExpiredAfterDeadline
  <1>1. TypeOK /\ LeaseInv /\ Timely /\ [Next]_vars =>
           [\A r \in Requests : status[r] # "expired" /\ status'[r] = "expired" =>
               ExpiresAt[r] <= clock + MaxAhead /\ status[r] # "confirmed"]_vars
    <2> SUFFICES ASSUME TypeOK, LeaseInv, Timely, [Next]_vars, NEW r \in Requests,
                        status[r] # "expired", status'[r] = "expired"
                 PROVE  ExpiresAt[r] <= clock + MaxAhead /\ status[r] # "confirmed"
      OBVIOUS
    <2>1. PICK w \in Workers : \E s \in Held(w) : WroteRow(w, s)
      BY StepShape, ClaimShape DEF LeaseInv, rowVars
    <2>2. PICK s \in Held(w) : WroteRow(w, s)
      BY <2>1
    <2>3. PICK next, m : TransitionStatusIfCurrent(w, s, next, m) /\ Outcome(w, s, next, m)
      BY <2>2 DEF WroteRow
    <2>4. CanWrite(w, s) /\ r = s.id /\ next = "expired"
      BY <2>3, WriteEffect
    <2>5. s.status = status[r] /\ s.status \in OpenStatus /\ s \in Snapshots
      BY <2>4, HeldType DEF CanWrite, Snapshots
    <2>6. next = "expired" => next # s.status /\ next \notin OpenStatus
      BY <2>5 DEF OpenStatus
    <2>7. ShouldExpire(s, now[w])
      BY <2>3, <2>4, <2>5, <2>6, TargetType DEF Outcome, TypeOK, WorkerType
    <2>8. /\ ExpiresAt[r] \in Nat /\ now[w] \in Nat /\ clock \in Nat /\ MaxAhead \in Nat
          /\ now[w] <= clock + MaxAhead
      BY ReconcilerAssumption DEF TypeOK, WorkerType, EnvType, Timely
    <2> QED
      BY <2>4, <2>5, <2>7, <2>8 DEF ShouldExpire
  <1> QED
    BY <1>1, TypeCorrect, LeasesRecorded, TimelyHolds, PTL DEF Spec, ExpiredAfterDeadline

-----------------------------------------------------------------------------
(* Workers that finish within their lease                                  *)

(* The snapshot a worker holds is what the row says.                       *)
Fresh ==
    Punctual => \A w \in Workers : \A s \in Held(w) : Snapshot(s.id) = s

(* Only the holder of a running lease can write the row.                   *)
LEMMA OthersCannotWrite ==
    ASSUME TypeOK, LeaseInv, Timely, Punctual, NEW v \in Workers, NEW w \in Workers, v # w,
           NEW s \in Held(v), NEW t \in Held(w), s.id = t.id
    PROVE  ~CanWrite(v, s)
  <1>1. LeaseRuns(w)
    BY DEF Timely
  <1>2. lease[t.id] = [owner |-> w, until |-> LeaseEnd(w)]
    BY <1>1 DEF LeaseInv, LeaseRecorded
  <1>3. lease[s.id].owner = w
    BY <1>2
  <1> QED
    BY <1>3, ReconcilerAssumption DEF CanWrite

LEMMA StepFresh == TypeOK /\ LeaseInv /\ Timely /\ Fresh /\ [Next]_vars => Fresh'
  <1> SUFFICES ASSUME TypeOK, LeaseInv, Timely, Fresh, [Next]_vars, Punctual,
                      NEW v \in Workers, NEW t \in Held(v)'
               PROVE  Snapshot(t.id)' = t
    BY DEF Fresh
  <1>1. CASE UNCHANGED rowVars /\ HeldShrinks
    BY <1>1 DEF rowVars, HeldShrinks, Fresh, Snapshot
  <1>2. ASSUME NEW w \in Workers, Claim(w) PROVE Snapshot(t.id)' = t
    <2>1. Snapshot(t.id)' = Snapshot(t.id)
      BY <1>2, ClaimShape DEF Snapshot
    <2>2. CASE v = w
      BY <1>2, <2>1, <2>2, ClaimShape
    <2>3. CASE v # w
      BY <1>2, <2>1, <2>3, ClaimShape DEF Fresh
    <2> QED
      BY <2>2, <2>3
  <1>3. ASSUME HeldShrinks, NEW w \in Workers, NEW s \in Held(w), WroteRow(w, s)
        PROVE  Snapshot(t.id)' = t
    <2>1. PICK next, m : TransitionStatusIfCurrent(w, s, next, m)
      BY <1>3 DEF WroteRow
    <2>2. t \in Held(v) /\ t.id \in Requests
      BY <1>3, HeldType DEF HeldShrinks, Snapshots
    <2>3. ~(CanWrite(w, s) /\ t.id = s.id)
      BY <1>3, <2>2, OthersCannotWrite DEF WroteRow
    <2>4. status'[t.id] = status[t.id] /\ meta'[t.id] = meta[t.id]
      BY <2>1, <2>2, <2>3, WriteEffect
    <2> QED
      BY <2>2, <2>4 DEF Fresh, Snapshot
  <1> QED
    BY <1>1, <1>2, <1>3, StepShape DEF LeaseInv

LEMMA FreshHolds == Spec => []Fresh
  <1>1. Init => Fresh
    BY DEF Init, Fresh, Held, InHand
  <1> QED
    BY <1>1, StepFresh, TypeCorrect, LeasesRecorded, TimelyHolds, PTL DEF Spec

(* When no worker outlives its lease, a compare-and-set that succeeds      *)
(* finds the row as it was claimed: the metadata it overwrites holds       *)
(* nothing the worker has not seen, although only status and owner are     *)
(* compared.                                                               *)
THEOREM SnapshotFreshHolds == ASSUME Punctual PROVE Spec => []SnapshotFresh
  <1>1. Fresh => SnapshotFresh
    BY DEF Fresh, SnapshotFresh
  <1> QED
    BY <1>1, FreshHolds, PTL

(* Nor does the start of the observe window move, through any number of    *)
(* rollbacks and reconfirmations.                                          *)
THEOREM AnchorStableHolds == ASSUME Punctual PROVE Spec => AnchorStable
  <1>1. TypeOK /\ LeaseInv /\ Fresh /\ [Next]_vars =>
           [\A r \in Requests :
              meta[r].first # NULL /\ meta'[r].first # meta[r].first =>
                 \/ status'[r] = "expired"
                 \/ \E w \in Workers : pc[w] = "failed" /\ cur[w].id = r /\ cur'[w] = NULL]_vars
    <2> SUFFICES ASSUME TypeOK, LeaseInv, Fresh, [Next]_vars, NEW r \in Requests,
                        meta[r].first # NULL, meta'[r].first # meta[r].first
                 PROVE  \/ status'[r] = "expired"
                        \/ \E w \in Workers : /\ pc[w] = "failed" /\ cur[w].id = r
                                              /\ cur'[w] = NULL
      OBVIOUS
    <2>1. PICK w \in Workers : \E s \in Held(w) : WroteRow(w, s)
      BY StepShape, ClaimShape DEF LeaseInv, rowVars
    <2>2. PICK s \in Held(w) : WroteRow(w, s)
      BY <2>1
    <2>3. PICK next, m : TransitionStatusIfCurrent(w, s, next, m) /\ Outcome(w, s, next, m)
      BY <2>2 DEF WroteRow
    <2>4. r = s.id /\ status'[r] = next /\ meta'[r] = m
      BY <2>3, WriteEffect
    <2>5. s.meta = meta[r]
      BY <2>4 DEF Fresh, Snapshot
    <2>6. ~(m = BuildObservationMetadata(s, view[w], orphaned[w], now[w]))
      BY <2>4, <2>5 DEF BuildObservationMetadata
    <2> QED
      BY <2>3, <2>4, <2>6 DEF Outcome
  <1> QED
    BY <1>1, TypeCorrect, LeasesRecorded, FreshHolds, PTL DEF Spec, AnchorStable

-----------------------------------------------------------------------------
(* The evidence a confirmation rests on                                    *)

TrailType == trail \in [Requests -> [by : Workers \cup {NULL}, open : BOOLEAN, lapse : BOOLEAN]]

(* A worker about to write, whose settlements are still the last written,  *)
(* has recorded all it saw, and it reports what a confirmed request has    *)
(* lost: the row still has enough, or evidence went in an earlier cycle.   *)
Knows(w, r) ==
    trail[r].by = w =>
        /\ Showing(view[w], {"deep", "final"}) \subseteq Canonical(r)
        /\ status[r] = "confirmed" /\ ~trail[r].lapse /\ ~orphaned[w] => Enough(r)

WriterKnows ==
    \A w \in Workers : \A r \in Requests : pc[w] = "write" /\ cur[w].id = r => Knows(w, r)

EvidenceInv == TrailType /\ WriterKnows /\ ConfirmedHasEvidence

LEMMA MoreIsEnough ==
    ASSUME IsFiniteSet(Refs), NEW S \in SUBSET Refs, NEW T \in SUBSET S, Cardinality(T) >= ConfirmAt
    PROVE  Cardinality(S) >= ConfirmAt
  <1>1. IsFiniteSet(S)
    BY FS_Subset
  <1>2. Cardinality(T) <= Cardinality(S) /\ IsFiniteSet(T)
    BY <1>1, FS_Subset
  <1>3. Cardinality(T) \in Nat /\ Cardinality(S) \in Nat
    BY <1>1, <1>2, FS_CardinalityType
  <1> QED
    BY <1>2, <1>3, ReconcilerAssumption

LEMMA WriterRow ==
    ASSUME TypeOK, NEW w \in Workers, pc[w] \in {"sync", "write", "failed"}
    PROVE  /\ cur[w] \in Snapshots /\ cur[w].id \in Requests /\ cur[w] \in Held(w)
           /\ cur[w].status \in OpenStatus /\ cur[w].meta.demote \in Nat
  <1>1. cur[w] \in Snapshots /\ cur[w] \in Held(w)
    BY DEF TypeOK, WorkerType, Held, InHand
  <1> QED
    BY <1>1, ReconcilerAssumption DEF Snapshots, Metas

(* What a worker about to write knows of its row lasts for as long as the  *)
(* row's settlements and trail stay and no one confirms the request.       *)
LEMMA KnowsLasts ==
    ASSUME NEW w \in Workers, NEW r \in Requests, Knows(w, r),
           Canonical(r)' = Canonical(r), view'[w] = view[w], orphaned'[w] = orphaned[w],
           trail'[r].by = w => trail[r].by = w,
           trail'[r].by = w /\ status'[r] = "confirmed" /\ ~trail'[r].lapse =>
               status[r] = "confirmed" /\ ~trail[r].lapse
    PROVE  Knows(w, r)'
  <1>1. Showing(view[w], {"deep", "final"})' = Showing(view[w], {"deep", "final"})
    BY DEF Showing
  <1>2. Enough(r)' <=> Enough(r)
    BY DEF Enough
  <1> QED
    BY <1>1, <1>2 DEF Knows

(* A step that leaves settlements and trail alone, confirms no request and *)
(* lets no worker begin its write.                                         *)
LEMMA QuietKeepsEvidence ==
    ASSUME TypeOK, EvidenceInv, UNCHANGED <<settlements, trail>>,
           \A r \in Requests : status'[r] = "confirmed" =>
               status[r] = "confirmed" /\ meta'[r].demote = meta[r].demote,
           \A v \in Workers : pc'[v] = "write" =>
               /\ pc[v] = "write"
               /\ cur'[v] = cur[v] /\ view'[v] = view[v] /\ orphaned'[v] = orphaned[v]
    PROVE  EvidenceInv'
  <1>1. \A r \in Requests : Canonical(r)' = Canonical(r) /\ (Enough(r)' <=> Enough(r))
    BY DEF Canonical, Enough
  <1>2. ConfirmedHasEvidence'
    BY <1>1 DEF EvidenceInv, ConfirmedHasEvidence
  <1>3. ASSUME NEW v \in Workers, NEW r \in Requests, pc'[v] = "write", cur'[v].id = r
        PROVE  Knows(v, r)'
    <2>1. Knows(v, r)
      BY <1>3 DEF EvidenceInv, WriterKnows
    <2> QED
      BY <1>1, <1>3, <2>1, KnowsLasts
  <1>4. TrailType'
    BY DEF EvidenceInv, TrailType
  <1> QED
    BY <1>2, <1>3, <1>4 DEF EvidenceInv, WriterKnows

(* Reading the clock, the chain or the table changes no evidence, and an   *)
(* expiry closes no confirmed request.                                     *)
LEMMA OtherKeepsEvidence ==
    ASSUME TypeOK, EvidenceInv, OtherStep \/ UNCHANGED vars, UNCHANGED trail
    PROVE  EvidenceInv'
  <1>1. CASE Tick \/ ChainStep \/ UNCHANGED vars
    <2>1. UNCHANGED <<status, meta, settlements, pc, cur, view, orphaned>>
      BY <1>1 DEF Tick, ChainStep, vars, rowVars, workerVars
    <2> QED
      BY <2>1, QuietKeepsEvidence
  <1>2. ASSUME NEW w \in Workers, Claim(w) \/ Observe(w) PROVE EvidenceInv'
    <2>1. UNCHANGED <<status, meta, settlements, orphaned>>
      BY <1>2 DEF Claim, Observe, rowVars
    <2>2. \A v \in Workers : pc'[v] = "write" =>
             pc[v] = "write" /\ cur'[v] = cur[v] /\ view'[v] = view[v]
      BY <1>2 DEF Claim, Observe, TypeOK, WorkerType
    <2> QED
      BY <2>1, <2>2, QuietKeepsEvidence
  <1>3. ASSUME NEW w \in Workers, Abort(w) \/ Expire(w) PROVE EvidenceInv'
    <2>1. UNCHANGED settlements
      BY <1>3 DEF Abort, Expire
    <2>2. PICK left : NextRow(w, left)
      BY <1>3 DEF Abort, Expire
    <2>3. \A v \in Workers : pc'[v] = "write" =>
             /\ pc[v] = "write"
             /\ cur'[v] = cur[v] /\ view'[v] = view[v] /\ orphaned'[v] = orphaned[v]
      BY <2>2 DEF NextRow, TypeOK, WorkerType
    <2>4. \A r \in Requests : status'[r] = "confirmed" =>
             status[r] = "confirmed" /\ meta'[r] = meta[r]
      <3>1. CASE Abort(w)
        BY <3>1 DEF Abort, rowVars
      <3>2. CASE Expire(w)
        <4>1. PICK s : TransitionStatusIfCurrent(w, s, "expired", NoMeta)
          BY <3>2 DEF Expire
        <4> QED
          BY <4>1 DEF TransitionStatusIfCurrent, rowVars, TypeOK, RowType
      <3> QED
        BY <1>3, <3>1, <3>2
    <2> QED
      BY <2>1, <2>3, <2>4, QuietKeepsEvidence
  <1> QED
    BY <1>1, <1>2, <1>3 DEF OtherStep

(* A failed observation erases the streak that may stand for evidence      *)
(* lost, and leaves the row open to the next cycle.                        *)
LEMMA FaultKeepsEvidence ==
    ASSUME TypeOK, EvidenceInv, NEW w \in Workers, WriteFault(w), FaultTrail(w)
    PROVE  EvidenceInv'
  <1> DEFINE s == cur[w]
  <1>1. /\ pc[w] = "failed" /\ s.id \in Requests /\ UNCHANGED settlements
        /\ TransitionStatusIfCurrent(w, s, s.status, NoMeta) /\ NextRow(w, rows[w])
    BY WriterRow DEF WriteFault
  <1>2. \A v \in Workers : pc'[v] = "write" =>
           /\ pc[v] = "write"
           /\ cur'[v] = cur[v] /\ view'[v] = view[v] /\ orphaned'[v] = orphaned[v]
    BY <1>1 DEF NextRow, TypeOK, WorkerType
  <1>3. CASE ~CanWrite(w, s)
    BY <1>1, <1>2, <1>3, QuietKeepsEvidence DEF FaultTrail, TransitionStatusIfCurrent, rowVars
  <1>4. CASE CanWrite(w, s)
    <2>1. /\ status' = status
          /\ \A q \in Requests : q # s.id => meta'[q] = meta[q]
      BY <1>1, <1>4 DEF TransitionStatusIfCurrent, CanWrite, TypeOK, RowType
    <2>2. /\ TrailType'
          /\ \A q \in Requests : trail'[q].by = trail[q].by /\ trail'[q].lapse = trail[q].lapse
          /\ \A q \in Requests : q # s.id => trail'[q] = trail[q]
          /\ trail'[s.id].open = (trail[s.id].open \/ trail[s.id].lapse)
      <3>1. trail' = [trail EXCEPT ![s.id].open = @ \/ trail[s.id].lapse]
        BY <1>4 DEF FaultTrail
      <3>2. TrailType
        BY DEF EvidenceInv
      <3> QED
        BY <1>1, <3>1, <3>2 DEF TrailType
    <2>3. \A q \in Requests : Canonical(q)' = Canonical(q) /\ (Enough(q)' <=> Enough(q))
      BY <1>1 DEF Canonical, Enough
    <2>4. ASSUME NEW q \in Requests, status'[q] = "confirmed", ~trail'[q].open
          PROVE  Enough(q)' \/ (trail'[q].lapse /\ meta'[q].demote > 0)
      <3>1. CASE q = s.id
        BY <2>1, <2>2, <2>3, <2>4, <3>1 DEF EvidenceInv, ConfirmedHasEvidence
      <3>2. CASE q # s.id
        BY <2>1, <2>2, <2>3, <2>4, <3>2 DEF EvidenceInv, ConfirmedHasEvidence
      <3> QED
        BY <3>1, <3>2
    <2>5. ASSUME NEW v \in Workers, NEW q \in Requests, pc'[v] = "write", cur'[v].id = q
          PROVE  Knows(v, q)'
      <3>1. Knows(v, q)
        BY <1>2, <2>5 DEF EvidenceInv, WriterKnows
      <3> QED
        BY <1>2, <2>1, <2>2, <2>3, <2>5, <3>1, KnowsLasts
    <2> QED
      BY <2>2, <2>4, <2>5 DEF EvidenceInv, WriterKnows, ConfirmedHasEvidence
  <1> QED
    BY <1>3, <1>4

(* A worker that finds nothing newly orphaned takes no evidence away,      *)
(* unless it saw it as removed.                                            *)
LEMMA SyncKeepsEvidence ==
    ASSUME TypeOK, EvidenceInv, IsFiniteSet(Refs),
           NEW w \in Workers, SyncObservedSettlements(w), SyncTrail(w)
    PROVE  EvidenceInv'
  <1>0. PICK r \in Requests : r = cur[w].id
    BY WriterRow DEF SyncObservedSettlements
  <1> DEFINE orphans == NewlyOrphaned(view[w], settlements[r])
  <1>1. TrailType
    BY DEF EvidenceInv
  <1>2. /\ pc[w] = "sync"
        /\ settlements' = [settlements EXCEPT ![r] = [e \in Refs |->
              IF e \in orphans THEN "orphaned" ELSE Upserted(view[w], @)[e]]]
        /\ orphaned' = [orphaned EXCEPT ![w] = orphans # {}]
        /\ pc' = [pc EXCEPT ![w] = "write"]
        /\ UNCHANGED <<status, meta, cur, view>>
    BY <1>0 DEF SyncObservedSettlements, rowVars
  <1>3. \A q \in Requests : q # r => Canonical(q)' = Canonical(q) /\ (Enough(q)' <=> Enough(q))
    BY <1>2 DEF Canonical, Enough, TypeOK, EnvType
  <1>4. /\ \A v \in Workers : v # w => pc'[v] = pc[v] /\ orphaned'[v] = orphaned[v]
        /\ orphaned'[w] <=> orphans # {}
    BY <1>2 DEF TypeOK, WorkerType
  <1>5. /\ trail'[r].by = w /\ trail'[r].open
        /\ ~trail'[r].lapse => ~trail[r].lapse /\ ~trail[r].open /\ ~Removes(w, r)
        /\ \A q \in Requests : q # r => trail'[q] = trail[q]
        /\ TrailType'
    <2>1. trail' = [trail EXCEPT ![r] =
                      [by |-> w, open |-> TRUE, lapse |-> @.lapse \/ @.open \/ Removes(w, r)]]
      BY <1>0 DEF SyncTrail
    <2>2. Removes(w, r) \in BOOLEAN
      BY DEF Removes
    <2> QED
      BY <1>1, <2>1, <2>2 DEF TrailType
  <1>6. \A e \in Refs : settlements'[r][e] =
             IF e \in orphans THEN "orphaned" ELSE Upserted(view[w], settlements[r])[e]
    <2>1. settlements[r] \in [Refs -> {"none", "canonical", "orphaned"}] /\ r \in DOMAIN settlements
      BY DEF TypeOK, EnvType
    <2>2. settlements'[r] = [e \in Refs |->
              IF e \in orphans THEN "orphaned" ELSE Upserted(view[w], settlements[r])[e]]
      BY <1>2, <2>1
    <2> QED
      BY <2>2
  <1>7. Showing(view[w], {"deep", "final"}) \subseteq Canonical(r)'
    <2> SUFFICES ASSUME NEW e \in Refs, view[w][e] \in {"deep", "final"}
                 PROVE  settlements'[r][e] = "canonical"
      BY DEF Showing, Canonical
    <2>1. e \notin orphans
      BY DEF NewlyOrphaned, Reported, Showing
    <2>2. Upserted(view[w], settlements[r])[e] = "canonical"
      BY DEF Upserted
    <2> QED
      BY <1>6, <2>1, <2>2
  <1>8. orphans = {} /\ ~Removes(w, r) => Canonical(r) \subseteq Canonical(r)'
    <2> SUFFICES ASSUME orphans = {}, ~Removes(w, r), NEW e \in Refs,
                        settlements[r][e] = "canonical"
                 PROVE  settlements'[r][e] = "canonical"
      BY DEF Canonical
    <2>1. view[w][e] # "removed"
      BY DEF Removes
    <2> QED
      BY <1>6, <2>1 DEF Upserted
  <1>9. Knows(w, r)'
    <2>1. Showing(view[w], {"deep", "final"})' = Showing(view[w], {"deep", "final"})
      BY <1>2 DEF Showing
    <2>2. ASSUME status'[r] = "confirmed", ~trail'[r].lapse, ~orphaned'[w]
          PROVE  Enough(r)'
      <3>1. orphans = {} /\ ~Removes(w, r) /\ Enough(r)
        BY <1>2, <1>4, <1>5, <2>2 DEF EvidenceInv, ConfirmedHasEvidence
      <3>2. Canonical(r) \subseteq Canonical(r)' /\ Cardinality(Canonical(r)) >= ConfirmAt
        BY <1>8, <3>1 DEF Enough
      <3>3. Canonical(r)' \subseteq Refs
        BY DEF Canonical
      <3>4. Cardinality(Canonical(r)') >= ConfirmAt
        BY <3>2, <3>3, MoreIsEnough
      <3> QED
        BY <3>4 DEF Enough
    <2> QED
      BY <1>7, <2>1, <2>2 DEF Knows
  <1>10. ASSUME NEW v \in Workers, NEW q \in Requests, pc'[v] = "write", cur'[v].id = q
         PROVE  Knows(v, q)'
    <2>1. CASE v = w
      BY <1>0, <1>2, <1>9, <1>10, <2>1
    <2>2. CASE v # w /\ q = r
      BY <1>5, <2>2 DEF Knows
    <2>3. CASE v # w /\ q # r
      <3>1. Knows(v, q)
        BY <1>2, <1>4, <1>10, <2>3 DEF EvidenceInv, WriterKnows
      <3> QED
        BY <1>2, <1>3, <1>4, <1>5, <2>3, <3>1, KnowsLasts
    <2> QED
      BY <2>1, <2>2, <2>3
  <1>11. ConfirmedHasEvidence'
    <2> SUFFICES ASSUME NEW q \in Requests, status'[q] = "confirmed", ~trail'[q].open
                 PROVE  Enough(q)' \/ (trail'[q].lapse /\ meta'[q].demote > 0)
      BY DEF ConfirmedHasEvidence
    <2>1. q # r /\ trail'[q] = trail[q]
      BY <1>5
    <2> QED
      BY <1>2, <1>3, <2>1 DEF EvidenceInv, ConfirmedHasEvidence
  <1> QED
    BY <1>5, <1>10, <1>11 DEF EvidenceInv, WriterKnows

(* The write of the worker whose settlements stand leaves confirmed only   *)
(* what has enough, or counts towards the rollback; any other write leaves *)
(* the row open.                                                           *)
LEMMA WriteKeepsEvidence ==
    ASSUME TypeOK, EvidenceInv, IsFiniteSet(Refs), NEW w \in Workers, Write(w), WriteTrail(w)
    PROVE  EvidenceInv'
  <1>0. PICK r \in Requests : r = cur[w].id
    BY WriterRow DEF Write
  <1> DEFINE s == cur[w]
             next == Target(s, view[w], orphaned[w])
             m == BuildObservationMetadata(s, view[w], orphaned[w], now[w])
  <1>1. /\ pc[w] = "write" /\ s.id = r /\ s.meta.demote \in Nat /\ UNCHANGED settlements
        /\ TransitionStatusIfCurrent(w, s, next, m) /\ NextRow(w, rows[w])
    BY <1>0, WriterRow DEF Write
  <1>2. \A v \in Workers : pc'[v] = "write" =>
           /\ v # w /\ pc[v] = "write"
           /\ cur'[v] = cur[v] /\ view'[v] = view[v] /\ orphaned'[v] = orphaned[v]
    BY <1>1 DEF NextRow, TypeOK, WorkerType
  <1>3. CASE ~CanWrite(w, s)
    BY <1>1, <1>2, <1>3, QuietKeepsEvidence DEF WriteTrail, TransitionStatusIfCurrent, rowVars
  <1>4. CASE CanWrite(w, s)
    <2> DEFINE own == trail[r].by = w
    <2>1. /\ status'[r] = next /\ meta'[r] = m /\ status[r] = s.status
          /\ \A q \in Requests : q # r => status'[q] = status[q] /\ meta'[q] = meta[q]
      BY <1>1, <1>4 DEF TransitionStatusIfCurrent, CanWrite, TypeOK, RowType
    <2>2. /\ TrailType'
          /\ \A q \in Requests : q # r => trail'[q] = trail[q]
          /\ own => /\ trail'[r].by = NULL
                    /\ trail'[r].lapse = (trail[r].lapse /\ ~Confirmed(view[w]))
          /\ ~own => /\ trail'[r].by = trail[r].by /\ trail'[r].open /\ trail'[r].lapse
      <3>1. trail' = [trail EXCEPT
                        ![r] = IF own THEN [by |-> NULL, open |-> FALSE,
                                            lapse |-> @.lapse /\ ~Confirmed(view[w])]
                               ELSE [@ EXCEPT !.open = TRUE, !.lapse = TRUE]]
        BY <1>1, <1>4 DEF WriteTrail
      <3>2. TrailType
        BY DEF EvidenceInv
      <3>3. Confirmed(view[w]) \in BOOLEAN
        BY DEF Confirmed
      <3>4. CASE own
        BY <3>1, <3>2, <3>3, <3>4 DEF TrailType
      <3>5. CASE ~own
        BY <3>1, <3>2, <3>5 DEF TrailType
      <3> QED
        BY <3>4, <3>5
    <2>3. \A q \in Requests : Canonical(q)' = Canonical(q) /\ (Enough(q)' <=> Enough(q))
      BY <1>1 DEF Canonical, Enough
    <2>4. ASSUME next = "confirmed", own
          PROVE  Enough(r) \/ (trail'[r].lapse /\ m.demote > 0)
      <3>1. Knows(w, r)
        BY <1>1 DEF EvidenceInv, WriterKnows
      <3>2. CASE Confirmed(view[w])
        <4>1. /\ Showing(view[w], {"deep", "final"}) \subseteq Canonical(r)
              /\ Cardinality(Showing(view[w], {"deep", "final"})) >= ConfirmAt
          BY <2>4, <3>1, <3>2 DEF Knows, Confirmed
        <4>2. Canonical(r) \subseteq Refs
          BY DEF Canonical
        <4> QED
          BY <4>1, <4>2, MoreIsEnough DEF Enough
      <3>3. CASE ~Confirmed(view[w])
        <4>1. s.status = "confirmed" /\ ~orphaned[w] /\ Demoting(s, view[w], orphaned[w])
          BY <2>4, <3>3 DEF Target, Demoting, Promoting
        <4>2. m.demote = s.meta.demote + 1
          BY <2>4, <4>1 DEF BuildObservationMetadata
        <4>3. m.demote > 0
          BY <1>1, <4>2
        <4>4. ~trail[r].lapse => Enough(r)
          BY <2>1, <2>4, <3>1, <4>1 DEF Knows
        <4> QED
          BY <2>2, <2>4, <3>3, <4>3, <4>4
      <3> QED
        BY <3>2, <3>3
    <2>5. ASSUME NEW q \in Requests, status'[q] = "confirmed", ~trail'[q].open
          PROVE  Enough(q)' \/ (trail'[q].lapse /\ meta'[q].demote > 0)
      <3>1. CASE q = r
        BY <2>1, <2>2, <2>3, <2>4, <2>5, <3>1
      <3>2. CASE q # r
        BY <2>1, <2>2, <2>3, <2>5, <3>2 DEF EvidenceInv, ConfirmedHasEvidence
      <3> QED
        BY <3>1, <3>2
    <2>6. ASSUME NEW v \in Workers, NEW q \in Requests, pc'[v] = "write", cur'[v].id = q
          PROVE  Knows(v, q)'
      <3>1. v # w /\ Knows(v, q) /\ view'[v] = view[v] /\ orphaned'[v] = orphaned[v]
        BY <1>2, <2>6 DEF EvidenceInv, WriterKnows
      <3>2. CASE q = r /\ own
        <4>1. trail'[q].by # v
          BY <2>2, <3>2, ReconcilerAssumption
        <4> QED
          BY <4>1 DEF Knows
      <3>3. CASE q = r /\ ~own
        BY <2>2, <2>3, <3>1, <3>3, KnowsLasts
      <3>4. CASE q # r
        BY <2>1, <2>2, <2>3, <3>1, <3>4, KnowsLasts
      <3> QED
        BY <3>2, <3>3, <3>4
    <2> QED
      BY <2>2, <2>5, <2>6 DEF EvidenceInv, WriterKnows, ConfirmedHasEvidence
  <1> QED
    BY <1>3, <1>4

LEMMA StepEvidence ==
    ASSUME TypeOK, EvidenceInv, IsFiniteSet(Refs), [ENext]_<<vars, trail>>
    PROVE  EvidenceInv'
  <1>1. CASE UNCHANGED <<vars, trail>>
    BY <1>1, OtherKeepsEvidence
  <1>2. CASE OtherStep /\ UNCHANGED trail
    BY <1>2, OtherKeepsEvidence
  <1>3. ASSUME NEW w \in Workers, SyncObservedSettlements(w), SyncTrail(w) PROVE EvidenceInv'
    BY <1>3, SyncKeepsEvidence
  <1>4. ASSUME NEW w \in Workers, Write(w), WriteTrail(w) PROVE EvidenceInv'
    BY <1>4, WriteKeepsEvidence
  <1>5. ASSUME NEW w \in Workers, WriteFault(w), FaultTrail(w) PROVE EvidenceInv'
    BY <1>5, FaultKeepsEvidence
  <1> QED
    BY <1>1, <1>2, <1>3, <1>4, <1>5 DEF ENext

LEMMA EvidenceRefines == ESpec => Spec
  <1>1. EInit => Init
    BY DEF EInit
  <1>2. [ENext]_<<vars, trail>> => [Next]_vars
    BY DEF ENext, OtherStep, Next, WorkerStep
  <1> QED
    BY <1>1, <1>2, PTL DEF ESpec, Spec

(* The settlements and the status of a confirmed request agree whenever a  *)
(* cycle of the row is complete: with any number of workers, of whatever   *)
(* speed, any crash between the two transactions and removed logs.  What   *)
(* those take away without a report, the next complete cycle finds again   *)
(* or counts towards the rollback.                                         *)
THEOREM ConfirmedHasEvidenceHolds ==
    ASSUME IsFiniteSet(Refs) PROVE ESpec => []ConfirmedHasEvidence
  <1>1. EInit => EvidenceInv
    BY DEF EInit, Init, EvidenceInv, TrailType, WriterKnows, ConfirmedHasEvidence
  <1>2. TypeOK /\ EvidenceInv /\ [ENext]_<<vars, trail>> => EvidenceInv'
    BY StepEvidence
  <1>3. EvidenceInv => ConfirmedHasEvidence
    BY DEF EvidenceInv
  <1> QED
    BY <1>1, <1>2, <1>3, EvidenceRefines, TypeCorrect, PTL DEF ESpec

-----------------------------------------------------------------------------
(* The stability streaks                                                   *)

(* The counters in a row's metadata never run ahead of what its completed  *)
(* cycles saw.                                                             *)
StreaksBacked ==
    \A r \in Requests :
        /\ run[r].good \in 0 .. StabilityCycles /\ run[r].bad \in 0 .. StabilityCycles
        /\ meta[r].promote <= run[r].good /\ meta[r].demote <= run[r].bad

LEMMA HistoryRefines == HSpec => Spec
  <1>1. HInit => Init
    BY DEF HInit
  <1>2. [HNext]_<<vars, run>> => [Next]_vars
    BY DEF HNext
  <1> QED
    BY <1>1, <1>2, PTL DEF HSpec, Spec

LEMMA CountOnType ==
    ASSUME NEW n \in 0 .. StabilityCycles
    PROVE  /\ CountOn(n) \in 0 .. StabilityCycles
           /\ \A k \in Nat : k <= n /\ k < StabilityCycles => k + 1 <= CountOn(n)
  BY ReconcilerAssumption DEF CountOn

(* Only one worker has a row in hand, and it can write it.                 *)
LEMMA InHandOwned ==
    ASSUME TypeOK, LeaseInv, Timely, Fresh, Punctual, NEW w \in Workers, InHand(w)
    PROVE  /\ cur[w] \in Held(w) /\ cur[w] \in Snapshots /\ cur[w].id \in Requests
           /\ CanWrite(w, cur[w])
           /\ \A v \in Workers : InHand(v) /\ v # w => cur[v].id # cur[w].id
  <1>1. /\ cur[w] \in Held(w) /\ cur[w] \in Snapshots /\ cur[w].id \in Requests
    BY DEF Held, InHand, TypeOK, WorkerType, Snapshots
  <1>2. \A v \in Workers : InHand(v) => cur[v] \in Held(v) /\ lease[cur[v].id].owner = v
    <2> SUFFICES ASSUME NEW v \in Workers, InHand(v)
                 PROVE  cur[v] \in Held(v) /\ lease[cur[v].id].owner = v
      OBVIOUS
    <2>1. cur[v] \in Held(v)
      BY DEF Held
    <2>2. LeaseRuns(v)
      BY <2>1 DEF Timely
    <2>3. lease[cur[v].id] = [owner |-> v, until |-> LeaseEnd(v)]
      BY <2>1, <2>2 DEF LeaseInv, LeaseRecorded
    <2> QED
      BY <2>1, <2>3
  <1>3. status[cur[w].id] = cur[w].status
    BY <1>1 DEF Fresh, Snapshot
  <1> QED
    BY <1>1, <1>2, <1>3 DEF CanWrite

(* The cycle that completes for a row is the only one that touches it, it  *)
(* finds the row as it was claimed, and it writes what it decided.         *)
LEMMA CompletedCycle ==
    ASSUME TypeOK, LeaseInv, Timely, Fresh, Punctual, [Next]_vars,
           NEW w \in Workers, NEW r \in Requests, Completes(w, r)
    PROVE  /\ cur[w] \in Snapshots /\ cur[w].status = status[r] /\ cur[w].meta = meta[r]
           /\ \A v \in Workers : Completes(v, r) => v = w
           /\ pc[w] = "failed" => status'[r] = status[r] /\ meta'[r] = NoMeta
           /\ pc[w] = "write" =>
                 /\ status'[r] = Target(cur[w], view[w], orphaned[w])
                 /\ meta'[r] = BuildObservationMetadata(cur[w], view[w], orphaned[w], now[w])
  <1>1. /\ InHand(w) /\ cur[w].id = r /\ pc[w] \in {"write", "failed"}
        /\ pc'[w] \in {"rows", "idle"} /\ aborts' = aborts
    BY DEF Completes, InHand
  <1>2. /\ cur[w] \in Held(w) /\ cur[w] \in Snapshots /\ CanWrite(w, cur[w])
        /\ \A v \in Workers : InHand(v) /\ v # w => cur[v].id # r
    BY <1>1, InHandOwned
  <1>3. cur[w].status = status[r] /\ cur[w].meta = meta[r]
    BY <1>1, <1>2 DEF Fresh, Snapshot
  <1>4. \A v \in Workers : Completes(v, r) => v = w
    BY <1>2 DEF Completes, InHand
  <1>5. Write(w) \/ WriteFault(w)
    <2>1. ~Tick /\ ~ChainStep /\ ~UNCHANGED vars
      BY <1>1 DEF Tick, ChainStep, vars, workerVars
    <2>2. ASSUME NEW v \in Workers, WorkerStep(v) \/ Abort(v)
          PROVE  v = w
      <3>1. v # w => pc'[w] = pc[w]
        BY <2>2 DEF WorkerStep, Abort, Claim, Expire, Observe, SyncObservedSettlements, Write,
                    WriteFault, NextRow, TypeOK, WorkerType
      <3> QED
        BY <1>1, <3>1
    <2>3. ~Abort(w)
      BY <1>1 DEF Abort, TypeOK, EnvType
    <2>4. WorkerStep(w)
      BY <2>1, <2>2, <2>3 DEF Next
    <2> QED
      BY <1>1, <2>4 DEF WorkerStep, Claim, Expire, Observe, SyncObservedSettlements
  <1>6. CASE Write(w)
    <2>1. pc[w] = "write"
      BY <1>6 DEF Write
    <2>2. /\ status'[r] = Target(cur[w], view[w], orphaned[w])
          /\ meta'[r] = BuildObservationMetadata(cur[w], view[w], orphaned[w], now[w])
      BY <1>1, <1>2, <1>6 DEF Write, TransitionStatusIfCurrent, TypeOK, RowType
    <2> QED
      BY <1>2, <1>3, <1>4, <2>1, <2>2
  <1>7. CASE WriteFault(w)
    <2>1. pc[w] = "failed"
      BY <1>7 DEF WriteFault
    <2>2. status'[r] = cur[w].status /\ meta'[r] = NoMeta
      BY <1>1, <1>2, <1>7 DEF WriteFault, TransitionStatusIfCurrent, TypeOK, RowType
    <2> QED
      BY <1>2, <1>3, <1>4, <2>1, <2>2
  <1> QED
    BY <1>5, <1>6, <1>7

(* A row for which no cycle completes keeps its status and its metadata,   *)
(* unless its deadline closed it.                                          *)
LEMMA NoCycle ==
    ASSUME TypeOK, LeaseInv, Timely, Fresh, Punctual, [Next]_vars,
           NEW r \in Requests, \A w \in Workers : ~Completes(w, r)
    PROVE  \/ status'[r] = status[r] /\ meta'[r] = meta[r]
           \/ status'[r] = "expired" /\ meta'[r] = NoMeta
  <1>1. CASE UNCHANGED <<status, meta>>
    BY <1>1
  <1>2. ASSUME NEW w \in Workers, Expire(w)
        PROVE  \/ status'[r] = status[r] /\ meta'[r] = meta[r]
               \/ status'[r] = "expired" /\ meta'[r] = NoMeta
    <2>1. PICK s \in rows[w] : TransitionStatusIfCurrent(w, s, "expired", NoMeta)
      BY <1>2 DEF Expire
    <2>2. s \in Held(w)
      BY DEF Held
    <2> QED
      BY <2>1, <2>2, WriteEffect
  <1>3. ASSUME NEW w \in Workers, Write(w) \/ WriteFault(w)
        PROVE  status'[r] = status[r] /\ meta'[r] = meta[r]
    <2>1. /\ pc[w] \in {"write", "failed"} /\ pc'[w] \in {"rows", "idle"} /\ aborts' = aborts
          /\ cur[w] \in Held(w)
      BY <1>3 DEF Write, WriteFault, NextRow, envVars, TypeOK, WorkerType, Held, InHand
    <2>2. \E next, m : TransitionStatusIfCurrent(w, cur[w], next, m)
      BY <1>3 DEF Write, WriteFault
    <2>3. ~(CanWrite(w, cur[w]) /\ r = cur[w].id)
      BY <2>1 DEF Completes
    <2> QED
      BY <2>1, <2>2, <2>3, WriteEffect
  <1> QED
    BY <1>1, <1>2, <1>3 DEF Next, WorkerStep, vars, rowVars, Tick, ChainStep, Claim, Observe,
                            SyncObservedSettlements, Abort

(* What a completed cycle does to the counters of its row, beside the      *)
(* record of what it saw.                                                  *)
LEMMA CycleStreaks ==
    ASSUME TypeOK, LeaseInv, Timely, Fresh, Punctual, StreaksBacked, [HNext]_<<vars, run>>,
           NEW w \in Workers, NEW r \in Requests, Completes(w, r)
    PROVE  /\ run'[r] = After(w, r)
           /\ run'[r].good \in 0 .. StabilityCycles /\ run'[r].bad \in 0 .. StabilityCycles
           /\ meta'[r].promote <= run'[r].good /\ meta'[r].demote <= run'[r].bad
           /\ status[r] # "confirmed" /\ status'[r] = "confirmed" =>
                 run'[r].good >= StabilityCycles
           /\ status[r] = "confirmed" /\ status'[r] = "reorged" =>
                 run'[r].bad >= StabilityCycles \/ orphaned[w]
  <1> DEFINE s == cur[w]
  <1>1. /\ s \in Snapshots /\ s.status = status[r] /\ s.meta = meta[r]
        /\ \A v \in Workers : Completes(v, r) => v = w
        /\ pc[w] = "failed" => status'[r] = status[r] /\ meta'[r] = NoMeta
        /\ pc[w] = "write" =>
              /\ status'[r] = Target(s, view[w], orphaned[w])
              /\ meta'[r] = BuildObservationMetadata(s, view[w], orphaned[w], now[w])
    BY CompletedCycle DEF HNext
  <1>2. HNext
    BY DEF Completes, vars, workerVars
  <1>3. run'[r] = After(w, r)
    <2>1. (CHOOSE v \in Workers : Completes(v, r)) = w
      BY <1>1
    <2> QED
      BY <1>2, <2>1 DEF HNext
  <1>4. /\ s.meta.promote \in Nat /\ s.meta.promote < StabilityCycles
        /\ s.meta.demote \in Nat /\ s.meta.demote < StabilityCycles
        /\ StabilityCycles \in Nat \ {0} /\ s.status \in OpenStatus
    BY <1>1, ReconcilerAssumption DEF Snapshots, Metas
  <1>5. /\ run[r].good \in 0 .. StabilityCycles /\ run[r].bad \in 0 .. StabilityCycles
        /\ s.meta.promote <= run[r].good /\ s.meta.demote <= run[r].bad
    BY <1>1 DEF StreaksBacked
  <1>6. /\ CountOn(run[r].good) \in 0 .. StabilityCycles
        /\ CountOn(run[r].bad) \in 0 .. StabilityCycles
        /\ s.meta.promote + 1 <= CountOn(run[r].good)
        /\ s.meta.demote + 1 <= CountOn(run[r].bad)
    BY <1>4, <1>5, CountOnType
  <1>7. CASE pc[w] = "failed"
    BY <1>1, <1>3, <1>4, <1>7 DEF After, NoMeta
  <1>8. CASE pc[w] = "write"
    <2> DEFINE next == Target(s, view[w], orphaned[w])
    <2>1. /\ status'[r] = next
          /\ meta'[r].promote = IF next = s.status /\ Promoting(s, view[w])
                                THEN s.meta.promote + 1 ELSE 0
          /\ meta'[r].demote = IF next = s.status /\ Demoting(s, view[w], orphaned[w])
                               THEN s.meta.demote + 1 ELSE 0
      BY <1>1, <1>8 DEF BuildObservationMetadata
    <2>2. CASE Confirmed(view[w])
      <3>1. run'[r] = [good |-> CountOn(run[r].good), bad |-> 0]
        BY <1>3, <1>8, <2>2 DEF After
      <3>2. meta'[r].demote = 0
        BY <1>4, <2>1, <2>2 DEF Target, Demoting, Promoting
      <3>3. next = "confirmed" /\ s.status # "confirmed" => s.meta.promote + 1 >= StabilityCycles
        BY <1>4 DEF Target, Promoting, Demoting
      <3>4. s.status = "confirmed" /\ next = "reorged" => orphaned[w]
        BY <2>2 DEF Target, Promoting, Demoting
      <3> QED
        BY <1>1, <1>3, <1>4, <1>6, <2>1, <3>1, <3>2, <3>3, <3>4
    <2>3. CASE ~Confirmed(view[w])
      <3>1. run'[r] = [good |-> 0, bad |-> CountOn(run[r].bad)]
        BY <1>3, <1>8, <2>3 DEF After
      <3>2. meta'[r].promote = 0 /\ ~Promoting(s, view[w])
        BY <2>1, <2>3 DEF Promoting
      <3>3. next = "confirmed" => s.status = "confirmed"
        BY <3>2 DEF Target
      <3>4. s.status = "confirmed" /\ next = "reorged" =>
               orphaned[w] \/ s.meta.demote + 1 >= StabilityCycles
        BY <3>2 DEF Target
      <3> QED
        BY <1>1, <1>3, <1>4, <1>6, <2>1, <3>1, <3>2, <3>3, <3>4
    <2> QED
      BY <2>2, <2>3
  <1> QED
    BY <1>7, <1>8 DEF Completes

LEMMA StepStreaks ==
    ASSUME TypeOK, LeaseInv, Timely, Fresh, Punctual, StreaksBacked, [HNext]_<<vars, run>>
    PROVE  StreaksBacked'
  <1> SUFFICES ASSUME NEW r \in Requests
               PROVE  /\ run'[r].good \in 0 .. StabilityCycles
                      /\ run'[r].bad \in 0 .. StabilityCycles
                      /\ meta'[r].promote <= run'[r].good /\ meta'[r].demote <= run'[r].bad
    BY DEF StreaksBacked
  <1>1. CASE \E w \in Workers : Completes(w, r)
    BY <1>1, CycleStreaks
  <1>2. CASE \A w \in Workers : ~Completes(w, r)
    <2>1. run'[r] = run[r]
      BY <1>2 DEF HNext
    <2>2. meta'[r] = meta[r] \/ meta'[r] = NoMeta
      BY <1>2, NoCycle DEF HNext
    <2> QED
      BY <2>1, <2>2 DEF StreaksBacked, NoMeta
  <1> QED
    BY <1>1, <1>2

LEMMA StreaksHold == ASSUME Punctual PROVE HSpec => []StreaksBacked
  <1>1. HInit => StreaksBacked
    BY ReconcilerAssumption DEF HInit, Init, StreaksBacked, NoMeta
  <1>2. TypeOK /\ LeaseInv /\ Timely /\ Fresh /\ StreaksBacked /\ [HNext]_<<vars, run>>
           => StreaksBacked'
    BY StepStreaks
  <1> QED
    BY <1>1, <1>2, HistoryRefines, TypeCorrect, LeasesRecorded, TimelyHolds, FreshHolds, PTL
       DEF HSpec

(* The counters that the code keeps in the metadata, and starts again on   *)
(* every change of status and every failed observation, do what they are   *)
(* for: no request is confirmed, or rolled back without orphaned evidence, *)
(* on fewer than StabilityCycles agreeing cycles in a row, whatever        *)
(* workers made those cycles.                                              *)
THEOREM AntiFlapHolds == ASSUME Punctual PROVE HSpec => AntiFlap
  <1>1. TypeOK /\ LeaseInv /\ Timely /\ Fresh /\ StreaksBacked /\ [HNext]_<<vars, run>> =>
           [\A r \in Requests :
              /\ status[r] # "confirmed" /\ status'[r] = "confirmed" =>
                    run'[r].good >= StabilityCycles
              /\ status[r] = "confirmed" /\ status'[r] = "reorged" =>
                    \/ run'[r].bad >= StabilityCycles
                    \/ \E w \in Workers : Completes(w, r) /\ orphaned[w]]_<<vars, run>>
    <2> SUFFICES ASSUME TypeOK, LeaseInv, Timely, Fresh, StreaksBacked, [HNext]_<<vars, run>>,
                        NEW r \in Requests
                 PROVE  /\ status[r] # "confirmed" /\ status'[r] = "confirmed" =>
                              run'[r].good >= StabilityCycles
                        /\ status[r] = "confirmed" /\ status'[r] = "reorged" =>
                              \/ run'[r].bad >= StabilityCycles
                              \/ \E w \in Workers : Completes(w, r) /\ orphaned[w]
      OBVIOUS
    <2>1. CASE \E w \in Workers : Completes(w, r)
      BY <2>1, CycleStreaks
    <2>2. CASE \A w \in Workers : ~Completes(w, r)
      BY <2>2, NoCycle DEF HNext
    <2> QED
      BY <2>1, <2>2
  <1> QED
    BY <1>1, HistoryRefines, TypeCorrect, LeasesRecorded, TimelyHolds, FreshHolds, StreaksHold,
       PTL DEF HSpec, AntiFlap
=============================================================================
