# A TLA+ model of ChainTx

ChainTx is a Go service that accepts cryptocurrency payments: a client creates a
payment request, the service derives a fresh deposit address for it, a reconciler
watches the chain and moves the request through its lifecycle, and a dispatcher
delivers a webhook for every status change. All state is in one PostgreSQL
database; several replicas of every process may run against it at once.

This directory holds TLA+ specifications of the parts of that system where
replicas, crashes, clocks and the chain interleave, TLC configurations that
check them, and TLAPS proofs of the theorems that matter most about the
reconciler, the dispatcher, the two together, the alert worker, wallet allocation and the
chain observers. Every definition is translated from the Go source (`src/`);
`PROJECT.json` maps each definition to the lines it models.

## 1. The system

| Component | State | Operations | Interacts with |
|---|---|---|---|
| Reconciler (use case, repository, worker) | `payment_requests.status`, `.metadata.reconciliation`, `reconcile_lease_owner/_until`, `payment_request_settlements` | claim a batch, expire, observe, sync settlements, decide, compare-and-set | chain observers (call), outbox (insert in the same statement), other replicas (leases) |
| Chain observers (bitcoin, EVM) | none (an observation's own variables) | one observation of an address in several calls: amounts, evidence, finality | the chain, by RPC; may fail or time out |
| Webhook dispatcher (use case, repository, worker) | `webhook_outbox_events`: delivery status, attempts, next attempt, lease | claim, send, renew (heartbeat goroutine), mark delivered / retry / failed | the client's endpoint; the operators; other replicas |
| Outbox operations | same rows | requeue, cancel, overview, DLQ list | race the dispatcher |
| Payment request creation | `payment_requests`, `idempotency_records`, `wallet_accounts.next_index` | one transaction per call: look the key up, lock the account, insert, record, bump; replay after a lost race | client retries, start-up sync, other API processes |
| Wallet account start-up sync | `wallet_accounts` (hash, active, next index), `asset_catalog.wallet_account_id` | verify the key (preflight); reuse, reactivate or rotate the active account of a keyset | creates, other starting processes |
| Migrations, readiness | the schema and golang-migrate's version and dirty flag | wait for the database, migrate | precede the sync in every process that starts; other starting processes |
| Alert worker | its settings; when each signal was last notified, in memory | one evaluation per tick: read the time, query, log | reads the outbox overview |
| Webhook gateway | none | one POST, reported as accepted or as an error | the client's endpoint |
| HTTP API, read models, key derivation, the rest of configuration, wiring | none | decode, query, derive, construct | the above |

What is hard about it, and where the properties aim:

* **Leases judged by several clocks.** A row is claimed for a time computed from
  the claimer's clock and taken over by whoever thinks that time has passed. A
  worker may outlive its lease at any point and go on. Mutual exclusion while
  leases run, and the harmlessness of a stale worker's write, are what makes
  horizontal scaling correct.
* **Compare-and-set on part of the row.** The reconciler's write compares status
  and lease owner only, and overwrites metadata computed from the snapshot.
* **Decisions that span cycles.** Stability streaks, `first_confirmed_at` and
  finality are kept in the row and carried on by different workers; a cycle reads
  and writes the row in separate statements and updates the settlements in a
  third one.
* **At-least-once delivery** with leases that only cover the event being sent,
  marks written from old snapshots, and operators who change rows meanwhile.
* **Lock waits under READ COMMITTED.** A statement that waits re-reads its row
  afterwards, when the row may no longer be what the query looked for. Both the
  create transaction and the start-up sync depend on what is true then.
* **What a client is told.** The event is inserted by the statement that changes
  the status, the endpoint may accept a POST whose answer is lost, and a row may be
  marked by a worker that no longer owns it. A notice must be neither lost nor
  recorded as delivered without having been accepted.
* **State that lives in one process.** Alerts compare a reading of the clock with
  rows read later, remember in memory what they said, and are restarted.
* **Processes that start together**, each to migrate the schema and to claim the
  keyset for its own key, while others serve calls.
* **Liveness.** Crashed workers' rows, batch limits, retries, deadlines, and
  transactions that wait for each other.

The `hazards` list of `PROJECT.json` names each place with the properties that
cover it, or says why none does.

## 2. Modules

| Module | Models | Composes |
|---|---|---|
| `PaymentLifecycle` | abstract: one status per request, legal edges, one event per move | |
| `Reconciler` | the reconciler's workers, the repository's statements, observers, clock and chain | |
| `ReconcilerProps` | its invariants and action properties; the refinement mapping | `Reconciler`, `PaymentLifecycle` by INSTANCE .. WITH |
| `ReconcilerHistory` | adds a history variable: what completed cycles saw in a row | `ReconcilerProps` |
| `ReconcilerEvidence` | adds a history variable: how a request's settlements came to be what they are | `ReconcilerProps` |
| `ReconcilerLive` | adds fairness and time without end | `ReconcilerProps` |
| `WebhookDispatcher` | dispatch workers, heartbeats, operators, clock | |
| `WebhookDispatcherProps`, `WebhookDispatcherLive` | its properties; fairness and time without end | `WebhookDispatcher` |
| `StatusNotification` | abstract: every change owes its client one notice, which is told or dropped | extends `PaymentLifecycle` |
| `Notification` | status change, outbox row, delivery, endpoint; the refinement mapping | `WebhookDispatcherLive`; `PaymentLifecycle` as the reconcilers, `StatusNotification` by INSTANCE .. WITH |
| `WebhookAlert`, `WebhookAlertProps` | the alert worker beside the outbox it watches; its properties | `WebhookDispatcherLive` |
| `WalletAllocation` | the create transaction and the start-up (readiness, migrations, preflight, sync) on shared tables and row locks | |
| `WalletAllocationProps` | its properties | `WalletAllocation` |
| `ObservationPolicy` | thresholds in basis points, confirmation depths, rounding | |
| `ChainObservation` | one observation, call by call, and the chain that moves meanwhile | `ObservationPolicy` |
| `ChainObservationProps` | its invariants | `ChainObservation` |
| `MC*` | values of the constants, symmetry sets | the above |
| `PaymentLifecycleProofs`, `ReconcilerProofs`, `ReconcilerRecordProofs` | theorems and proofs | `PaymentLifecycle`, `ReconcilerProps`, `ReconcilerHistory`, `ReconcilerEvidence` |
| `WebhookDispatcherProofs` | theorems and proofs | `WebhookDispatcherProps` |
| `NotificationProofs` | theorem and proof | `Notification` |
| `WebhookAlertProofs` | theorems and proofs | `WebhookAlertProps` |
| `WalletAllocationProofs` | theorems and proofs | `WalletAllocationProps` |
| `ChainObservationProofs` | theorems and proofs | `ChainObservationProps` |

Definitions whose name contains `Variant` are not part of the model. Each stands
before the definition it is a variant of and is that definition with one
plausible mistake; `PROJECT.json` says which property tells the two apart.

### Reconciler

One action is one SQL statement or transaction, or one call of the observer; a
worker can stop (`Abort`) and the clock (`Tick`) and the chain (`ChainStep`) can
move between any two.

| Action | Code |
|---|---|
| `Claim(w)` | `ClaimOpenForReconciliation`: candidates by `Monitored` and `Unleased`, oldest first, `LIMIT`, `SKIP LOCKED` (any subset of the rows that other workers hold, since one may just be writing, expiring or claiming it), lease written, snapshots returned |
| `Expire(w)` | the expiry test at the head of the loop and `TransitionStatusIfCurrent(.., expired)` |
| `Observe(w)` | the observer's answer, or its failure, or `Supported = false` (the last two write the same kind of record and are one branch) |
| `SyncObservedSettlements(w)` | upsert loop, orphaning UPDATE and its row count |
| `Write(w)` | `Target` and `BuildObservationMetadata` (the decision), then the compare-and-set with the outbox INSERT in the same statement |
| `WriteFault(w)` | the same write after a failed observation, which replaces the reconciliation record |
| `Abort(w)` | the process dies, or a repository call fails and `Execute` returns |

`chain[r][e]` is how the chain shows transfer `e` to the address of `r`: absent,
shallow (seen), deep (confirmed depth), final, removed (reported by the node as
removed) or spent. Each transfer counts one unit against the two thresholds.
`stability_signal` is not a variable of its own: the stored signal is `promote`
exactly when the promote streak is positive and `demote` when the demote streak is.
Worker ids are distinct (the code builds them from host name and process id).

### Webhook dispatcher

`ClaimPendingForDispatch`, `TakeUp` (the heartbeat goroutine starts, the POST
goes out), `RenewLease`, `Answer` (the POST ends and the heartbeat's context is
cancelled), `Mark` (delivered, failed or retry with backoff), `Abort`, and the
operators' `RequeueDLQEvent` and `CancelOutboxEvent`, one repository statement each. `tries` counts the
POSTs begun and exists for the properties only. In the dispatcher's own runs all
events are pending at the start (`StartWith`); `InsertRow` is what an enqueued
event looks like, for the modules below.

### Notification

The composition of reconcilers and dispatchers. Its reconcilers are the abstract
`PaymentLifecycle` that `Reconciler` is shown to implement
(`ReconcilerImplementsLifecycle`), restricted to the edges in `Course`; the
dispatchers are those of `WebhookDispatcher`, and all rows are absent at the start.
`TransitionStatusIfCurrent` changes a status and, when the request has a webhook,
inserts the row in the same step, due at the time at which the reconciler's
cycle began. `Post` adds the endpoint to `Answer`: it answers 2xx, or something
else, or is not heard of, having accepted the request or not
(`SendWebhookEvent` is what the gateway makes of it). A process may crash
(`Crash`) with a POST under way. `accepted` is what the endpoint has accepted; the
dispatchers do not see it. `StatusNotification` says what the client is promised,
and `Notice` maps a row to the notice it stands for: absent, owed (pending), told
(delivered) or dropped (failed).

### Alert worker

`LoadConfig` parses the environment and exits on one the worker cannot use;
`StartCycle` reads the time; `Evaluate` queries the overview and logs, for each
signal that is watched, `triggered`, `ongoing`, `resolved` or nothing;
`QueryFails` ends a cycle without effect; `Restart` loses what is in memory. The
rows change meanwhile: `Arrives` is a reconciler's insert, and dispatchers deliver,
crash or stand still as they do in their own model. `logged` keeps the last line of
a signal and exists for the properties only.

### Wallet allocation

A call goes through `LoadAssetCatalogEntry` (before the transaction),
`FindIdempotencyRecord`, `LockWalletAccountForUpdate`, `InsertPaymentRequest`,
`InsertIdempotencyRecord`, `BumpWalletNextIndex` with the commit, or
`LoadReplayResource` after it lost the race for the key. A starting process first
waits for the database (`CheckReadiness`: attempts are repeated until they succeed
or the time for them is over) and migrates: golang-migrate serialises the
processes by an advisory lock, marks the schema dirty while migrations run, and
refuses one that was left dirty by a process that died (`RunMigrations`,
`MigrationsApplied`). It derives its key's address at index 0 and exits when that
is not the expected one (`PreflightFails`); which processes pass is a choice among
`Preflights`, since it depends on their configurations only. Then it goes
through `SeekActive`, `LockActive`, `SeekHistorical`, `LockHistorical`,
`SeekVictims`, `SwitchAccount`, and ends with `ValidateAssetCatalogIntegrity`.
The two `Seek`/`Lock` halves of one
`SELECT .. FOR UPDATE` are the snapshot it takes and the rows it finds after
having waited: under READ COMMITTED the WHERE clause is evaluated again on the
rows it waited for, and rows that began to match meanwhile are not seen. A
transaction that inserted a unique value makes others that insert it wait. One
chain, network and keyset; addresses are an injective function of key material
and index.

`WaitsFor` says whom a transaction's current statement may wait for. Two syncs can wait
for each other: one found no active row (the one it waited for had just been
replaced), locked the historical row it will reactivate, and waits in
`deactivateAllActiveWallets` for the row that became active meanwhile; the other one
holds that row and looks for the same historical row. It takes four start-ups: one
gives an account its key, one with another key replaces that account, and the two with
the first key again want it back. PostgreSQL
fails a statement of one transaction in such a `Circle`, and the process exits with
the error (`DeadlockDetected`). Which one is open.

### Chain observation

`fetchAddressStats`, `fetchTipHeight`, `fetchAddressUTXOs` (bitcoin), `fetchTipHeight`,
`fetchERC20TransferLogs` (tokens), `fetchTipHeight`, `fetchBlockWithTransactions`,
`transactionSucceeded` (ether) are the calls of one observation; `CallFails` is
one that does not come back. `Finish` adds up the settlements and answers. The
chain is external: `Broadcast`, `Mine`, `Reorganise` and `Spend` come between any
two calls. `deepest`, `throughout` and `disturbed` record what the chain was and
did while the observation went on and exist for the properties only. The reconciler's model
uses the answer of one observation as a single step (`Observe`).

## 3. What the runs check

Passing runs:

| Run | Instance | Shows |
|---|---|---|
| `ReconcilerLease` | 2 workers, 1 request with a webhook, 1 reference, clock skew 1, lease 2, deadline 2, horizon 2, 2 stability cycles, one abort, every kind of chain event, the observer may fail | leases exclude each other while they run (`LeaseMutex`); status and outbox follow the lifecycle even when workers outlive their leases (`ImplementsLifecycle`, `OutboxIsHistory`); the recorded finality and first confirmation match the status; a confirmed status is backed by canonical settlements whenever a cycle is complete, or its rollback is being counted (`ConfirmedHasEvidence`) |
| `ReconcilerPunctual` | 2 punctual workers, 2 references, confirmation at 2, 2 stability cycles, window 3, horizon 5 | no lost metadata (`SnapshotFresh`), stable anchor, expiry after the deadline only, no flapping against an independent count of the cycles (`AntiFlap`) |
| `ReconcilerLive` | 1 worker, 2 requests, batch of 1, one abort, observations that fail any finite number of times, time without end | every pending or detected request is confirmed or expires; a request whose finality stays recorded is taken up only finitely often (`PollingStops`) |
| `WebhookSafety` | 2 workers, 2 events, batch 2, 3 attempts, one abort, two operator calls | a heartbeat keeps a send exclusive; settled rows stay settled and unleased; attempts are never over-counted; delays are bounded |
| `Notification` | 1 request with a webhook that is confirmed and reorged, 2 dispatchers, batch 1, 2 attempts, jitter, one crash, answers that get lost, time without end | every row is delivered or fails (`EventuallySettled`); every change owes one notice from the step that makes it, which is told only if the endpoint accepted it and is told or dropped in the end (`NotificationImplements`) |
| `Alert` | 2 events, a dispatcher that may stand still, 5 environments (two usable), cooldowns of 1 and 2, a cycle that lasts up to 1, one restart or failed query, time without end | triggered, ongoing and resolved lines alternate, `ongoing` at most once per cooldown (`AlertLogWellFormed`); a lasting breach is alerted and goes on being reminded of, a lasting recovery ends the alarm (`AlertFollowsOutbox`) |
| `Allocation` | 4 calls (a retry, a conflicting reuse of the key, an independent one) on two servers, 3 starting processes with old key, new key and re-hashed new key, or 4 (old, twice new, re-hashed), all keys right or the new one wrong, one abort | indexes dense and unique, one request per key, truthful answers, exactly one active account which the catalog names, allocation only under an active account, nothing served or written before the schema is current, no account and no address of a key that failed its preflight, no waiting for ever |
| `Observation` | 2 transfers of 2 units against 3 expected, chains of up to 3 blocks, 2 reorganisations, one failing call, each rail, settings by default, mixed and in the wrong order | no settlement is reported deeper than it ever was (`ConfirmationsNotOverstated`), confirmed and final answers are backed and finality implies confirmation (`ConfirmedIsBacked`), a payment that stays on the chain is noticed |

Runs that find a document of the repository contradicted by the code (the
quotations are in `PROJECT.json`, `findings`):

| Run | What happens |
|---|---|
| `ReconcilerUnfinal` | a confirmed request without finality stops being claimable when the window is over; so does a rolled back one, which is then neither reconfirmed nor expired |
| `ReconcilerFault` | a failed observation erases streaks, `first_confirmed_at` and finality |
| `WebhookHeartbeat` | a send that ends before the first renewal cancels it, and the error ends the cycle with the rest of the batch unsent |
| `AllocationLineage` | two processes starting at once with a new key both rotate: two accounts of one hash, the second back at index 0 |

### Bounds, and why they are enough

* **Two workers** are what any lease or compare-and-set conflict needs; the
  safety properties are about a pair of workers and one row. Proofs lift most of
  the reconciler's and all of the dispatcher's safety properties to any number.
* **One request, two changes** in `Notification`: what could go wrong is a row that
  is lost, told too early, or mistaken for the other one. `MaxCycle = 0` lets a
  reconciler's cycle begin at the time of its statement only (an older reading makes
  a row due at once, like a retry); `MaxManual = 0` leaves the operators out of this
  run and of `Alert`. The proof of `NoticesKept` has neither restriction.
* **Two signals or one at a time** in `Alert`: signals share nothing but the cycle.
  With two events a threshold of 2 is crossed one event after the other, and a
  threshold of 1 by either. `MaxQuery` is how much later than its time a cycle may
  see the rows, `MaxFaults` bounds restarts and failed queries.
* **Three starting processes**, in every order: two that rotate or adopt one after the
  other, and one that waits for both; two of them serve the four calls. Or **four**
  (`MCStarts`), one of which serves a call: with fewer no two syncs wait for each other.
  One abort is enough to leave the
  schema dirty, or to drop the locks of any transaction at any place.
* **One request** for the safety runs of the reconciler: rows interact only
  through the batch, which the liveness run exercises with two requests and a
  batch of one. Deadlines are inside the horizon so that expiry races everything.
* **Lease 2, horizon 2, skew 1** lets a worker outlive its lease, another one claim,
  and the first one still write: steps take no time, and with the skew a lease may be
  over for one worker (whose clock goes up to 3) and running for the other. Deadline
  and observe window end within the horizon. States in which a confirmed request
  has lost its evidence and counts towards the rollback are reached after a crash, after
  a stale worker's write, and after a removed log, each without the two others.
* **Window and stability.** The `Punctual` run has a window that both ends within
  the horizon and is long enough for confirm, roll back and reconfirm.
* `MaxEvents` keeps a request from being claimed once it has that many events,
  `MaxAborts`, `MaxManual` and `MaxTime` bound crashes, operator calls and time.
* The liveness runs of reconciler, dispatcher and alerts have no end of time: at
  the horizon, one more unit of time makes every stamp one unit older instead. Stamps are only compared with the
  clock, and every distance the code uses fits below the horizon
  (`LiveAssumption`, `AlertAssumption`), so this is the same behaviour.
* `CHECK_DEADLOCK FALSE` in runs whose clock stops at the horizon, or whose calls
  are all answered in the end. The liveness runs check deadlock, except
  `Allocation`, where `EverythingEnds` says the same more precisely.
* **Three blocks, two transfers, two reorganisations** for an observation: a
  transfer can be one or two deep, be moved, dropped and come back, and a second
  one can take its place in the sum. 2 of 3 expected units makes rounding matter
  at 50% and at 90%. A replaced branch is at least as long as the one it replaces,
  so a tip that was read is never above the chain.
* Workers are symmetric in the safety runs, and references in
  `ReconcilerPunctual`, transfers in `Observation`; no liveness property is checked under symmetry.

### Fairness

* `ReconcilerLive!LiveSpec`: time goes on, and a worker that can take a step
  takes one. The worker polls on a ticker as long as the process runs, and every
  RPC has a timeout. Nothing is assumed of the chain; crashes are never forced.
  Observations fail, but not for ever, and that is needed: each failure erases
  `first_confirmed_at`, so a confirmed row whose observations never succeed again
  stays claimable and, being older, ahead of the others. As many of these as a batch
  has places leave the younger ones pending for good (listed as a hazard).
* `Notification!NotificationSpec`: the same of the dispatchers; no change of status
  has to happen and no endpoint has to answer 2xx. It has `WebhookDispatcherLive`'s
  `Prompt`: time passes only
  while workers are idle or in a POST whose first renewal is done. Without that a
  lease may run out before the first renewal and two dispatchers may take a
  row from each other for ever; the code counts on local work being much faster
  than the lease, and the model says so by name.
* `WebhookAlert!AlertSpec`: time goes on and the alert worker takes the steps it can
  take; its process may be restarted and its queries may fail, but not for ever
  (`MaxFaults`). Nothing is assumed of the dispatchers: alerts are for outboxes
  that are not emptied.
* `WalletAllocation!FairSpec`: some transaction that does not wait for another
  one goes on, and a circle of lock waits is broken, as PostgreSQL does after
  `deadlock_timeout`. No client has to call and no process has to start. This is the
  weakest assumption under which "nothing waits for ever" can be stated; it
  would be refuted by a circle that a create call is part of, since only start-ups
  take a deadlock as the end, or by a lock that is never released.

## 4. What is proved

TLAPS checks these for every value of the constants that satisfies the
assumption of the module they are about: `ReconcilerAssumption` (any workers,
requests, references, thresholds, leases and horizons), `DispatcherAssumption` (any
workers, events, batches, leases, backoffs, attempts, skews and horizons),
`NotificationAssumption` (with it and `LiveAssumption`: any requests, webhooks and
courses), `AlertAssumption` (with both: any settings, defaults and faults),
`AllocationAssumption` (any calls, processes, keys, payloads, key materials and
legacy secrets: what it asks is that hashes a process accepts are of its own key
material) and `ObservationAssumption` (any transfers, amounts, configurations and
heights).

| Theorem | Statement | Argument |
|---|---|---|
| `ReconcilerProofs!TypeCorrect` | `[]TypeOK` | inductive as it stands: type, and what a worker holds at each place |
| `ReconcilerProofs!LeaseMutexHolds` | `[]LeaseMutex` | from `LeaseInv`: the row's lease is at least as late as the one of any worker that holds a snapshot of it, and equal and owned by it if that one runs |
| `ReconcilerProofs!SkipBranchNeverTaken` | `[]SkipBranchDead` | snapshots in hand satisfy the WHERE clause they were claimed by |
| `PaymentLifecycleProofs!HistoryHolds` | the abstract outbox is the history | inductive together with its type |
| `ReconcilerProofs!ReconcilerImplementsLifecycle` | `Spec => Lifecycle!Spec` | `OutcomeIsEdge`: whatever the decision, the target is the same status or a legal edge; the compare-and-set then makes the step a `Move` |
| `ReconcilerProofs!OutboxHistoryHolds` | `[]OutboxIsHistory` | the two before |
| `ReconcilerRecordProofs!FinalityRecordHolds` | `[]FinalityOnlyWhileConfirmed` | the snapshots in hand fit it too, and the write combines a fitting snapshot with an edge |
| `ReconcilerRecordProofs!ExpiredAfterDeadlineHolds` | a request expires only after its deadline and not out of confirmed | `Timely`: no worker's `now` is ahead of the clock by more than the skew |
| `ReconcilerRecordProofs!SnapshotFreshHolds` | with `Punctual`, `[]SnapshotFresh` | `Fresh`: a worker's lease runs while it is busy, so nobody else can write the row |
| `ReconcilerRecordProofs!AnchorStableHolds` | with `Punctual`, `AnchorStable` | from `SnapshotFresh` |
| `WebhookDispatcherProofs!DispatcherTypeCorrect` | `[]TypeOK` | with `AttemptsLeft`: a pending event, and any snapshot in hand of one, has an attempt left, so counting one more stays within the budget |
| `WebhookDispatcherProofs!SettledUnleasedHolds` | `[]SettledUnleased` | leases are written to pending rows only, and what settles a row clears its lease |
| `WebhookDispatcherProofs!SettledStaysHolds` | `SettledStays` | every mark, renewal and claim has the pending status in its WHERE clause |
| `WebhookDispatcherProofs!RetryBoundedHolds` | `[]RetryBounded` | no worker's `now` is ahead of the clock by more than `MaxAhead`, and no delay exceeds `MaxBackoff` |
| `WebhookDispatcherProofs!FailedAfterBudgetHolds` | `[]FailedAfterBudget` | `CountedOnce`: until an operator intervenes, the attempts in a row, and in a snapshot about to be written, are at most the POSTs begun |
| `WebhookDispatcherProofs!HeartbeatMutexHolds` | with `Heartbeats` and a lease longer than the clocks' skew, `[]HeartbeatMutex` | `Held`: while a worker sends under a heartbeat that has renewed, and no operator has intervened, the row's lease is its own and runs by every clock |
| `ReconcilerRecordProofs!AntiFlapHolds` | with `Punctual`, `AntiFlap` | `StreaksBacked`: the streaks in a row, and in a worker's snapshot of it, are at most the cycles of that kind that `ReconcilerHistory` has counted in a row, and the snapshot of a punctual worker is fresh |
| `ReconcilerRecordProofs!ConfirmedHasEvidenceHolds` | for finitely many references, `ESpec => []ConfirmedHasEvidence` | `EvidenceInv`: between settlements and status, a worker whose settlements still stand has recorded all it saw, and either found a newly orphaned settlement, so that it will roll back, or evidence had gone unreported before, so that it will count, or the row has enough |
| `WebhookAlertProofs!AlertTypeCorrect` | `[]AlertTypeOK` | with `Remembers`: a signal in memory was last notified at the time of its last line |
| `WebhookAlertProofs!AlertLogKept` | `AlertLogWellFormed` | from the same invariant: only `Evaluate` logs, and it goes by the memory |
| `NotificationProofs!NoticesKept` | `NotificationSpec => Client!NoticeSafety`: the safety part of `NotificationImplements` | `NoticeInv`: a row is absent exactly when it reports nothing, workers hold only rows that are there, and an `ok` answer in hand, or a delivered row, is of an accepted event; then each step is a step of the client's view or leaves it alone |
| `WalletAllocationProofs!AllocationTypeCorrect` | `[]TypeOK` | with what calls, processes and locks hold at each place (`TypeInv`) |
| `WalletAllocationProofs!IndexesGivenOnce` | `[]IndexesDense` | inductive with the types: `BumpWalletNextIndex` writes the row and the next index together, and only if the index it has is still the next one, so the row lock is not even needed |
| `WalletAllocationProofs!KeysUsedOnce` | `[]OneRequestPerKey` | `KeyInv`: of the calls with one key at most one is about to commit, and only while the key has no record, which is the wait for the primary key of `idempotency_records` |
| `WalletAllocationProofs!AnswersTrue` | `[]AnswersTruthful` | `TruthInv`: a record that an answer was taken from is never written again |
| `WalletAllocationProofs!AllocationFromActive` | `AllocatedFromActive` | `WorksWithActive`: the account a call has locked stays active until it ends, for the sync needs its lock to change that |
| `WalletAllocationProofs!CatalogFollowsActive` | `[]CatalogBoundToActive` | every transaction that activates an account deactivates the one before and binds the catalog |
| `WalletAllocationProofs!MigratedBeforeUse` | `[]ServesMigrated` | `MigrationInv`: one process at a time migrates, on a schema marked dirty |
| `WalletAllocationProofs!KeysVerified` | `[]OnlyVerifiedKeys` | `VerifiedInv`: who is past the preflight has passed it, and a call under way is served by such a process |
| `WalletAllocationProofs!DeadlocksOfStartUps` | `[]DeadlocksAmongStartUps`: no call is part of a deadlock, and a sync only while it holds a row and waits for another one | a call waits for calls that are further than itself, or before it holds anything; each member of a circle is waited for (`CircleWaitedFor`), and who is waited for holds a row or migrates (`HoldersInv`) |
| `WalletAllocationProofs!SomeoneAlwaysGoesOn` | for finitely many calls and processes, `[]SomeoneGoesOn`: whenever any is under way, one waits for nobody or there is a circle | whoever is waited for is under way, so if all waited they would be entangled, and a smallest entangled set is a circle |
| `ChainObservationProofs!PoliciesOrdered` | whatever is configured, the thresholds and depths in use are ordered | arithmetic, by cases on the settings |
| `ChainObservationProofs!ConfirmationsHold` | `[]ConfirmationsNotOverstated` | `ObservationInv`: the height in hand is never above the chain, `deepest` is at least every transfer's depth now, and the transfers of the block in hand were as deep as they will be counted when the block was read |
| `ChainObservationProofs!TypeCorrect` | `[]TypeOK` | `TypeInv`, next to `ObservationInv`: what is on the chain was sent, what is spent or dropped is or is not on it, heights are bounded, the settlements are finitely many, and there is an answer only when the observer is done |
| `ChainObservationProofs!ConfirmedIsBackedHolds` | `[]ConfirmedIsBacked` | see below |
| `ChainObservationProofs!PaymentNoticedHolds` | `[]PaymentNoticed` | see below |

**The answers of an observation.** Both theorems rest on `AnswerInv`, which is
inductive next to `ObservationInv` and `TypeInv`. It says what the observer has in
hand between two calls: on bitcoin, `funded` is at least what the transfers
that stay on the chain are worth, since the statistics are read first; for ether, as
long as no block is replaced, `found` is exactly one settlement for each
transfer in the blocks the scan has been through (`ScanExact`), and whatever stays on
the chain is in a block not above the tip that was read. When the answer is
given, no settlement is counted twice (`OneEach`), so the sum over settlements is the
sum over the transfers they refer to (`SumOfRefs`), and all of these were as deep
as the settlements say (`ConfirmationsNotOverstated`). `Total` and `Sum` are folds, which
are recursive functions on the subsets of a set. What is needed of them (that they
are natural numbers, do not depend on the order and grow with the set) is proved
without induction over data: among the subsets for which such a fact failed there
would be a smallest one (`SmallestSubset`, from `WFMin` of the library), and taking
one element out of it gives a smaller one.

`Punctual` (no worker outlives its lease) is a parameter of the model:
`SnapshotFreshHolds`, `AnchorStableHolds` and `AntiFlapHolds`
are false without it, since the compare-and-set looks at status and owner only: a
worker whose lease is over may write metadata, streaks included, that it computed
from an older row. The others need no such assumption.

**Settlements and status.** A cycle writes the settlements in one transaction, guarded
by nothing, and the status in another one, guarded by status and owner. A worker that
stops in between takes the number of newly orphaned settlements with it; one that
outlives its lease may write between the two transactions of another; and a log the
node reports as removed is never counted. So "a confirmed request has its threshold in
canonical settlements" is not an invariant of the code. What is one, and is proved
without any assumption on timing, crashes or the chain, is `ConfirmedHasEvidence`: as
long as none of the three has happened the threshold is there whenever a cycle is
complete, and when one of them has, the next complete cycle finds the payment
confirmed again or counts towards the rollback. `trail` records which of these is the
case: who wrote the settlements last, whether a status has followed them, and whether
evidence may have gone unreported. A failed observation erases the count and opens
the row again (the run `ReconcilerFault`). The proof needs the types only: neither the
lease nor the freshness of snapshots plays a part.

Every invariant and every action property of the passing runs is proved. Model-checked
only is liveness, which is out of the prover's reach: `EventuallyClosed` and
`PollingStops` of the reconciler, `EventuallySettled` and the fairness in
`NotificationImplements` of the notification, `AlertFollowsOutbox` of the alert
worker, and `EverythingEnds` of allocation, of which `SomeoneAlwaysGoesOn` is the part
that can be proved: what is left is that the one who waits for nobody can take a
step, which is ENABLED, and that this comes to an end.

## 5. What is not modelled, and simplifications

* In the reconciler's model an observation is one atomic read of the chain and
  amounts are units. What several calls make of a moving chain is modelled
  in `ChainObservation`, on its own.
* An ether scan that a reorganisation meets may miss a transfer or count it
  twice. `ConfirmedIsBacked` and `PaymentNoticed` leave out answers of such scans
  (`Undisturbed`), and the case is listed as a hazard. Reorganisations before or after the
  scan are covered.
* Transactions that revert, spends of outputs that are still in the mempool,
  shorter replacement branches, decimals, paging and addresses do not appear.
* Evidence the node itself reports as removed is orphaned without being counted as
  newly orphaned. It is in `ReconcilerLease`; `ReconcilerPunctual` has none, since none
  of its properties is about settlements.
* The historical row is looked up once per key hash in the code; `SeekHistorical` takes
  one snapshot for all of them. `SwitchAccount` is several statements in the code,
  on rows that are locked by then. That golang-migrate gives up waiting for its lock
  after a time is one of the failures `CutSync` stands for.
* The operators' audit columns and authentication, the read-only views, the
  HTTP API, key derivation, webhook signatures and headers: no shared state, or
  columns that are written and never read. The audit rows of the sync
  (`wallet_account_sync_events`) are written and never read either.
* Settings other than those of the alert worker are constants here: the code parses
  and checks them in the same way, once, before a process does anything.
* The individual migrations: a schema is behind, dirty or current. Their
  constraints are in the statements that meet them. How a dirty schema is repaired
  is up to an operator and is not in the code.
* One (chain, network, keyset) per start-up. The code handles several one after the
  other, each in a transaction of its own, in the order of the catalog; when a later
  one fails, the earlier ones stay switched (listed as a hazard).
* Replicas of the alert worker share nothing, so each alerts by itself: a breach is
  logged once per replica, and again after a restart. `WebhookAlert` is one of them.
* In `Notification` the reconcilers are their abstract lifecycle; the order in which
  an endpoint sees two changes of one request is not promised, by the code
  or by the model, since each row is retried on its own.
* A cancelled event that sits in a claimed batch is still sent: delivery is at
  least once, and `SettledStays` says only that its row stays settled.
* Which of several historical accounts with the same hash is reactivated (the
  last updated one) is left open in `WalletAllocation`.
* Retries are sent to the same endpoint; the endpoint's answer is arbitrary.

## 6. What could follow

The components that keep state are modelled; what would deepen the models:

1. **The reconciler driven by `ChainObservation`** instead of by one atomic
   reading: the product of the two is large, and needs an abstract observer that
   `ChainObservation` is shown to implement.
2. **Several keysets in one start-up**: what a start-up that fails at a later keyset
   leaves of the earlier ones, and what the processes that still run make of it.
3. **How late a rollback can be** after evidence was lost unreported: that it is counted
   is proved, but failed observations may start the count again without end, so how long
   it takes is a question about time and the observer.
