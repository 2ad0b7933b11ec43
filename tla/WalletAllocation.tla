--------------------------- MODULE WalletAllocation ---------------------------
(***************************************************************************)
(* How payment requests get their addresses: API processes that create     *)
(* requests in one READ COMMITTED transaction each (idempotency record,    *)
(* next derivation index of the wallet account, payment request), while    *)
(* processes of every kind start up: they wait for the database, migrate   *)
(* the schema, and synchronise the wallet account of the keyset with the   *)
(* key material they are configured with.                                  *)
(*                                                                         *)
(* One (chain, network, keyset) and the assets bound to it.  One step per  *)
(* SQL statement that can wait for a lock or meet a row of another         *)
(* transaction.  A statement that locks rows first sees those its snapshot *)
(* qualifies, waits for their locks, and then goes by their latest         *)
(* version, dropping the ones that no longer qualify: two steps, Seek and  *)
(* Lock.  Definitions named ...Variant... are the definition that follows  *)
(* them with one plausible mistake.                                        *)
(***************************************************************************)
EXTENDS Integers, FiniteSets, Sequences

CONSTANTS
    Procs,        \* runs of a process, each with the configuration it started with
    Calls,        \* POST /payment-requests calls, retries of the client included
    NULL,
    Server,       \* Calls -> the API process that serves the call
    Key,          \* Calls -> idempotency key, in one scope
    Payload,      \* Calls -> hash of the normalised request
    KeyMaterial,  \* hash of key material -> the key material: the hash depends on the secret too
    Primary,      \* Procs -> hash of the configured key material under the active secret
    Legacy,       \* Procs -> its hashes under the legacy secrets
    Preflights,   \* the sets of processes whose key derives the expected index-0 address
    Starts,       \* the sets of processes that are started at all
    MaxAborts     \* bound: transactions, migrations and readiness checks cut short

Hashes == DOMAIN KeyMaterial

ASSUME AllocationAssumption ==
    /\ NULL \notin Calls \cup Procs \cup Hashes \cup Nat
    /\ NULL \notin [payload : {Payload[c] : c \in Calls}, resource : Calls]
    /\ Calls \cap Procs = {}
    /\ Server \in [Calls -> Procs]
    /\ DOMAIN Key = Calls /\ DOMAIN Payload = Calls
    /\ Primary \in [Procs -> Hashes]
    /\ Legacy \in [Procs -> SUBSET Hashes]
    /\ \A p \in Procs, h \in Hashes :
         h \in Legacy[p] => KeyMaterial[h] = KeyMaterial[Primary[p]]
    /\ Preflights \subseteq SUBSET Procs /\ Starts \subseteq SUBSET Procs
    /\ MaxAborts \in Nat

Keys == {Key[c] : c \in Calls}

VARIABLES
    accounts,  \* wallet_accounts: hash of the key material, next_index, is_active
    catalog,   \* the account asset_catalog binds the assets to
    requests,  \* payment_requests
    records,   \* idempotency_records by key
    locks,     \* per transaction: the accounts whose rows it has locked
    at,        \* per process: how far its start-up sync has come
    seen,      \* per process: the accounts its current statement's snapshot qualifies
    chosen,    \* per process: the historical account it will reactivate
    step,      \* per call: how far it has come
    wallet,    \* per call: the account and index it works with
    answer,    \* per call: what the client is told
    schema,    \* schema_migrations: behind, dirty (one was cut short) or current
    verified,  \* the processes that pass the preflight, fixed by the configurations
    aborts

tables == <<accounts, catalog, requests, records>>
syncVars == <<at, seen, chosen>>
callVars == <<step, wallet, answer>>
bootVars == <<schema, verified>>
vars == <<tables, locks, syncVars, callVars, aborts, bootVars>>

-----------------------------------------------------------------------------
Accounts == DOMAIN accounts
Active == {a \in Accounts : accounts[a].active}
LockedByOthers(t) == UNION {locks[u] : u \in (Calls \cup Procs) \ {t}}

AccountRows == [hash : Hashes \cup {NULL}, next : Nat, active : BOOLEAN]
RequestRows == [id : Calls, account : Nat, index : Nat, material : {KeyMaterial[h] : h \in Hashes}]
RecordRows == [payload : {Payload[c] : c \in Calls}, resource : Calls]
Answers == [kind : {"created", "replayed", "conflict", "error", "lost"}, resource : Calls \cup {NULL}]
NoWallet == [account |-> 0, index |-> 0]

-----------------------------------------------------------------------------
(* Creating a payment request                                              *)

Reply(c, kind, resource) ==
    /\ step' = [step EXCEPT ![c] = "done"]
    /\ answer' = [answer EXCEPT ![c] = [kind |-> kind, resource |-> resource]]
    /\ locks' = [locks EXCEPT ![c] = {}]

(* The reply when the idempotency key is known.                            *)
Replay(c) ==
    IF records[Key[c]].payload = Payload[c]
    THEN Reply(c, "replayed", records[Key[c]].resource)
    ELSE Reply(c, "conflict", NULL)

(* The asset catalog is read outside the transaction.                      *)
LoadAssetCatalogEntry(c) ==
    /\ step[c] = "new" /\ at[Server[c]] = "up"
    /\ wallet' = [wallet EXCEPT ![c] = [account |-> catalog, index |-> 0]]
    /\ step' = [step EXCEPT ![c] = "find"]
    /\ UNCHANGED <<tables, locks, syncVars, answer, aborts, bootVars>>

FindIdempotencyRecord(c) ==
    /\ step[c] = "find"
    /\ \/ records[Key[c]] # NULL /\ Replay(c)
       \/ /\ records[Key[c]] = NULL
          /\ step' = [step EXCEPT ![c] = "lock"]
          /\ UNCHANGED <<locks, answer>>
    /\ UNCHANGED <<tables, syncVars, wallet, aborts, bootVars>>

LockWalletVariantUnchecked(c) ==
    LET a == wallet[c].account
    IN /\ step[c] = "lock" /\ a \notin LockedByOthers(c)
       /\ locks' = [locks EXCEPT ![c] = {a}]
       /\ wallet' = [wallet EXCEPT ![c].index = accounts[a].next]
       /\ step' = [step EXCEPT ![c] = "insert"]
       /\ UNCHANGED <<tables, syncVars, answer, aborts, bootVars>>

(* A plain SELECT instead of SELECT ... FOR UPDATE.                        *)
LockWalletVariantNoLock(c) ==
    LET a == wallet[c].account
    IN /\ step[c] = "lock" /\ accounts[a].active
       /\ wallet' = [wallet EXCEPT ![c].index = accounts[a].next]
       /\ step' = [step EXCEPT ![c] = "insert"]
       /\ UNCHANGED <<tables, locks, syncVars, answer, aborts, bootVars>>

LockWalletAccountForUpdate(c) ==
    LET a == wallet[c].account
    IN /\ step[c] = "lock" /\ a \notin LockedByOthers(c)
       /\ IF accounts[a].active
          THEN /\ locks' = [locks EXCEPT ![c] = {a}]
               /\ wallet' = [wallet EXCEPT ![c].index = accounts[a].next]
               /\ step' = [step EXCEPT ![c] = "insert"]
               /\ UNCHANGED answer
          ELSE Reply(c, "error", NULL) /\ UNCHANGED wallet
       /\ UNCHANGED <<tables, syncVars, aborts, bootVars>>

(* The row call c inserts.  The address is derived from the key material   *)
(* the API process was started with, at the account's index.               *)
Row(c) == [id |-> c, account |-> wallet[c].account, index |-> wallet[c].index,
           material |-> KeyMaterial[Primary[Server[c]]]]

(* UNIQUE (wallet_account_id, derivation_index) and (.., address): the     *)
(* address is a function of the key material and the index.                *)
Clash(q, r) == q.index = r.index /\ (q.account = r.account \/ q.material = r.material)
InsertedBy(c) == {d \in Calls \ {c} : step[d] \in {"record", "commit"}}

(* The error is returned without the deferred rollback.                    *)
InsertVariantNoRollback(c) ==
    /\ step[c] = "insert"
    /\ \A d \in InsertedBy(c) : ~Clash(Row(d), Row(c))
    /\ IF \E q \in requests : Clash(q, Row(c))
       THEN /\ step' = [step EXCEPT ![c] = "done"]
            /\ answer' = [answer EXCEPT ![c] = [kind |-> "error", resource |-> NULL]]
       ELSE step' = [step EXCEPT ![c] = "record"] /\ UNCHANGED answer
    /\ UNCHANGED <<tables, locks, syncVars, wallet, aborts, bootVars>>

(* An uncommitted row that clashes is waited for, a committed one is an    *)
(* error.                                                                  *)
InsertPaymentRequest(c) ==
    /\ step[c] = "insert"
    /\ \A d \in InsertedBy(c) : ~Clash(Row(d), Row(c))
    /\ IF \E q \in requests : Clash(q, Row(c)) THEN Reply(c, "error", NULL)
       ELSE step' = [step EXCEPT ![c] = "record"] /\ UNCHANGED <<locks, answer>>
    /\ UNCHANGED <<tables, syncVars, wallet, aborts, bootVars>>

InsertRecordVariantUpsert(c) ==
    /\ step[c] = "record"
    /\ \A d \in Calls \ {c} : step[d] = "commit" => Key[d] # Key[c]
    /\ step' = [step EXCEPT ![c] = "commit"]
    /\ UNCHANGED <<tables, locks, syncVars, wallet, answer, aborts, bootVars>>

(* The primary key makes the statement wait for a transaction that has     *)
(* inserted the same key; a committed duplicate rolls the call back.       *)
InsertIdempotencyRecord(c) ==
    /\ step[c] = "record"
    /\ \A d \in Calls \ {c} : step[d] = "commit" => Key[d] # Key[c]
    /\ IF records[Key[c]] # NULL
       THEN step' = [step EXCEPT ![c] = "replay"] /\ locks' = [locks EXCEPT ![c] = {}]
       ELSE step' = [step EXCEPT ![c] = "commit"] /\ UNCHANGED locks
    /\ UNCHANGED <<tables, syncVars, wallet, answer, aborts, bootVars>>

LoadReplayVariantAnyPayload(c) ==
    /\ step[c] = "replay"
    /\ Reply(c, "replayed", records[Key[c]].resource)
    /\ UNCHANGED <<tables, syncVars, wallet, aborts, bootVars>>

LoadReplayResource(c) ==
    /\ step[c] = "replay"
    /\ IF records[Key[c]] = NULL THEN Reply(c, "conflict", NULL) ELSE Replay(c)
    /\ UNCHANGED <<tables, syncVars, wallet, aborts, bootVars>>

(* The last statement and the commit, which makes the three rows visible.  *)
BumpWalletNextIndex(c) ==
    LET a == wallet[c].account
    IN /\ step[c] = "commit"
       /\ IF accounts[a].next = wallet[c].index
          THEN /\ accounts' = [accounts EXCEPT ![a].next = @ + 1]
               /\ requests' = requests \cup {Row(c)}
               /\ records' = [records EXCEPT ![Key[c]] = [payload |-> Payload[c], resource |-> c]]
               /\ Reply(c, "created", c)
          ELSE Reply(c, "error", NULL) /\ UNCHANGED <<accounts, requests, records>>
       /\ UNCHANGED <<catalog, syncVars, wallet, aborts, bootVars>>

(* The connection or the process is lost before the commit.                *)
CutCall(c) ==
    /\ step[c] \notin {"new", "done"} /\ aborts < MaxAborts
    /\ aborts' = aborts + 1
    /\ Reply(c, "lost", NULL)
    /\ UNCHANGED <<tables, syncVars, wallet, bootVars>>

-----------------------------------------------------------------------------
(* Starting up: readiness and migrations                                   *)

(* The transaction ends: the start-up goes on, or exits with an error.     *)
EndSync(p, how) ==
    /\ at' = [at EXCEPT ![p] = how]
    /\ seen' = [seen EXCEPT ![p] = {}]
    /\ chosen' = [chosen EXCEPT ![p] = NULL]
    /\ locks' = [locks EXCEPT ![p] = {}]

(* Attempts that fail are repeated until the readiness timeout is over.    *)
CheckReadiness(p) ==
    /\ at[p] = "down"
    /\ \/ EndSync(p, "ready") /\ UNCHANGED aborts
       \/ aborts < MaxAborts /\ aborts' = aborts + 1 /\ EndSync(p, "failed")
    /\ UNCHANGED <<tables, callVars, bootVars>>

RunMigrationsVariantDirty(p) ==
    /\ at[p] = "ready" /\ \A q \in Procs : at[q] # "migrating"
    /\ IF schema = "behind" THEN schema' = "dirty" /\ EndSync(p, "migrating")
                            ELSE EndSync(p, "migrated") /\ UNCHANGED schema
    /\ UNCHANGED <<tables, callVars, aborts, verified>>

(* golang-migrate waits for its advisory lock, refuses a dirty schema, and *)
(* marks the schema dirty while a migration runs.                          *)
RunMigrations(p) ==
    /\ at[p] = "ready" /\ \A q \in Procs : at[q] # "migrating"
    /\ CASE schema = "behind" -> schema' = "dirty" /\ EndSync(p, "migrating")
         [] schema = "dirty" -> EndSync(p, "failed") /\ UNCHANGED schema
         [] schema = "current" -> EndSync(p, "migrated") /\ UNCHANGED schema
    /\ UNCHANGED <<tables, callVars, aborts, verified>>

MigrationsApplied(p) ==
    /\ at[p] = "migrating"
    /\ schema' = "current" /\ EndSync(p, "migrated")
    /\ UNCHANGED <<tables, callVars, aborts, verified>>

-----------------------------------------------------------------------------
(* Synchronising the wallet account at start-up                            *)

Accepted(p) == Legacy[p] \cup {Primary[p]}

ClassifyHashMatch(p, stored) == stored = NULL \/ stored \in Accepted(p)

(* The key derives the expected address at index 0.  A process whose key   *)
(* does not exits before it opens a transaction.                           *)
VerifyVariantSkipped(p) == TRUE
VerifyIndexZeroPreflight(p) == p \in verified

PreflightFails(p) ==
    /\ at[p] = "migrated" /\ ~VerifyIndexZeroPreflight(p)
    /\ EndSync(p, "failed")
    /\ UNCHANGED <<tables, callVars, aborts, bootVars>>

SeekActive(p) ==
    /\ at[p] = "migrated" /\ VerifyIndexZeroPreflight(p)
    /\ at' = [at EXCEPT ![p] = "active"]
    /\ seen' = [seen EXCEPT ![p] = Active]
    /\ UNCHANGED <<tables, locks, chosen, callVars, aborts, bootVars>>

UpsertWalletAccountHash(rows, a, p) ==
    [rows EXCEPT ![a].hash = Primary[p], ![a].active = TRUE]

BindAssetCatalogWalletAccount(a) == catalog' = a

(* While the active row is locked no other row can become active, so a     *)
(* match settles the rest: adopt the hash, bind the catalog, commit.       *)
LockActive(p) ==
    LET held == seen[p] \cap Active
    IN /\ at[p] = "active" /\ seen[p] \cap LockedByOthers(p) = {}
       /\ \/ \E a \in held :
               /\ ClassifyHashMatch(p, accounts[a].hash)
               /\ accounts' = UpsertWalletAccountHash(accounts, a, p)
               /\ BindAssetCatalogWalletAccount(a)
               /\ EndSync(p, "synced")
          \/ /\ \A a \in held : ~ClassifyHashMatch(p, accounts[a].hash)
             /\ locks' = [locks EXCEPT ![p] = held]
             /\ at' = [at EXCEPT ![p] = "historical"]
             /\ seen' = [seen EXCEPT ![p] = {}]
             /\ UNCHANGED <<accounts, catalog, chosen>>
       /\ UNCHANGED <<requests, records, callVars, aborts, bootVars>>

Historical(p) == {a \in Accounts \ Active : accounts[a].hash \in Accepted(p)}

SeekHistorical(p) ==
    /\ at[p] = "historical"
    /\ seen' = [seen EXCEPT ![p] = Historical(p)]
    /\ at' = [at EXCEPT ![p] = IF Historical(p) = {} THEN "victims" ELSE "candidates"]
    /\ UNCHANGED <<tables, locks, chosen, callVars, aborts, bootVars>>

(* A row under the active secret comes before one under a legacy secret;   *)
(* which of several (the last updated one) is left open.                   *)
Candidates(p) ==
    LET primary == {a \in seen[p] : accounts[a].hash = Primary[p]}
    IN IF primary # {} THEN primary ELSE seen[p]

LockHistorical(p) ==
    /\ at[p] = "candidates"
    /\ \E a \in Candidates(p) :
         /\ a \notin LockedByOthers(p)
         /\ IF a \in Historical(p)
            THEN /\ chosen' = [chosen EXCEPT ![p] = a]
                 /\ locks' = [locks EXCEPT ![p] = @ \cup {a}]
                 /\ at' = [at EXCEPT ![p] = "victims"]
                 /\ seen' = [seen EXCEPT ![p] = {}]
            ELSE /\ seen' = [seen EXCEPT ![p] = @ \ {a}]
                 /\ at' = [at EXCEPT ![p] = IF seen[p] = {a} THEN "victims" ELSE "candidates"]
                 /\ UNCHANGED <<chosen, locks>>
    /\ UNCHANGED <<tables, callVars, aborts, bootVars>>

SeekVictims(p) ==
    /\ at[p] = "victims"
    /\ seen' = [seen EXCEPT ![p] = Active]
    /\ at' = [at EXCEPT ![p] = "switch"]
    /\ UNCHANGED <<tables, locks, chosen, callVars, aborts, bootVars>>

DeactivateAllActiveWallets(p) ==
    [a \in Accounts |-> [accounts[a] EXCEPT !.active = @ /\ a \notin seen[p]]]

InsertWalletAccount(rows, p) ==
    Append(rows, [hash |-> Primary[p], next |-> 0, active |-> TRUE])

SwitchVariantKeepsCatalog(p) ==
    /\ at[p] = "switch" /\ seen[p] \cap LockedByOthers(p) = {}
    /\ accounts' = InsertWalletAccount(DeactivateAllActiveWallets(p), p)
    /\ EndSync(p, "synced")
    /\ UNCHANGED <<catalog, requests, records, callVars, aborts, bootVars>>

SwitchVariantResetsNext(p) ==
    LET idle == DeactivateAllActiveWallets(p)
        c == chosen[p]
    IN /\ at[p] = "switch" /\ seen[p] \cap LockedByOthers(p) = {}
       /\ accounts' = IF c # NULL THEN [UpsertWalletAccountHash(idle, c, p) EXCEPT ![c].next = 0]
                      ELSE InsertWalletAccount(idle, p)
       /\ BindAssetCatalogWalletAccount(IF c # NULL THEN c ELSE Len(accounts) + 1)
       /\ EndSync(p, "synced")
       /\ UNCHANGED <<requests, records, callVars, aborts, bootVars>>

(* The active accounts seen are deactivated, the historical one or a new   *)
(* one is made active and bound, and the transaction commits.  An account  *)
(* that became active unseen makes the unique index refuse the new one.    *)
SwitchAccount(p) ==
    LET idle == DeactivateAllActiveWallets(p)
        c == chosen[p]
    IN /\ at[p] = "switch" /\ seen[p] \cap LockedByOthers(p) = {}
       /\ \/ /\ Active \subseteq seen[p] /\ c # NULL
             /\ accounts' = UpsertWalletAccountHash(idle, c, p)
             /\ BindAssetCatalogWalletAccount(c)
             /\ EndSync(p, "synced")
          \/ /\ Active \subseteq seen[p] /\ c = NULL
             /\ accounts' = InsertWalletAccount(idle, p)
             /\ BindAssetCatalogWalletAccount(Len(accounts) + 1)
             /\ EndSync(p, "synced")
          \/ ~(Active \subseteq seen[p]) /\ EndSync(p, "failed") /\ UNCHANGED <<accounts, catalog>>
       /\ UNCHANGED <<requests, records, callVars, aborts, bootVars>>

(* Of the checks of a catalog row, the one that start-ups can upset.       *)
ValidCatalogRow == accounts[catalog].active

(* The last step of the start-up, on its own connection: the process only  *)
(* serves when every asset is bound to an active account.                  *)
ValidateAssetCatalogIntegrity(p) ==
    /\ at[p] = "synced"
    /\ at' = [at EXCEPT ![p] = IF ValidCatalogRow THEN "up" ELSE "failed"]
    /\ UNCHANGED <<tables, locks, seen, chosen, callVars, aborts, bootVars>>

(* A migration that is cut short leaves the schema dirty; between two of   *)
(* them it is merely behind.                                               *)
CutSync(p) ==
    /\ at[p] \notin {"down", "up", "failed"} /\ aborts < MaxAborts
    /\ aborts' = aborts + 1
    /\ EndSync(p, "failed")
    /\ schema' \in IF at[p] = "migrating" THEN {"behind", "dirty"} ELSE {schema}
    /\ UNCHANGED <<tables, callVars, verified>>

-----------------------------------------------------------------------------
(* Waiting for each other                                                  *)

(* The transactions that the current statement of t may wait for: they     *)
(* hold a row it locks, or have inserted a row that clashes with its own,  *)
(* or the same idempotency key; or they hold the migrations' advisory lock.*)
WaitsFor(t) ==
    {u \in (Calls \cup Procs) \ {t} :
        \/ t \in Calls /\ step[t] = "lock" /\ wallet[t].account \in locks[u]
        \/ t \in Calls /\ step[t] = "insert" /\ u \in InsertedBy(t) /\ Clash(Row(u), Row(t))
        \/ t \in Calls /\ step[t] = "record" /\ u \in Calls /\ step[u] = "commit" /\ Key[u] = Key[t]
        \/ t \in Procs /\ at[t] = "ready" /\ u \in Procs /\ at[u] = "migrating"
        \/ t \in Procs /\ at[t] \in {"active", "switch"} /\ seen[t] \cap locks[u] # {}
        \/ t \in Procs /\ at[t] = "candidates" /\ Candidates(t) \cap locks[u] # {}}

Waiting == {t \in Calls \cup Procs : WaitsFor(t) # {}}
Entangled(C) == C # {} /\ \A t \in C : WaitsFor(t) \cap C # {}
Circle(C) == Entangled(C) /\ \A D \in SUBSET C : Entangled(D) => D = C

(* A sync that found no active row holds its historical one while it waits *)
(* for the row that became active, whose holder may wait for the same      *)
(* historical one.  PostgreSQL then fails the statement of one             *)
(* transaction in the circle, and the start-up exits with its error.       *)
DeadlockDetected(p) ==
    /\ at[p] \in {"candidates", "switch"} /\ locks[p] # {}
    /\ \E C \in SUBSET Waiting : p \in C /\ Circle(C)
    /\ EndSync(p, "failed")
    /\ UNCHANGED <<tables, callVars, aborts, bootVars>>

-----------------------------------------------------------------------------
(* The tables as the migrations make them, one active account without a    *)
(* hash among them; nobody looks before.                                   *)
Init ==
    /\ accounts = <<[hash |-> NULL, next |-> 0, active |-> TRUE]>>
    /\ catalog = 1
    /\ requests = {}
    /\ records = [k \in Keys |-> NULL]
    /\ locks = [t \in Calls \cup Procs |-> {}]
    /\ \E started \in Starts : at = [p \in Procs |-> IF p \in started THEN "down" ELSE "failed"]
    /\ seen = [p \in Procs |-> {}]
    /\ chosen = [p \in Procs |-> NULL]
    /\ step = [c \in Calls |-> "new"]
    /\ wallet = [c \in Calls |-> NoWallet]
    /\ answer = [c \in Calls |-> NULL]
    /\ aborts = 0
    /\ schema = "behind"
    /\ verified \in Preflights

CallStep(c) ==
    \/ FindIdempotencyRecord(c) \/ LockWalletAccountForUpdate(c) \/ InsertPaymentRequest(c)
    \/ InsertIdempotencyRecord(c) \/ LoadReplayResource(c) \/ BumpWalletNextIndex(c)

SyncStep(p) ==
    \/ RunMigrations(p) \/ MigrationsApplied(p) \/ PreflightFails(p) \/ SeekActive(p)
    \/ LockActive(p) \/ SeekHistorical(p) \/ LockHistorical(p) \/ SeekVictims(p) \/ SwitchAccount(p)
    \/ ValidateAssetCatalogIntegrity(p) \/ DeadlockDetected(p)

Next ==
    \/ \E c \in Calls : LoadAssetCatalogEntry(c) \/ CallStep(c) \/ CutCall(c)
    \/ \E p \in Procs : CheckReadiness(p) \/ SyncStep(p) \/ CutSync(p)

Spec == Init /\ [][Next]_vars

(* A transaction that waits for no other one goes on, and a circle is      *)
(* detected.  Nothing makes a process start or a client call.              *)
FairSpec == Spec /\ WF_vars((\E c \in Calls : CallStep(c)) \/ (\E p \in Procs : SyncStep(p)))
===============================================================================
