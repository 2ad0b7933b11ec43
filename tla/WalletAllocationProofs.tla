----------------------- MODULE WalletAllocationProofs -----------------------
(***************************************************************************)
(* What is proved of address allocation and of the start-up for any calls  *)
(* and processes, keys, payloads, key configurations and preflights.       *)
(***************************************************************************)
EXTENDS WalletAllocationProps, FiniteSetTheorems, TLAPS

Stages == {"down", "ready", "migrating", "migrated", "active", "historical", "candidates",
           "victims", "switch", "synced", "up", "failed"}
Steps == {"new", "find", "lock", "insert", "record", "commit", "replay", "done"}
Allocating == {"insert", "record", "commit"}

(* The tables: what the rows refer to exists.                              *)
TableInv ==
    /\ TableType
    /\ IsFiniteSet(requests)
    /\ \A q \in requests : q.account \in Accounts

CallInv ==
    /\ step \in [Calls -> Steps]
    /\ wallet \in [Calls -> [account : Nat, index : Nat]]
    /\ answer \in [Calls -> Answers \cup {NULL}]
    /\ \A c \in Calls : step[c] # "new" => wallet[c].account \in Accounts

SyncInv ==
    /\ at \in [Procs -> Stages]
    /\ seen \in [Procs -> SUBSET Accounts]
    /\ chosen \in [Procs -> Accounts \cup {NULL}]

LockInv ==
    /\ locks \in [Calls \cup Procs -> SUBSET Accounts]
    /\ \A c \in Calls : locks[c] = IF step[c] \in Allocating THEN {wallet[c].account} ELSE {}

BootInv == aborts \in Nat /\ schema \in {"behind", "dirty", "current"} /\ verified \subseteq Procs

TypeInv == TableInv /\ CallInv /\ SyncInv /\ LockInv /\ BootInv

-----------------------------------------------------------------------------
(* Type correctness                                                        *)

LEMMA TypeInvType == TypeInv => TypeOK
  BY DEF TypeInv, TableInv, CallInv, SyncInv, LockInv, BootInv, TypeOK, Stages, Steps, Allocating

LEMMA InitTypeInv == Init => TypeInv
  <1> SUFFICES ASSUME Init PROVE TypeInv
    OBVIOUS
  <1>1. TableInv
    <2>1. accounts \in Seq(AccountRows) /\ Len(accounts) = 1 /\ Accounts = {1}
      BY DEF Init, Accounts, AccountRows
    <2> QED
      BY <2>1, FS_EmptySet DEF Init, TableInv, TableType, RequestRows
  <1>2. CallInv
    BY DEF Init, CallInv, Steps, NoWallet
  <1>3. SyncInv /\ LockInv
    BY AllocationAssumption DEF Init, SyncInv, LockInv, Stages, Allocating
  <1>4. BootInv
    BY AllocationAssumption DEF Init, BootInv
  <1> QED
    BY <1>1, <1>2, <1>3, <1>4 DEF TypeInv

(* What a reply leaves of a call.                                          *)
LEMMA ReplyType ==
    ASSUME TypeInv, NEW c \in Calls, NEW kind \in {"created", "replayed", "conflict", "error", "lost"},
           NEW resource \in Calls \cup {NULL}, Reply(c, kind, resource),
           step[c] # "new", UNCHANGED wallet, Accounts \subseteq Accounts'
    PROVE  CallInv' /\ LockInv'
  <1>1. CallInv'
    BY DEF TypeInv, CallInv, Reply, Answers, Steps
  <1>2. LockInv'
    BY AllocationAssumption DEF TypeInv, LockInv, CallInv, Reply, Steps, Allocating
  <1> QED
    BY <1>1, <1>2

LEMMA ReplayType ==
    ASSUME TypeInv, NEW c \in Calls, Replay(c), records[Key[c]] # NULL,
           step[c] # "new", UNCHANGED wallet, Accounts \subseteq Accounts'
    PROVE  CallInv' /\ LockInv'
  <1>1. Key[c] \in Keys
    BY DEF Keys
  <1>2. records[Key[c]].resource \in Calls
    BY <1>1 DEF TypeInv, TableInv, TableType, RecordRows
  <1>3. Reply(c, "replayed", records[Key[c]].resource) \/ Reply(c, "conflict", NULL)
    BY DEF Replay
  <1> QED
    BY <1>2, <1>3, ReplyType

(* A call that goes on without touching the tables.                        *)
LEMMA CallMoves ==
    ASSUME TypeInv, NEW c \in Calls, NEW to \in Steps, NEW w \in [account : Accounts, index : Nat],
           step' = [step EXCEPT ![c] = to], wallet' = [wallet EXCEPT ![c] = w],
           locks' = [locks EXCEPT ![c] = IF to \in Allocating THEN {w.account} ELSE {}],
           UNCHANGED <<accounts, answer>>
    PROVE  CallInv' /\ LockInv'
  <1>1. Accounts \subseteq Nat /\ Accounts' = Accounts
    BY DEF Accounts, TypeInv, TableInv, TableType
  <1>2. CallInv'
    BY <1>1 DEF TypeInv, CallInv
  <1>3. w.account \in Accounts /\ step'[c] = to /\ wallet'[c] = w
    BY DEF TypeInv, CallInv
  <1>4. locks' \in [Calls \cup Procs -> SUBSET Accounts]
    BY <1>3 DEF TypeInv, LockInv
  <1>5. \A d \in Calls : locks'[d] = IF step'[d] \in Allocating THEN {wallet'[d].account} ELSE {}
    <2>1. locks'[c] = IF step'[c] \in Allocating THEN {wallet'[c].account} ELSE {}
      BY <1>3 DEF TypeInv, LockInv
    <2>2. \A d \in Calls \ {c} : locks'[d] = locks[d] /\ step'[d] = step[d] /\ wallet'[d] = wallet[d]
      BY DEF TypeInv, LockInv, CallInv
    <2> QED
      BY <2>1, <2>2 DEF TypeInv, LockInv
  <1>6. LockInv'
    BY <1>1, <1>4, <1>5 DEF LockInv
  <1> QED
    BY <1>2, <1>6

LEMMA SameTables ==
    ASSUME TypeInv, UNCHANGED tables
    PROVE  TableInv' /\ Accounts' = Accounts
  BY DEF TypeInv, TableInv, TableType, tables, Accounts, RecordRows, RequestRows, AccountRows, Keys

LEMMA SameSync ==
    ASSUME TypeInv, UNCHANGED syncVars, Accounts \subseteq Accounts'
    PROVE  SyncInv'
  BY DEF TypeInv, SyncInv, syncVars

(* Steps of a call before its commit.                                      *)
LEMMA CallTypeInv ==
    ASSUME TypeInv, NEW c \in Calls,
           \/ LoadAssetCatalogEntry(c) \/ FindIdempotencyRecord(c) \/ LockWalletAccountForUpdate(c)
           \/ InsertPaymentRequest(c) \/ InsertIdempotencyRecord(c) \/ LoadReplayResource(c) \/ CutCall(c)
    PROVE  TypeInv'
  <1>1. UNCHANGED <<tables, syncVars, schema, verified>> /\ aborts' \in Nat
    BY DEF LoadAssetCatalogEntry, FindIdempotencyRecord, LockWalletAccountForUpdate, InsertPaymentRequest,
           InsertIdempotencyRecord, LoadReplayResource, CutCall, bootVars, TypeInv, BootInv
  <1>2. TableInv' /\ SyncInv' /\ BootInv' /\ Accounts' = Accounts
    BY <1>1, SameTables, SameSync DEF TypeInv, BootInv
  <1>3. UNCHANGED <<accounts, records, catalog>>
    BY <1>1 DEF tables
  <1>4. /\ wallet[c] \in [account : Nat, index : Nat]
        /\ step[c] # "new" => wallet[c].account \in Accounts
        /\ catalog \in Accounts
        /\ \A a \in Accounts : accounts[a].next \in Nat
    <2>1. \A a \in Accounts : accounts[a] \in AccountRows
      BY DEF TypeInv, TableInv, TableType, Accounts
    <2> QED
      BY <2>1 DEF TypeInv, CallInv, TableInv, TableType, AccountRows
  <1>5. locks[c] = IF step[c] \in Allocating THEN {wallet[c].account} ELSE {}
    BY DEF TypeInv, LockInv
  <1>6. /\ wallet = [wallet EXCEPT ![c] = wallet[c]]
        /\ locks = [locks EXCEPT ![c] = locks[c]]
    BY DEF TypeInv, CallInv, LockInv
  <1>7. Accounts \subseteq Nat
    BY DEF Accounts, TypeInv, TableInv, TableType
  <1>8. CASE LoadAssetCatalogEntry(c)
    <2>1. /\ step' = [step EXCEPT ![c] = "find"]
          /\ wallet' = [wallet EXCEPT ![c] = [account |-> catalog, index |-> 0]]
          /\ locks' = [locks EXCEPT ![c] = {}] /\ UNCHANGED answer
      BY <1>5, <1>6, <1>8 DEF LoadAssetCatalogEntry, Allocating
    <2>2. CallInv' /\ LockInv'
      <3>1. [account |-> catalog, index |-> 0] \in [account : Accounts, index : Nat]
        BY <1>4
      <3>2. "find" \in Steps /\ "find" \notin Allocating
        BY DEF Steps, Allocating
      <3>3. locks' = [locks EXCEPT ![c] = IF "find" \in Allocating THEN {catalog} ELSE {}]
        BY <2>1, <3>2
      <3> QED
        BY <1>3, <2>1, <3>1, <3>2, <3>3, CallMoves
    <2> QED
      BY <1>2, <2>2 DEF TypeInv
  <1>9. CASE FindIdempotencyRecord(c)
    <2>1. CASE records[Key[c]] # NULL /\ Replay(c)
      BY <1>2, <1>9, <2>1, ReplayType DEF FindIdempotencyRecord, TypeInv
    <2>2. CASE ~(records[Key[c]] # NULL /\ Replay(c))
      <3>1. /\ step[c] = "find" /\ step' = [step EXCEPT ![c] = "lock"] /\ UNCHANGED <<wallet, locks, answer>>
        BY <1>9, <2>2 DEF FindIdempotencyRecord
      <3>2. "lock" \in Steps /\ locks' = [locks EXCEPT ![c] = IF "lock" \in Allocating THEN {wallet[c].account} ELSE {}]
        BY <1>5, <1>6, <3>1 DEF Steps, Allocating
      <3>3. wallet[c] \in [account : Accounts, index : Nat] /\ wallet' = [wallet EXCEPT ![c] = wallet[c]]
        BY <1>4, <1>6, <3>1
      <3>4. CallInv' /\ LockInv'
        BY <1>3, <3>1, <3>2, <3>3, CallMoves
      <3> QED
        BY <1>2, <3>4 DEF TypeInv
    <2> QED
      BY <2>1, <2>2
  <1>10. CASE LockWalletAccountForUpdate(c)
    <2> DEFINE a == wallet[c].account
    <2>1. step[c] = "lock" /\ a \in Accounts
      BY <1>4, <1>10 DEF LockWalletAccountForUpdate
    <2>2. CASE accounts[a].active
      <3> DEFINE w == [account |-> a, index |-> accounts[a].next]
      <3>1. /\ step' = [step EXCEPT ![c] = "insert"] /\ locks' = [locks EXCEPT ![c] = {a}]
            /\ wallet' = [wallet EXCEPT ![c].index = accounts[a].next] /\ UNCHANGED answer
        BY <1>10, <2>2 DEF LockWalletAccountForUpdate
      <3>2. w \in [account : Accounts, index : Nat] /\ wallet' = [wallet EXCEPT ![c] = w]
        <4>1. w \in [account : Accounts, index : Nat]
          BY <1>4, <2>1
        <4>2. [wallet[c] EXCEPT !.index = accounts[a].next] = w
          BY <1>4
        <4> QED
          BY <3>1, <4>1, <4>2 DEF TypeInv, CallInv
      <3>3. "insert" \in Steps /\ locks' = [locks EXCEPT ![c] = IF "insert" \in Allocating THEN {w.account} ELSE {}]
        BY <3>1 DEF Steps, Allocating
      <3> HIDE DEF w
      <3>4. CallInv' /\ LockInv'
        BY <1>3, <3>1, <3>2, <3>3, CallMoves
      <3> QED
        BY <1>2, <3>4 DEF TypeInv
    <2>3. CASE ~accounts[a].active
      BY <1>2, <1>10, <2>1, <2>3, ReplyType DEF LockWalletAccountForUpdate, TypeInv
    <2> QED
      BY <2>2, <2>3
  <1>11. CASE InsertPaymentRequest(c)
    <2>1. CASE \E q \in requests : Clash(q, Row(c))
      BY <1>2, <1>11, <2>1, ReplyType DEF InsertPaymentRequest, TypeInv
    <2>2. CASE ~\E q \in requests : Clash(q, Row(c))
      <3>1. step[c] = "insert" /\ step' = [step EXCEPT ![c] = "record"] /\ UNCHANGED <<wallet, locks, answer>>
        BY <1>11, <2>2 DEF InsertPaymentRequest
      <3>2. "record" \in Steps /\ locks' = [locks EXCEPT ![c] = IF "record" \in Allocating THEN {wallet[c].account} ELSE {}]
        BY <1>5, <1>6, <3>1 DEF Steps, Allocating
      <3>3. wallet[c] \in [account : Accounts, index : Nat] /\ wallet' = [wallet EXCEPT ![c] = wallet[c]]
        BY <1>4, <1>6, <3>1
      <3>4. CallInv' /\ LockInv'
        BY <1>3, <3>1, <3>2, <3>3, CallMoves
      <3> QED
        BY <1>2, <3>4 DEF TypeInv
    <2> QED
      BY <2>1, <2>2
  <1>12. CASE InsertIdempotencyRecord(c)
    <2>1. wallet[c] \in [account : Accounts, index : Nat] /\ wallet' = [wallet EXCEPT ![c] = wallet[c]]
      BY <1>4, <1>6, <1>12 DEF InsertIdempotencyRecord
    <2>2. \E to \in {"replay", "commit"} :
            /\ step' = [step EXCEPT ![c] = to]
            /\ locks' = [locks EXCEPT ![c] = IF to \in Allocating THEN {wallet[c].account} ELSE {}]
      BY <1>5, <1>6, <1>12 DEF InsertIdempotencyRecord, Allocating
    <2>3. PICK to \in {"replay", "commit"} :
            /\ step' = [step EXCEPT ![c] = to]
            /\ locks' = [locks EXCEPT ![c] = IF to \in Allocating THEN {wallet[c].account} ELSE {}]
      BY <2>2
    <2>4. to \in Steps /\ UNCHANGED <<accounts, answer>>
      BY <1>12 DEF InsertIdempotencyRecord, Steps, tables
    <2>5. CallInv' /\ LockInv'
      BY <2>1, <2>3, <2>4, CallMoves
    <2> QED
      BY <1>2, <2>5 DEF TypeInv
  <1>13. CASE LoadReplayResource(c)
    <2>1. CASE records[Key[c]] = NULL
      BY <1>2, <1>13, <2>1, ReplyType DEF LoadReplayResource, TypeInv
    <2>2. CASE records[Key[c]] # NULL
      BY <1>2, <1>13, <2>2, ReplayType DEF LoadReplayResource, TypeInv
    <2> QED
      BY <2>1, <2>2
  <1>14. CASE CutCall(c)
    BY <1>2, <1>14, ReplyType DEF CutCall, TypeInv
  <1> QED
    BY <1>8, <1>9, <1>10, <1>11, <1>12, <1>13, <1>14

LEMMA BumpTypeInv ==
    ASSUME TypeInv, NEW c \in Calls, BumpWalletNextIndex(c)
    PROVE  TypeInv'
  <1> DEFINE a == wallet[c].account
  <1>1. /\ step[c] = "commit" /\ a \in Accounts /\ Row(c) \in RequestRows
        /\ UNCHANGED <<catalog, syncVars, wallet, aborts, bootVars>>
    BY AllocationAssumption DEF BumpWalletNextIndex, TypeInv, CallInv, TableInv, TableType, Row, RequestRows, Hashes
  <1>2. CASE accounts[a].next # wallet[c].index
    <2>1. Reply(c, "error", NULL) /\ UNCHANGED tables
      BY <1>1, <1>2 DEF BumpWalletNextIndex, tables
    <2> QED
      BY <1>1, <2>1, SameTables, SameSync, ReplyType DEF TypeInv, BootInv, bootVars
  <1>3. CASE accounts[a].next = wallet[c].index
    <2>1. /\ accounts' = [accounts EXCEPT ![a].next = @ + 1]
          /\ requests' = requests \cup {Row(c)}
          /\ records' = [records EXCEPT ![Key[c]] = [payload |-> Payload[c], resource |-> c]]
          /\ Reply(c, "created", c)
      BY <1>3 DEF BumpWalletNextIndex
    <2>2. accounts' \in Seq(AccountRows) /\ Len(accounts') = Len(accounts) /\ Accounts' = Accounts
      <3>1. accounts[a] \in AccountRows
        BY <1>1 DEF TypeInv, TableInv, TableType, Accounts
      <3>2. [accounts[a] EXCEPT !.next = @ + 1] \in AccountRows
        BY <3>1 DEF AccountRows
      <3> QED
        BY <1>1, <2>1, <3>2 DEF TypeInv, TableInv, TableType, Accounts
    <2>3. records' \in [Keys -> RecordRows \cup {NULL}]
      BY <2>1 DEF TypeInv, TableInv, TableType, RecordRows, Keys
    <2>4. IsFiniteSet(requests')
      BY <2>1, FS_AddElement DEF TypeInv, TableInv
    <2>5. TableInv'
      <3>1. Row(c).account = a
        BY DEF Row
      <3>2. /\ RequestRows' = RequestRows /\ RecordRows' = RecordRows /\ AccountRows' = AccountRows /\ Keys' = Keys
        BY DEF RequestRows, RecordRows, AccountRows, Keys
      <3> QED
        BY <1>1, <2>1, <2>2, <2>3, <2>4, <3>1, <3>2 DEF TypeInv, TableInv, TableType
    <2>6. CallInv' /\ LockInv'
      BY <1>1, <2>1, <2>2, ReplyType
    <2>7. SyncInv'
      BY <1>1, <2>2, SameSync
    <2> QED
      BY <1>1, <2>5, <2>6, <2>7 DEF TypeInv, BootInv, bootVars
  <1> QED
    BY <1>2, <1>3

-----------------------------------------------------------------------------
(* The start-up                                                            *)

LEMMA PrimaryHash ==
    ASSUME NEW p \in Procs
    PROVE  Primary[p] \in Hashes /\ NULL \notin Hashes
  BY AllocationAssumption

LEMMA RowSet ==
    ASSUME NEW row \in AccountRows, NEW b \in BOOLEAN
    PROVE  /\ [row EXCEPT !.active = b] = [hash |-> row.hash, next |-> row.next, active |-> b]
           /\ [row EXCEPT !.active = b] \in AccountRows
           /\ [row EXCEPT !.active = b].active = b
  BY DEF AccountRows

(* The tables a switch makes: the rows keep their numbers and their        *)
(* next_index.                                                             *)
LEMMA RowsType ==
    ASSUME TypeInv, NEW p \in Procs
    PROVE  /\ DeactivateAllActiveWallets(p) \in Seq(AccountRows)
           /\ Len(DeactivateAllActiveWallets(p)) = Len(accounts)
           /\ DOMAIN DeactivateAllActiveWallets(p) = Accounts
           /\ \A a \in Accounts :
                /\ DeactivateAllActiveWallets(p)[a].hash = accounts[a].hash
                /\ DeactivateAllActiveWallets(p)[a].next = accounts[a].next
                /\ DeactivateAllActiveWallets(p)[a].active <=> (accounts[a].active /\ a \notin seen[p])
  <1> DEFINE idle == DeactivateAllActiveWallets(p)
  <1>1. \A a \in Accounts : accounts[a] \in AccountRows
    BY DEF TypeInv, TableInv, TableType, Accounts
  <1>2. /\ idle = [a \in Accounts |-> [accounts[a] EXCEPT !.active = @ /\ a \notin seen[p]]]
        /\ Accounts = 1 .. Len(accounts) /\ Len(accounts) \in Nat
    BY DEF DeactivateAllActiveWallets, TypeInv, TableInv, TableType, Accounts
  <1>3. \A a \in Accounts :
          /\ idle[a].hash = accounts[a].hash /\ idle[a].next = accounts[a].next
          /\ idle[a].active <=> (accounts[a].active /\ a \notin seen[p])
          /\ idle[a] \in AccountRows
    <2> SUFFICES ASSUME NEW a \in Accounts
                 PROVE  /\ idle[a].hash = accounts[a].hash /\ idle[a].next = accounts[a].next
                        /\ idle[a].active <=> (accounts[a].active /\ a \notin seen[p])
                        /\ idle[a] \in AccountRows
      OBVIOUS
    <2>1. accounts[a] \in AccountRows /\ idle[a] = [accounts[a] EXCEPT !.active = @ /\ a \notin seen[p]]
      BY <1>1, <1>2
    <2> HIDE DEF idle
    <2> DEFINE b == accounts[a].active /\ a \notin seen[p]
    <2>2. b \in BOOLEAN
      OBVIOUS
    <2>3. idle[a] = [accounts[a] EXCEPT !.active = b]
      BY <2>1
    <2>4. b <=> (accounts[a].active /\ a \notin seen[p])
      OBVIOUS
    <2> HIDE DEF b
    <2>5. /\ idle[a] = [hash |-> accounts[a].hash, next |-> accounts[a].next, active |-> b]
          /\ idle[a] \in AccountRows /\ idle[a].active = b
      BY <2>1, <2>2, <2>3, RowSet
    <2> QED
      BY <2>4, <2>5
  <1> HIDE DEF idle
  <1> DEFINE n == Len(accounts)
  <1>4. idle \in [1 .. n -> AccountRows]
    <2>1. DOMAIN idle = 1 .. n /\ idle = [a \in 1 .. n |-> idle[a]]
      BY <1>2 DEF idle
    <2>2. \A a \in 1 .. n : idle[a] \in AccountRows
      BY <1>2, <1>3
    <2> HIDE DEF n
    <2> QED
      BY <2>1, <2>2
  <1>5. n \in Nat
    BY <1>2
  <1> HIDE DEF n
  <1>6. idle \in Seq(AccountRows) /\ Len(idle) = n
    BY <1>4, <1>5
  <1>7. idle = DeactivateAllActiveWallets(p) /\ DOMAIN idle = Accounts /\ n = Len(accounts)
    BY <1>2, <1>4 DEF idle, n
  <1>8. \A a \in Accounts :
          /\ DeactivateAllActiveWallets(p)[a].hash = accounts[a].hash
          /\ DeactivateAllActiveWallets(p)[a].next = accounts[a].next
          /\ DeactivateAllActiveWallets(p)[a].active <=> (accounts[a].active /\ a \notin seen[p])
    BY <1>3, Zenon DEF idle
  <1>9. /\ DeactivateAllActiveWallets(p) \in Seq(AccountRows)
        /\ Len(DeactivateAllActiveWallets(p)) = Len(accounts)
        /\ DOMAIN DeactivateAllActiveWallets(p) = Accounts
    BY <1>6, <1>7, Zenon
  <1> QED
    BY <1>8, <1>9, Zenon

LEMMA UpsertType ==
    ASSUME NEW rows \in Seq(AccountRows), NEW a \in DOMAIN rows, NEW p \in Procs
    PROVE  /\ UpsertWalletAccountHash(rows, a, p) \in Seq(AccountRows)
           /\ Len(UpsertWalletAccountHash(rows, a, p)) = Len(rows)
           /\ UpsertWalletAccountHash(rows, a, p)[a] =
                 [hash |-> Primary[p], next |-> rows[a].next, active |-> TRUE]
           /\ \A b \in DOMAIN rows \ {a} : UpsertWalletAccountHash(rows, a, p)[b] = rows[b]
           /\ DOMAIN UpsertWalletAccountHash(rows, a, p) = DOMAIN rows
  <1> DEFINE row == [hash |-> Primary[p], next |-> rows[a].next, active |-> TRUE]
  <1>1. rows[a] \in AccountRows
    OBVIOUS
  <1>2. row \in AccountRows
    BY <1>1, PrimaryHash DEF AccountRows
  <1>3. UpsertWalletAccountHash(rows, a, p) = [rows EXCEPT ![a] = row]
    <2> DEFINE hashed == [rows[a] EXCEPT !.hash = Primary[p]]
    <2>1. hashed = [hash |-> Primary[p], next |-> rows[a].next, active |-> rows[a].active] /\ hashed \in AccountRows
      BY <1>1, PrimaryHash DEF AccountRows
    <2>2. UpsertWalletAccountHash(rows, a, p) = [[rows EXCEPT ![a] = hashed] EXCEPT ![a] = [@ EXCEPT !.active = TRUE]]
      BY DEF UpsertWalletAccountHash
    <2> HIDE DEF hashed
    <2>3. hashed.hash = Primary[p] /\ hashed.next = rows[a].next
      BY <2>1
    <2>4. [hashed EXCEPT !.active = TRUE] = [hash |-> hashed.hash, next |-> hashed.next, active |-> TRUE]
      BY <2>1, RowSet
    <2>5. [hashed EXCEPT !.active = TRUE] = row
      BY <2>3, <2>4
    <2> HIDE DEF row
    <2>6. [[rows EXCEPT ![a] = hashed] EXCEPT ![a] = [@ EXCEPT !.active = TRUE]] = [rows EXCEPT ![a] = row]
      BY <2>5
    <2> QED
      BY <2>2, <2>6
  <1> HIDE DEF row
  <1>4. [rows EXCEPT ![a] = row] \in Seq(AccountRows) /\ Len([rows EXCEPT ![a] = row]) = Len(rows)
    BY <1>2
  <1> QED
    BY <1>3, <1>4 DEF row

LEMMA InsertType ==
    ASSUME NEW rows \in Seq(AccountRows), NEW p \in Procs
    PROVE  /\ InsertWalletAccount(rows, p) \in Seq(AccountRows)
           /\ Len(InsertWalletAccount(rows, p)) = Len(rows) + 1
           /\ InsertWalletAccount(rows, p)[Len(rows) + 1] = [hash |-> Primary[p], next |-> 0, active |-> TRUE]
           /\ \A b \in DOMAIN rows : InsertWalletAccount(rows, p)[b] = rows[b]
           /\ DOMAIN InsertWalletAccount(rows, p) = 1 .. Len(rows) + 1
  <1>1. [hash |-> Primary[p], next |-> 0, active |-> TRUE] \in AccountRows
    BY PrimaryHash DEF AccountRows
  <1> QED
    BY <1>1 DEF InsertWalletAccount

(* What becomes of the accounts in a step of a start-up.                   *)
AccountsKept ==
    /\ accounts' \in Seq(AccountRows) /\ Accounts \subseteq Accounts' /\ catalog' \in Accounts'
    /\ \A a \in Accounts : accounts'[a].next = accounts[a].next
    /\ \A a \in Accounts' \ Accounts : accounts'[a].next = 0
    /\ UNCHANGED <<requests, records, callVars>>

LEMMA KeptTables ==
    ASSUME TypeInv, AccountsKept
    PROVE  TableInv' /\ CallInv'
  <1>1. TableInv'
    <2>1. RequestRows' = RequestRows /\ RecordRows' = RecordRows /\ AccountRows' = AccountRows /\ Keys' = Keys
      BY DEF RequestRows, RecordRows, AccountRows, Keys
    <2>2. Len(accounts') > 0
      <3>1. 1 \in Accounts /\ Accounts' = 1 .. Len(accounts')
        BY DEF TypeInv, TableInv, TableType, Accounts, AccountsKept
      <3> QED
        BY <3>1 DEF AccountsKept
    <2> QED
      BY <2>1, <2>2 DEF TypeInv, TableInv, TableType, AccountsKept
  <1>2. CallInv'
    BY DEF TypeInv, CallInv, AccountsKept, callVars
  <1> QED
    BY <1>1, <1>2

LEMMA EndSyncType ==
    ASSUME TypeInv, NEW p \in Procs, NEW how \in Stages, EndSync(p, how), AccountsKept
    PROVE  TableInv' /\ CallInv' /\ SyncInv' /\ LockInv'
  <1>1. SyncInv'
    BY DEF TypeInv, SyncInv, EndSync, AccountsKept
  <1>2. LockInv'
    <2>1. locks' \in [Calls \cup Procs -> SUBSET Accounts']
      BY DEF TypeInv, LockInv, EndSync, AccountsKept
    <2>2. \A d \in Calls : locks'[d] = locks[d]
      BY AllocationAssumption DEF TypeInv, LockInv, EndSync
    <2>3. UNCHANGED <<step, wallet>>
      BY DEF AccountsKept, callVars
    <2> QED
      BY <2>1, <2>2, <2>3 DEF TypeInv, LockInv
  <1> QED
    BY <1>1, <1>2, KeptTables

LEMMA SameAccountsKept ==
    ASSUME TypeInv, UNCHANGED <<tables, callVars>>
    PROVE  AccountsKept
  BY DEF TypeInv, TableInv, TableType, AccountsKept, tables, Accounts

(* The accounts a switch may end with.                                     *)
LEMMA SwitchKeeps ==
    ASSUME TypeInv, NEW p \in Procs, SwitchAccount(p)
    PROVE  /\ AccountsKept /\ (EndSync(p, "synced") \/ EndSync(p, "failed"))
           /\ UNCHANGED <<aborts, bootVars>>
           /\ \/ UNCHANGED <<accounts, catalog>>
              \/ /\ Active \subseteq seen[p] /\ chosen[p] \in Accounts /\ catalog' = chosen[p]
                 /\ accounts' = UpsertWalletAccountHash(DeactivateAllActiveWallets(p), chosen[p], p)
              \/ /\ Active \subseteq seen[p] /\ catalog' = Len(accounts) + 1
                 /\ accounts' = InsertWalletAccount(DeactivateAllActiveWallets(p), p)
  <1> DEFINE idle == DeactivateAllActiveWallets(p)
             c == chosen[p]
  <1>1. c \in Accounts \cup {NULL}
    BY DEF TypeInv, SyncInv
  <1>2. /\ UNCHANGED <<requests, records, callVars, aborts, bootVars>>
        /\ \/ /\ Active \subseteq seen[p] /\ c # NULL /\ EndSync(p, "synced")
              /\ accounts' = UpsertWalletAccountHash(idle, c, p) /\ catalog' = c
           \/ /\ Active \subseteq seen[p] /\ EndSync(p, "synced")
              /\ accounts' = InsertWalletAccount(idle, p) /\ catalog' = Len(accounts) + 1
           \/ EndSync(p, "failed") /\ UNCHANGED <<accounts, catalog>>
    BY DEF SwitchAccount, BindAssetCatalogWalletAccount
  <1>3. /\ idle \in Seq(AccountRows) /\ Len(idle) = Len(accounts) /\ DOMAIN idle = Accounts
        /\ \A a \in Accounts : idle[a].next = accounts[a].next
        /\ Accounts = 1 .. Len(accounts) /\ Len(accounts) \in Nat
    BY RowsType DEF TypeInv, TableInv, TableType, Accounts
  <1> HIDE DEF idle
  <1>4. CASE UNCHANGED <<accounts, catalog>>
    <2>1. AccountsKept
      BY <1>2, <1>4, SameAccountsKept DEF tables
    <2> QED
      BY <1>2, <1>4, <2>1 DEF idle
  <1>5. CASE /\ Active \subseteq seen[p] /\ c # NULL /\ EndSync(p, "synced")
             /\ accounts' = UpsertWalletAccountHash(idle, c, p) /\ catalog' = c
    <2>1. c \in DOMAIN idle
      BY <1>1, <1>3, <1>5
    <2> DEFINE rows == UpsertWalletAccountHash(idle, c, p)
    <2>3. /\ rows \in Seq(AccountRows) /\ DOMAIN rows = DOMAIN idle
          /\ rows[c] = [hash |-> Primary[p], next |-> idle[c].next, active |-> TRUE]
          /\ \A a \in DOMAIN idle \ {c} : rows[a] = idle[a]
      BY <1>3, <2>1, UpsertType
    <2> HIDE DEF rows
    <2>4. accounts' = rows
      BY <1>5 DEF rows
    <2>2. /\ accounts' \in Seq(AccountRows) /\ DOMAIN accounts' = Accounts
          /\ accounts'[c].next = idle[c].next
          /\ \A a \in Accounts \ {c} : accounts'[a] = idle[a]
      BY <1>3, <2>3, <2>4
    <2>5. AccountsKept
      BY <1>2, <1>3, <1>5, <2>1, <2>2 DEF AccountsKept, Accounts
    <2> QED
      BY <1>2, <1>3, <1>5, <2>1, <2>5 DEF idle
  <1>6. CASE /\ Active \subseteq seen[p] /\ EndSync(p, "synced")
             /\ accounts' = InsertWalletAccount(idle, p) /\ catalog' = Len(accounts) + 1
    <2> DEFINE rows == InsertWalletAccount(idle, p)
    <2>3. /\ rows \in Seq(AccountRows) /\ DOMAIN rows = 1 .. Len(idle) + 1
          /\ rows[Len(idle) + 1] = [hash |-> Primary[p], next |-> 0, active |-> TRUE]
          /\ \A a \in DOMAIN idle : rows[a] = idle[a]
      BY <1>3, InsertType
    <2> HIDE DEF rows
    <2>4. accounts' = rows
      BY <1>6 DEF rows
    <2>1. /\ accounts' \in Seq(AccountRows) /\ DOMAIN accounts' = 1 .. Len(accounts) + 1
          /\ accounts'[Len(accounts) + 1].next = 0
          /\ \A a \in Accounts : accounts'[a] = idle[a]
      BY <1>3, <2>3, <2>4
    <2>2. AccountsKept
      <3>1. Accounts \subseteq Accounts' /\ Accounts' \ Accounts = {Len(accounts) + 1}
        BY <1>3, <2>1 DEF Accounts
      <3>2. catalog' \in Accounts'
        BY <1>3, <1>6, <2>1 DEF Accounts
      <3> QED
        BY <1>2, <1>3, <2>1, <3>1, <3>2 DEF AccountsKept
    <2> QED
      BY <1>2, <1>6, <2>2 DEF idle
  <1> QED
    BY <1>2, <1>4, <1>5, <1>6

(* The accounts after the active one was locked.                           *)
LEMMA LockActiveKeeps ==
    ASSUME TypeInv, NEW p \in Procs, LockActive(p)
    PROVE  /\ AccountsKept /\ UNCHANGED <<aborts, bootVars>>
           /\ \/ /\ EndSync(p, "synced")
                 /\ \E a \in Accounts :
                       /\ a \in Active /\ catalog' = a
                       /\ accounts' = UpsertWalletAccountHash(accounts, a, p)
              \/ /\ UNCHANGED <<accounts, catalog, chosen>>
                 /\ locks' = [locks EXCEPT ![p] = seen[p] \cap Active]
                 /\ at' = [at EXCEPT ![p] = "historical"]
                 /\ seen' = [seen EXCEPT ![p] = {}]
  <1>1. UNCHANGED <<requests, records, callVars, aborts, bootVars>>
    BY DEF LockActive
  <1>2. CASE \E a \in seen[p] \cap Active :
               /\ accounts' = UpsertWalletAccountHash(accounts, a, p)
               /\ BindAssetCatalogWalletAccount(a)
               /\ EndSync(p, "synced")
    <2>1. PICK a \in Accounts : /\ a \in Active /\ catalog' = a /\ EndSync(p, "synced")
                               /\ accounts' = UpsertWalletAccountHash(accounts, a, p)
      BY <1>2 DEF BindAssetCatalogWalletAccount, Active
    <2> DEFINE rows == UpsertWalletAccountHash(accounts, a, p)
    <2>2. accounts \in Seq(AccountRows) /\ a \in DOMAIN accounts
      BY DEF TypeInv, TableInv, TableType, Accounts
    <2>3. /\ rows \in Seq(AccountRows) /\ DOMAIN rows = DOMAIN accounts
          /\ rows[a] = [hash |-> Primary[p], next |-> accounts[a].next, active |-> TRUE]
          /\ \A b \in DOMAIN accounts \ {a} : rows[b] = accounts[b]
      BY <2>2, UpsertType
    <2> HIDE DEF rows
    <2>4. accounts' = rows
      BY <2>1 DEF rows
    <2>5. AccountsKept
      BY <1>1, <2>1, <2>3, <2>4 DEF AccountsKept, Accounts
    <2> QED
      BY <1>1, <2>1, <2>5
  <1>3. CASE /\ locks' = [locks EXCEPT ![p] = seen[p] \cap Active]
             /\ at' = [at EXCEPT ![p] = "historical"]
             /\ seen' = [seen EXCEPT ![p] = {}]
             /\ UNCHANGED <<accounts, catalog, chosen>>
    BY <1>1, <1>3, SameAccountsKept DEF tables
  <1> QED
    BY <1>2, <1>3 DEF LockActive

(* Steps of a start-up that write nothing to the tables.                   *)
LEMMA SyncMoves ==
    ASSUME TypeInv, NEW p \in Procs, UNCHANGED <<tables, callVars>>,
           NEW to \in Stages, at' = [at EXCEPT ![p] = to],
           NEW s \in SUBSET Accounts, seen' = [seen EXCEPT ![p] = s],
           NEW c \in Accounts \cup {NULL}, chosen' = [chosen EXCEPT ![p] = c],
           NEW l \in SUBSET Accounts, locks' = [locks EXCEPT ![p] = l], BootInv'
    PROVE  TypeInv'
  <1>1. TableInv' /\ CallInv' /\ Accounts' = Accounts
    BY SameTables, SameAccountsKept, KeptTables
  <1>2. SyncInv'
    BY <1>1 DEF TypeInv, SyncInv
  <1>3. LockInv'
    <2>1. locks' \in [Calls \cup Procs -> SUBSET Accounts']
      BY <1>1 DEF TypeInv, LockInv
    <2>2. \A d \in Calls : locks'[d] = locks[d]
      BY AllocationAssumption DEF TypeInv, LockInv
    <2>3. UNCHANGED <<step, wallet>>
      BY DEF callVars
    <2> QED
      BY <2>1, <2>2, <2>3 DEF TypeInv, LockInv
  <1> QED
    BY <1>1, <1>2, <1>3 DEF TypeInv

LEMMA EndSyncMoves ==
    ASSUME TypeInv, NEW p \in Procs, NEW how \in Stages, EndSync(p, how),
           UNCHANGED <<tables, callVars>>, BootInv'
    PROVE  TypeInv'
  BY SameAccountsKept, EndSyncType DEF TypeInv

LEMMA SyncTypeInv ==
    ASSUME TypeInv, NEW p \in Procs, CheckReadiness(p) \/ SyncStep(p) \/ CutSync(p)
    PROVE  TypeInv'
  <1> USE DEF Stages
  <1>1. /\ at = [at EXCEPT ![p] = at[p]] /\ seen = [seen EXCEPT ![p] = seen[p]]
        /\ chosen = [chosen EXCEPT ![p] = chosen[p]] /\ locks = [locks EXCEPT ![p] = locks[p]]
        /\ at[p] \in Stages /\ seen[p] \in SUBSET Accounts /\ chosen[p] \in Accounts \cup {NULL}
        /\ locks[p] \in SUBSET Accounts
    BY DEF TypeInv, SyncInv, LockInv
  <1>2. UNCHANGED <<aborts, bootVars>> => BootInv'
    BY DEF TypeInv, BootInv, bootVars
  <1>3. CASE CheckReadiness(p)
    <2>1. BootInv'
      BY <1>3 DEF CheckReadiness, TypeInv, BootInv, bootVars
    <2> QED
      BY <1>3, <2>1, EndSyncMoves DEF CheckReadiness
  <1>4. CASE RunMigrations(p)
    <2>1. BootInv' /\ UNCHANGED <<tables, callVars>>
      BY <1>4 DEF RunMigrations, TypeInv, BootInv
    <2>2. \E how \in Stages : EndSync(p, how)
      BY <1>4 DEF RunMigrations, TypeInv, BootInv
    <2>3. PICK how \in Stages : EndSync(p, how)
      BY <2>2
    <2> QED
      BY <2>1, <2>3, EndSyncMoves
  <1>5. CASE MigrationsApplied(p)
    BY <1>5, EndSyncMoves DEF MigrationsApplied, TypeInv, BootInv
  <1>6. CASE PreflightFails(p)
    BY <1>2, <1>6, EndSyncMoves DEF PreflightFails
  <1>7. CASE SeekActive(p)
    <2>1. /\ UNCHANGED <<tables, callVars>> /\ BootInv' /\ Active \in SUBSET Accounts
          /\ at' = [at EXCEPT ![p] = "active"] /\ seen' = [seen EXCEPT ![p] = Active]
          /\ chosen' = [chosen EXCEPT ![p] = chosen[p]] /\ locks' = [locks EXCEPT ![p] = locks[p]]
      BY <1>1, <1>2, <1>7 DEF SeekActive, Active
    <2> QED
      BY <1>1, <2>1, SyncMoves
  <1>8. CASE LockActive(p)
    <2>1. AccountsKept /\ BootInv'
      BY <1>2, <1>8, LockActiveKeeps
    <2>2. CASE EndSync(p, "synced")
      BY <2>1, <2>2, EndSyncType DEF TypeInv
    <2>3. CASE ~EndSync(p, "synced")
      <3>1. /\ UNCHANGED <<tables, callVars>> /\ {seen[p] \cap Active, {}} \subseteq SUBSET Accounts
            /\ at' = [at EXCEPT ![p] = "historical"] /\ seen' = [seen EXCEPT ![p] = {}]
            /\ chosen' = [chosen EXCEPT ![p] = chosen[p]]
            /\ locks' = [locks EXCEPT ![p] = seen[p] \cap Active]
        BY <1>1, <1>8, <2>3, LockActiveKeeps DEF AccountsKept, tables
      <3> QED
        BY <1>1, <2>1, <3>1, SyncMoves
    <2> QED
      BY <2>2, <2>3
  <1>9. CASE SeekHistorical(p)
    <2> DEFINE to == IF Historical(p) = {} THEN "victims" ELSE "candidates"
    <2>1. /\ UNCHANGED <<tables, callVars>> /\ BootInv' /\ Historical(p) \in SUBSET Accounts
          /\ at' = [at EXCEPT ![p] = to] /\ to \in Stages /\ seen' = [seen EXCEPT ![p] = Historical(p)]
          /\ chosen' = [chosen EXCEPT ![p] = chosen[p]] /\ locks' = [locks EXCEPT ![p] = locks[p]]
      BY <1>1, <1>2, <1>9 DEF SeekHistorical, Historical
    <2> HIDE DEF to
    <2> QED
      BY <1>1, <2>1, SyncMoves
  <1>10. CASE LockHistorical(p)
    <2>1. UNCHANGED <<tables, callVars>> /\ BootInv'
      BY <1>2, <1>10 DEF LockHistorical
    <2>2. PICK a \in Accounts :
            IF a \in Historical(p)
            THEN /\ chosen' = [chosen EXCEPT ![p] = a]
                 /\ locks' = [locks EXCEPT ![p] = locks[p] \cup {a}]
                 /\ at' = [at EXCEPT ![p] = "victims"]
                 /\ seen' = [seen EXCEPT ![p] = {}]
            ELSE /\ seen' = [seen EXCEPT ![p] = seen[p] \ {a}]
                 /\ at' = [at EXCEPT ![p] = IF seen[p] = {a} THEN "victims" ELSE "candidates"]
                 /\ UNCHANGED <<chosen, locks>>
      BY <1>1, <1>10 DEF LockHistorical, Candidates
    <2>3. CASE a \in Historical(p)
      <3>1. locks[p] \cup {a} \in SUBSET Accounts /\ {} \in SUBSET Accounts
        BY <1>1
      <3> QED
        BY <2>1, <2>2, <2>3, <3>1, SyncMoves
    <2>4. CASE a \notin Historical(p)
      <3> DEFINE to == IF seen[p] = {a} THEN "victims" ELSE "candidates"
      <3>1. /\ to \in Stages /\ at' = [at EXCEPT ![p] = to] /\ seen[p] \ {a} \in SUBSET Accounts
            /\ chosen' = [chosen EXCEPT ![p] = chosen[p]] /\ locks' = [locks EXCEPT ![p] = locks[p]]
        BY <1>1, <2>2, <2>4
      <3> HIDE DEF to
      <3> QED
        BY <1>1, <2>1, <2>2, <2>4, <3>1, SyncMoves
    <2> QED
      BY <2>3, <2>4
  <1>11. CASE SeekVictims(p)
    <2>1. /\ UNCHANGED <<tables, callVars>> /\ BootInv' /\ Active \in SUBSET Accounts
          /\ at' = [at EXCEPT ![p] = "switch"] /\ seen' = [seen EXCEPT ![p] = Active]
          /\ chosen' = [chosen EXCEPT ![p] = chosen[p]] /\ locks' = [locks EXCEPT ![p] = locks[p]]
      BY <1>1, <1>2, <1>11 DEF SeekVictims, Active
    <2> QED
      BY <1>1, <2>1, SyncMoves
  <1>12. CASE SwitchAccount(p)
    <2>1. AccountsKept /\ BootInv' /\ \E how \in Stages : EndSync(p, how)
      BY <1>2, <1>12, SwitchKeeps
    <2> QED
      BY <2>1, EndSyncType DEF TypeInv
  <1>13. CASE ValidateAssetCatalogIntegrity(p)
    <2> DEFINE to == IF ValidCatalogRow THEN "up" ELSE "failed"
    <2>1. /\ UNCHANGED <<tables, callVars>> /\ BootInv'
          /\ at' = [at EXCEPT ![p] = to] /\ to \in Stages /\ seen' = [seen EXCEPT ![p] = seen[p]]
          /\ chosen' = [chosen EXCEPT ![p] = chosen[p]] /\ locks' = [locks EXCEPT ![p] = locks[p]]
      BY <1>1, <1>2, <1>13 DEF ValidateAssetCatalogIntegrity
    <2> HIDE DEF to
    <2> QED
      BY <1>1, <2>1, SyncMoves
  <1>14. CASE CutSync(p)
    <2>1. BootInv'
      BY <1>14 DEF CutSync, TypeInv, BootInv
    <2> QED
      BY <1>14, <2>1, EndSyncMoves DEF CutSync
  <1>15. CASE DeadlockDetected(p)
    BY <1>2, <1>15, EndSyncMoves DEF DeadlockDetected
  <1> QED
    BY <1>3, <1>4, <1>5, <1>6, <1>7, <1>8, <1>9, <1>10, <1>11, <1>12, <1>13, <1>14, <1>15 DEF SyncStep

LEMMA StutterTypeInv == TypeInv /\ UNCHANGED vars => TypeInv'
  <1> SUFFICES ASSUME TypeInv, UNCHANGED vars PROVE TypeInv'
    OBVIOUS
  <1>1. UNCHANGED <<tables, syncVars, step, wallet, answer, locks, aborts, schema, verified>>
    BY DEF vars, callVars, bootVars
  <1>2. TableInv' /\ SyncInv' /\ Accounts' = Accounts
    BY <1>1, SameTables, SameSync
  <1>3. CallInv' /\ LockInv' /\ BootInv'
    BY <1>1, <1>2 DEF TypeInv, CallInv, LockInv, BootInv
  <1> QED
    BY <1>2, <1>3 DEF TypeInv

LEMMA NextTypeInv == TypeInv /\ [Next]_vars => TypeInv'
  <1> SUFFICES ASSUME TypeInv, [Next]_vars PROVE TypeInv'
    OBVIOUS
  <1>1. ASSUME NEW c \in Calls, LoadAssetCatalogEntry(c) \/ CallStep(c) \/ CutCall(c) PROVE TypeInv'
    BY <1>1, CallTypeInv, BumpTypeInv DEF CallStep
  <1>2. ASSUME NEW p \in Procs, CheckReadiness(p) \/ SyncStep(p) \/ CutSync(p) PROVE TypeInv'
    BY <1>2, SyncTypeInv
  <1> QED
    BY <1>1, <1>2, StutterTypeInv DEF Next

LEMMA AlwaysTypeInv == Spec => []TypeInv
  BY InitTypeInv, NextTypeInv, PTL DEF Spec

(* Every variable keeps its type, and a call holds the lock of its wallet  *)
(* account's row exactly while it works with the index it read there       *)
(* (LockWalletAccountForUpdate to BumpWalletNextIndex).                    *)
THEOREM AllocationTypeCorrect == Spec => []TypeOK
  BY AlwaysTypeInv, TypeInvType, PTL

-----------------------------------------------------------------------------
(* What a step can disturb                                                 *)

LEMMA CallFrame ==
    ASSUME NEW c \in Calls, LoadAssetCatalogEntry(c) \/ CallStep(c) \/ CutCall(c)
    PROVE  UNCHANGED <<catalog, syncVars, bootVars>> /\ (UNCHANGED tables \/ BumpWalletNextIndex(c))
  BY DEF CallStep, LoadAssetCatalogEntry, FindIdempotencyRecord, LockWalletAccountForUpdate, InsertPaymentRequest,
         InsertIdempotencyRecord, LoadReplayResource, BumpWalletNextIndex, CutCall, tables

LEMMA SyncFrame ==
    ASSUME NEW p \in Procs, CheckReadiness(p) \/ SyncStep(p) \/ CutSync(p)
    PROVE  /\ UNCHANGED <<requests, records, callVars, verified>>
           /\ UNCHANGED <<accounts, catalog>> \/ LockActive(p) \/ SwitchAccount(p)
  BY DEF SyncStep, CheckReadiness, RunMigrations, MigrationsApplied, PreflightFails, SeekActive, SeekHistorical,
         LockHistorical, SeekVictims, LockActive, SwitchAccount, ValidateAssetCatalogIntegrity, DeadlockDetected,
         CutSync, tables, bootVars

(* The rows after a start-up changed them: a hash is an old one or that of *)
(* the start-up, and it leaves the account it binds active, which was the  *)
(* active one or replaces all that were.                                   *)
LEMMA SyncRows ==
    ASSUME TypeInv, NEW p \in Procs, LockActive(p) \/ SwitchAccount(p)
    PROVE  /\ AccountsKept
           /\ \A a \in Accounts' :
                  \/ accounts'[a].hash = Primary[p]
                  \/ a \in Accounts /\ accounts'[a].hash = accounts[a].hash
           /\ \/ UNCHANGED <<accounts, catalog>>
              \/ Active' = Active /\ catalog' \in Active
              \/ Active \subseteq seen[p] /\ SwitchAccount(p) /\ Active' = {catalog'}
  <1> DEFINE idle == DeactivateAllActiveWallets(p)
  <1>1. accounts \in Seq(AccountRows) /\ Accounts = DOMAIN accounts /\ Accounts = 1 .. Len(accounts) /\ Len(accounts) \in Nat
    BY DEF TypeInv, TableInv, TableType, Accounts
  <1>2. /\ idle \in Seq(AccountRows) /\ Len(idle) = Len(accounts) /\ DOMAIN idle = Accounts
        /\ \A a \in Accounts : idle[a].hash = accounts[a].hash /\ (idle[a].active <=> (accounts[a].active /\ a \notin seen[p]))
    BY RowsType
  <1> HIDE DEF idle
  <1>3. AccountsKept
    BY LockActiveKeeps, SwitchKeeps
  <1>4. CASE UNCHANGED <<accounts, catalog>>
    BY <1>3, <1>4 DEF Accounts
  <1>5. ASSUME NEW a \in Accounts, a \in Active, catalog' = a, accounts' = UpsertWalletAccountHash(accounts, a, p)
        PROVE  /\ \A b \in Accounts' :
                      \/ accounts'[b].hash = Primary[p]
                      \/ b \in Accounts /\ accounts'[b].hash = accounts[b].hash
               /\ Active' = Active /\ catalog' \in Active
    <2> DEFINE rows == UpsertWalletAccountHash(accounts, a, p)
    <2>1. /\ DOMAIN rows = DOMAIN accounts /\ \A b \in DOMAIN accounts \ {a} : rows[b] = accounts[b]
          /\ rows[a] = [hash |-> Primary[p], next |-> accounts[a].next, active |-> TRUE]
      BY <1>1, UpsertType
    <2> HIDE DEF rows
    <2>2. accounts' = rows
      BY <1>5 DEF rows
    <2>3. rows[a].hash = Primary[p] /\ rows[a].active
      BY <2>1
    <2> QED
      BY <1>5, <2>1, <2>2, <2>3 DEF Active, Accounts
  <1>6. ASSUME NEW c \in Accounts, Active \subseteq seen[p], catalog' = c, accounts' = UpsertWalletAccountHash(idle, c, p)
        PROVE  /\ \A b \in Accounts' :
                      \/ accounts'[b].hash = Primary[p]
                      \/ b \in Accounts /\ accounts'[b].hash = accounts[b].hash
               /\ Active' = {catalog'}
    <2> DEFINE rows == UpsertWalletAccountHash(idle, c, p)
    <2>1. /\ DOMAIN rows = DOMAIN idle /\ \A b \in DOMAIN idle \ {c} : rows[b] = idle[b]
          /\ rows[c] = [hash |-> Primary[p], next |-> idle[c].next, active |-> TRUE]
      BY <1>2, UpsertType
    <2> HIDE DEF rows
    <2>2. accounts' = rows
      BY <1>6 DEF rows
    <2>3. rows[c].hash = Primary[p] /\ rows[c].active
      BY <2>1
    <2>4. \A b \in Accounts \ {c} : ~rows[b].active /\ rows[b].hash = accounts[b].hash
      BY <1>2, <1>6, <2>1 DEF Active
    <2>5. Accounts' = Accounts
      BY <1>2, <2>1, <2>2 DEF Accounts
    <2> QED
      BY <1>6, <2>2, <2>3, <2>4, <2>5 DEF Active
  <1>7. ASSUME Active \subseteq seen[p], catalog' = Len(accounts) + 1, accounts' = InsertWalletAccount(idle, p)
        PROVE  /\ \A b \in Accounts' :
                      \/ accounts'[b].hash = Primary[p]
                      \/ b \in Accounts /\ accounts'[b].hash = accounts[b].hash
               /\ Active' = {catalog'}
    <2> DEFINE rows == InsertWalletAccount(idle, p)
               c == Len(accounts) + 1
    <2>1. /\ DOMAIN rows = 1 .. Len(idle) + 1 /\ \A b \in DOMAIN idle : rows[b] = idle[b]
          /\ rows[Len(idle) + 1] = [hash |-> Primary[p], next |-> 0, active |-> TRUE]
      BY <1>2, InsertType
    <2> HIDE DEF rows
    <2>2. accounts' = rows
      BY <1>7 DEF rows
    <2>3. rows[c].hash = Primary[p] /\ rows[c].active
      BY <1>2, <2>1
    <2>4. \A b \in Accounts : ~rows[b].active /\ rows[b].hash = accounts[b].hash
      BY <1>2, <1>7, <2>1 DEF Active
    <2>5. Accounts' = Accounts \cup {c}
      BY <1>1, <1>2, <2>1, <2>2 DEF Accounts
    <2> QED
      BY <1>7, <2>2, <2>3, <2>4, <2>5 DEF Active
  <1>8. CASE LockActive(p)
    BY <1>3, <1>4, <1>5, <1>8, LockActiveKeeps
  <1>9. CASE SwitchAccount(p)
    BY <1>3, <1>4, <1>6, <1>7, <1>9, SwitchKeeps DEF idle
  <1> QED
    BY <1>8, <1>9

-----------------------------------------------------------------------------
(* Invariants of the start-up                                              *)

(* Starting up processes bind the catalog to the one active account:       *)
(* SwitchAccount replaces every account that is active or gives up,        *)
(* LockActive only ever keeps the account that is.                         *)
THEOREM CatalogFollowsActive == Spec => []CatalogBoundToActive
  <1>1. Init => CatalogBoundToActive
    BY DEF Init, CatalogBoundToActive, Active, Accounts
  <1>2. TypeInv /\ CatalogBoundToActive /\ [Next]_vars => CatalogBoundToActive'
    <2> SUFFICES ASSUME TypeInv, CatalogBoundToActive, [Next]_vars PROVE CatalogBoundToActive'
      OBVIOUS
    <2>1. CASE UNCHANGED <<accounts, catalog>>
      BY <2>1 DEF CatalogBoundToActive, Active, Accounts
    <2>2. ASSUME NEW c \in Calls, BumpWalletNextIndex(c) PROVE CatalogBoundToActive'
      <3>1. UNCHANGED catalog /\ (UNCHANGED accounts \/ accounts' = [accounts EXCEPT ![wallet[c].account].next = @ + 1])
        BY <2>2 DEF BumpWalletNextIndex
      <3>2. \A a \in Accounts : accounts[a] \in AccountRows
        BY DEF TypeInv, TableInv, TableType, Accounts
      <3>3. Accounts' = Accounts /\ \A a \in Accounts : accounts'[a].active = accounts[a].active
        BY <3>1, <3>2 DEF Accounts, AccountRows
      <3> QED
        BY <3>1, <3>3 DEF CatalogBoundToActive, Active
    <2>3. ASSUME NEW p \in Procs, LockActive(p) \/ SwitchAccount(p) PROVE CatalogBoundToActive'
      BY <2>1, <2>3, SyncRows DEF CatalogBoundToActive
    <2> QED
      BY <2>1, <2>2, <2>3, CallFrame, SyncFrame DEF Next, vars, tables
  <1> QED
    BY <1>1, <1>2, AlwaysTypeInv, PTL DEF Spec

(* One process at a time migrates, on a schema marked dirty, so a process  *)
(* that finds it current finds every migration applied.                    *)
MigrationInv ==
    /\ \A p \in Procs : at[p] = "migrating" => schema = "dirty"
    /\ \A p, q \in Procs : at[p] = "migrating" /\ at[q] = "migrating" => p = q
    /\ ServesMigrated

THEOREM MigratedBeforeUse == Spec => []ServesMigrated
  <1>1. Init => MigrationInv
    BY DEF Init, MigrationInv, ServesMigrated
  <1>2. TypeInv /\ MigrationInv /\ [Next]_vars => MigrationInv'
    <2> SUFFICES ASSUME TypeInv, MigrationInv, [Next]_vars PROVE MigrationInv'
      OBVIOUS
    <2> USE DEF MigrationInv, ServesMigrated
    <2>1. at \in [Procs -> Stages]
      BY DEF TypeInv, SyncInv
    <2>2. CASE UNCHANGED <<at, schema>>
      BY <2>2
    <2>3. ASSUME NEW p \in Procs, CheckReadiness(p) \/ SyncStep(p) \/ CutSync(p) PROVE MigrationInv'
      <3>1. CASE RunMigrations(p)
        BY <2>1, <3>1 DEF RunMigrations, EndSync, TypeInv, BootInv
      <3>2. CASE MigrationsApplied(p)
        BY <2>1, <3>2 DEF MigrationsApplied, EndSync
      <3>3. CASE CutSync(p)
        BY <2>1, <3>3 DEF CutSync, EndSync
      <3>4. CASE CheckReadiness(p)
        BY <2>1, <3>4 DEF CheckReadiness, EndSync, bootVars
      <3>5. CASE SyncStep(p) /\ ~RunMigrations(p) /\ ~MigrationsApplied(p)
        <4>1. /\ UNCHANGED schema /\ at[p] \notin {"down", "ready", "migrating", "failed"}
              /\ \E to \in Stages \ {"migrating", "down", "ready"} : at' = [at EXCEPT ![p] = to]
          BY <2>1, <3>5 DEF SyncStep, PreflightFails, SeekActive, SeekHistorical, LockHistorical, SeekVictims, LockActive,
                            SwitchAccount, ValidateAssetCatalogIntegrity, DeadlockDetected, EndSync, bootVars, Stages
        <4> QED
          BY <2>1, <4>1
      <3> QED
        BY <2>3, <3>1, <3>2, <3>3, <3>4, <3>5
    <2> QED
      BY <2>2, <2>3, CallFrame DEF Next, vars, syncVars, bootVars
  <1>3. MigrationInv => ServesMigrated
    BY DEF MigrationInv
  <1> QED
    BY <1>1, <1>2, <1>3, AlwaysTypeInv, PTL DEF Spec

(* Whoever is past the preflight was verified: a start-up before it binds  *)
(* an account, an API process before it serves a call.                     *)
VerifiedInv ==
    /\ \A p \in Procs : at[p] \notin {"down", "ready", "migrating", "migrated", "failed"} => p \in verified
    /\ \A c \in Calls : step[c] # "new" => Server[c] \in verified
    /\ OnlyVerifiedKeys

THEOREM KeysVerified == Spec => []OnlyVerifiedKeys
  <1> DEFINE keys == {KeyMaterial[Primary[p]] : p \in verified}
  <1>1. Init => VerifiedInv
    BY AllocationAssumption DEF Init, VerifiedInv, OnlyVerifiedKeys, Accounts
  <1>2. TypeInv /\ VerifiedInv /\ [Next]_vars => VerifiedInv'
    <2> SUFFICES ASSUME TypeInv, VerifiedInv, [Next]_vars PROVE VerifiedInv'
      OBVIOUS
    <2>1. /\ at \in [Procs -> Stages] /\ step \in [Calls -> Steps]
          /\ \A a \in Accounts : accounts[a] \in AccountRows
      BY DEF TypeInv, SyncInv, CallInv, TableInv, TableType, Accounts
    <2>2. CASE UNCHANGED vars
      BY <2>2 DEF VerifiedInv, OnlyVerifiedKeys, Accounts, vars, tables, syncVars, callVars, bootVars
    <2>3. ASSUME NEW c \in Calls, LoadAssetCatalogEntry(c) \/ CallStep(c) \/ CutCall(c) PROVE VerifiedInv'
      <3>1. UNCHANGED <<at, verified>>
        BY <2>3, CallFrame DEF syncVars, bootVars
      <3>2. /\ Server[c] \in verified
            /\ \A d \in Calls \ {c} : step'[d] = step[d]
        <4>1. step[c] # "new" \/ at[Server[c]] = "up"
          BY <2>3 DEF LoadAssetCatalogEntry, CallStep, CutCall, FindIdempotencyRecord, LockWalletAccountForUpdate,
                      InsertPaymentRequest, InsertIdempotencyRecord, LoadReplayResource, BumpWalletNextIndex
        <4>2. Server[c] \in Procs
          BY AllocationAssumption
        <4>3. \A d \in Calls \ {c} : step'[d] = step[d]
          BY <2>1, <2>3 DEF LoadAssetCatalogEntry, CallStep, CutCall, FindIdempotencyRecord, Replay, Reply,
                      LockWalletAccountForUpdate, InsertPaymentRequest, InsertIdempotencyRecord, LoadReplayResource,
                      BumpWalletNextIndex
        <4> QED
          BY <4>1, <4>2, <4>3 DEF VerifiedInv
      <3>3. OnlyVerifiedKeys'
        <4>1. CASE UNCHANGED tables
          BY <3>1, <4>1 DEF VerifiedInv, OnlyVerifiedKeys, tables, Accounts
        <4>2. CASE BumpWalletNextIndex(c)
          <5>1. /\ UNCHANGED accounts \/ accounts' = [accounts EXCEPT ![wallet[c].account].next = @ + 1]
                /\ requests' \subseteq requests \cup {Row(c)}
            BY <4>2 DEF BumpWalletNextIndex
          <5>2. Accounts' = Accounts /\ \A a \in Accounts : accounts'[a].hash = accounts[a].hash
            BY <2>1, <5>1 DEF Accounts, AccountRows
          <5>3. Row(c).material \in keys
            BY <3>2 DEF Row
          <5> QED
            BY <3>1, <5>1, <5>2, <5>3 DEF VerifiedInv, OnlyVerifiedKeys
        <4> QED
          BY <2>3, <4>1, <4>2, CallFrame
      <3> QED
        BY <3>1, <3>2, <3>3 DEF VerifiedInv
    <2>4. ASSUME NEW p \in Procs, CheckReadiness(p) \/ SyncStep(p) \/ CutSync(p) PROVE VerifiedInv'
      <3>1. UNCHANGED <<requests, step, verified>>
        BY <2>4, SyncFrame DEF callVars
      <3>2. \A q \in Procs : at'[q] \notin {"down", "ready", "migrating", "migrated", "failed"} => q \in verified
        <4>1. \/ \E how \in {"ready", "failed", "migrating", "migrated"} : at' = [at EXCEPT ![p] = how]
              \/ (p \in verified /\ \E how \in Stages : at' = [at EXCEPT ![p] = how])
              \/ (at[p] \notin {"down", "ready", "migrating", "migrated", "failed"} /\ \E how \in Stages : at' = [at EXCEPT ![p] = how])
          <5>1. CASE \/ CheckReadiness(p) \/ RunMigrations(p) \/ MigrationsApplied(p) \/ PreflightFails(p)
                     \/ DeadlockDetected(p) \/ CutSync(p)
            BY <5>1 DEF CheckReadiness, RunMigrations, MigrationsApplied, PreflightFails, DeadlockDetected, CutSync,
                        EndSync, TypeInv, BootInv
          <5>2. CASE SeekActive(p)
            BY <5>2 DEF SeekActive, VerifyIndexZeroPreflight, Stages
          <5>3. CASE SeekHistorical(p) \/ LockHistorical(p) \/ SeekVictims(p) \/ ValidateAssetCatalogIntegrity(p)
            BY <5>3 DEF SeekHistorical, LockHistorical, SeekVictims, ValidateAssetCatalogIntegrity, Stages
          <5>4. CASE LockActive(p) \/ SwitchAccount(p)
            BY <5>4 DEF LockActive, SwitchAccount, EndSync, Stages
          <5> QED
            BY <2>4, <5>1, <5>2, <5>3, <5>4 DEF SyncStep
        <4> QED
          BY <2>1, <4>1 DEF VerifiedInv
      <3>3. OnlyVerifiedKeys'
        <4>1. CASE UNCHANGED <<accounts, catalog>>
          BY <3>1, <4>1 DEF VerifiedInv, OnlyVerifiedKeys, Accounts
        <4>2. CASE LockActive(p) \/ SwitchAccount(p)
          <5>1. p \in verified
            BY <4>2 DEF VerifiedInv, LockActive, SwitchAccount
          <5>2. \A a \in Accounts' :
                    \/ accounts'[a].hash = Primary[p]
                    \/ a \in Accounts /\ accounts'[a].hash = accounts[a].hash
            BY <4>2, SyncRows
          <5>3. KeyMaterial[Primary[p]] \in keys /\ UNCHANGED keys
            BY <3>1, <5>1
          <5> QED
            BY <3>1, <5>2, <5>3 DEF VerifiedInv, OnlyVerifiedKeys
        <4> QED
          BY <2>4, <4>1, <4>2, SyncFrame
      <3> QED
        BY <3>1, <3>2, <3>3 DEF VerifiedInv
    <2> QED
      BY <2>2, <2>3, <2>4 DEF Next
  <1>3. VerifiedInv => OnlyVerifiedKeys
    BY DEF VerifiedInv
  <1> QED
    BY <1>1, <1>2, <1>3, AlwaysTypeInv, PTL DEF Spec

-----------------------------------------------------------------------------
(* Invariants of the calls                                                 *)

(* What the last statement of a call and its commit write.                 *)
LEMMA BumpWrites ==
    ASSUME TypeInv, NEW c \in Calls, BumpWalletNextIndex(c)
    PROVE  /\ step[c] = "commit" /\ step' = [step EXCEPT ![c] = "done"] /\ UNCHANGED wallet
           /\ Accounts' = Accounts /\ wallet[c].account \in Accounts /\ Active' = Active
           /\ Row(c).id = c /\ Row(c).account = wallet[c].account /\ Row(c).index = wallet[c].index
           /\ \/ /\ UNCHANGED <<accounts, requests, records>>
                 /\ answer' = [answer EXCEPT ![c] = [kind |-> "error", resource |-> NULL]]
              \/ /\ accounts[wallet[c].account].next = wallet[c].index
                 /\ accounts'[wallet[c].account].next = wallet[c].index + 1
                 /\ \A a \in Accounts \ {wallet[c].account} : accounts'[a] = accounts[a]
                 /\ requests' = requests \cup {Row(c)}
                 /\ records' = [records EXCEPT ![Key[c]] = [payload |-> Payload[c], resource |-> c]]
                 /\ answer' = [answer EXCEPT ![c] = [kind |-> "created", resource |-> c]]
  <1> DEFINE w == wallet[c].account
  <1>1. /\ step[c] = "commit" /\ step' = [step EXCEPT ![c] = "done"] /\ UNCHANGED wallet /\ w \in Accounts
        /\ Row(c).id = c /\ Row(c).account = w /\ Row(c).index = wallet[c].index
    BY DEF BumpWalletNextIndex, Reply, Row, TypeInv, CallInv
  <1>2. \A a \in Accounts : accounts[a] \in AccountRows
    BY DEF TypeInv, TableInv, TableType, Accounts
  <1>3. CASE accounts[w].next # wallet[c].index
    BY <1>1, <1>3 DEF BumpWalletNextIndex, Reply, Accounts, Active
  <1>4. CASE accounts[w].next = wallet[c].index
    <2>1. /\ accounts' = [accounts EXCEPT ![w].next = @ + 1]
          /\ requests' = requests \cup {Row(c)}
          /\ records' = [records EXCEPT ![Key[c]] = [payload |-> Payload[c], resource |-> c]]
          /\ answer' = [answer EXCEPT ![c] = [kind |-> "created", resource |-> c]]
      BY <1>4 DEF BumpWalletNextIndex, Reply
    <2>2. /\ Accounts' = Accounts
          /\ accounts'[w].next = accounts[w].next + 1
          /\ \A a \in Accounts : accounts'[a].active = accounts[a].active
          /\ \A a \in Accounts \ {w} : accounts'[a] = accounts[a]
      BY <1>1, <1>2, <2>1 DEF Accounts, AccountRows
    <2> QED
      BY <1>1, <1>4, <2>1, <2>2 DEF Active
  <1> QED
    BY <1>3, <1>4

(* The guard of BumpWalletNextIndex gives every index away once, in order. *)
THEOREM IndexesGivenOnce == Spec => []IndexesDense
  <1>1. Init => IndexesDense
    <2> SUFFICES ASSUME Init PROVE IndexesDense
      OBVIOUS
    <2>1. Accounts = {1} /\ accounts[1].next = 0 /\ requests = {}
      BY DEF Init, Accounts
    <2>2. Given(1) = {}
      BY <2>1 DEF Given
    <2>3. 0 .. -1 = {}
      OBVIOUS
    <2> QED
      BY <2>1, <2>2, <2>3, FS_EmptySet DEF IndexesDense
  <1>2. TypeInv /\ IndexesDense /\ [Next]_vars => IndexesDense'
    <2> SUFFICES ASSUME TypeInv, IndexesDense, [Next]_vars PROVE IndexesDense'
      OBVIOUS
    <2>1. CASE UNCHANGED <<accounts, requests>>
      BY <2>1 DEF IndexesDense, Given, Accounts
    <2>2. ASSUME NEW c \in Calls, BumpWalletNextIndex(c) PROVE IndexesDense'
      <3>0. PICK w \in Accounts, n \in Nat : w = wallet[c].account /\ n = wallet[c].index
        BY <2>2, BumpWrites DEF TypeInv, CallInv
      <3>1. CASE UNCHANGED <<accounts, requests>>
        BY <2>1, <3>1
      <3>2. CASE /\ accounts[w].next = n /\ accounts'[w].next = n + 1
                 /\ \A a \in Accounts \ {w} : accounts'[a] = accounts[a]
                 /\ requests' = requests \cup {Row(c)}
        <4>1. n \in Nat /\ w \in Accounts /\ Accounts' = Accounts /\ Row(c).account = w /\ Row(c).index = n
          BY <2>2, <3>0, BumpWrites
        <4>2. {q.index : q \in Given(w)} = 0 .. n - 1 /\ Cardinality(Given(w)) = n
          BY <3>2, <4>1 DEF IndexesDense
        <4>3. Row(c) \notin Given(w)
          BY <4>1, <4>2
        <4>4. Given(w)' = Given(w) \cup {Row(c)}
          BY <3>2, <4>1 DEF Given
        <4>5. IsFiniteSet(Given(w))
          <5>1. Given(w) \subseteq requests /\ IsFiniteSet(requests)
            BY DEF Given, TypeInv, TableInv
          <5> QED
            BY <5>1, FS_Subset
        <4>6. Cardinality(Given(w)') = n + 1
          BY <4>2, <4>3, <4>4, <4>5, FS_AddElement
        <4>7. {q.index : q \in Given(w)'} = 0 .. n
          <5>1. {q.index : q \in Given(w)'} = {q.index : q \in Given(w)} \cup {n}
            BY <4>1, <4>4
          <5>2. (0 .. n - 1) \cup {n} = 0 .. n
            BY <4>1
          <5> QED
            BY <4>2, <5>1, <5>2
        <4>8. ASSUME NEW a \in Accounts, a # w
              PROVE  /\ {q.index : q \in Given(a)'} = 0 .. accounts'[a].next - 1
                     /\ Cardinality(Given(a)') = accounts'[a].next
          <5>1. Given(a)' = Given(a)
            BY <3>2, <4>1, <4>8 DEF Given
          <5> QED
            BY <3>2, <4>8, <5>1 DEF IndexesDense
        <4>9. 0 .. n = 0 .. accounts'[w].next - 1
          BY <3>2, <4>1
        <4> QED
          BY <3>2, <4>1, <4>6, <4>7, <4>8, <4>9 DEF IndexesDense
      <3> QED
        BY <2>2, <3>0, <3>1, <3>2, BumpWrites
    <2>3. ASSUME NEW p \in Procs, LockActive(p) \/ SwitchAccount(p) PROVE IndexesDense'
      <3>1. /\ \A a \in Accounts : accounts'[a].next = accounts[a].next
            /\ \A a \in Accounts' \ Accounts : accounts'[a].next = 0
            /\ UNCHANGED requests
        BY <2>3, SyncRows DEF AccountsKept
      <3>2. \A a \in Accounts' \ Accounts : Given(a) = {}
        BY DEF Given, TypeInv, TableInv
      <3>3. 0 .. -1 = {} /\ Cardinality({}) = 0
        BY FS_EmptySet
      <3>4. ASSUME NEW a \in Accounts'
            PROVE  /\ {q.index : q \in Given(a)} = 0 .. accounts'[a].next - 1
                   /\ Cardinality(Given(a)) = accounts'[a].next
        <4>1. CASE a \in Accounts
          BY <3>1, <4>1 DEF IndexesDense
        <4>2. CASE a \notin Accounts
          <5>1. Given(a) = {} /\ accounts'[a].next = 0
            BY <3>1, <3>2, <3>4, <4>2
          <5> QED
            BY <3>3, <5>1
        <4> QED
          BY <4>1, <4>2
      <3> QED
        BY <3>1, <3>4 DEF IndexesDense, Given
    <2> QED
      BY <2>1, <2>2, <2>3, CallFrame, SyncFrame DEF Next, vars, tables
  <1> QED
    BY <1>1, <1>2, AlwaysTypeInv, PTL DEF Spec

(* A call that may commit has no record for its key, nor has another call  *)
(* that may: the primary key of idempotency_records made one of them wait. *)
KeyInv ==
    /\ \A c \in Calls : step[c] = "commit" => records[Key[c]] = NULL
    /\ \A c, d \in Calls : step[c] = "commit" /\ step[d] = "commit" /\ Key[c] = Key[d] => c = d
    /\ \A c \in Calls : step[c] = "replay" => records[Key[c]] # NULL
    /\ OneRequestPerKey

LEMMA RecordNotNull ==
    ASSUME NEW c \in Calls
    PROVE  [payload |-> Payload[c], resource |-> c] # NULL /\ Key[c] \in Keys
  BY AllocationAssumption DEF Keys

(* Steps of a call other than its commit: how they move it and what they   *)
(* answer.                                                                 *)
LEMMA CallMoved ==
    ASSUME TypeInv, NEW c \in Calls, ~BumpWalletNextIndex(c),
           LoadAssetCatalogEntry(c) \/ CallStep(c) \/ CutCall(c)
    PROVE  /\ UNCHANGED tables
           /\ \E to \in Steps :
                 /\ step' = [step EXCEPT ![c] = to]
                 /\ to = "commit" =>
                       /\ records[Key[c]] = NULL
                       /\ \A d \in Calls \ {c} : step[d] = "commit" => Key[d] # Key[c]
                 /\ to = "replay" => records[Key[c]] # NULL
  <1>1. UNCHANGED tables
    BY CallFrame
  <1>2. CASE LoadAssetCatalogEntry(c) \/ InsertPaymentRequest(c) \/ CutCall(c) \/ LockWalletAccountForUpdate(c)
    BY <1>1, <1>2 DEF LoadAssetCatalogEntry, InsertPaymentRequest, CutCall, LockWalletAccountForUpdate, Reply, Steps
  <1>3. CASE FindIdempotencyRecord(c) \/ LoadReplayResource(c)
    BY <1>1, <1>3 DEF FindIdempotencyRecord, LoadReplayResource, Replay, Reply, Steps
  <1>4. CASE InsertIdempotencyRecord(c)
    BY <1>1, <1>4 DEF InsertIdempotencyRecord, Steps
  <1> QED
    BY <1>2, <1>3, <1>4 DEF CallStep


(* The commit of one call makes the record of its key, which keeps every   *)
(* other call with the key from committing.                                *)
LEMMA KeyInvAlways == Spec => []KeyInv
  <1>1. Init => KeyInv
    BY DEF Init, KeyInv, OneRequestPerKey
  <1>2. TypeInv /\ KeyInv /\ [Next]_vars => KeyInv'
    <2> SUFFICES ASSUME TypeInv, KeyInv, [Next]_vars PROVE KeyInv'
      OBVIOUS
    <2>0. step \in [Calls -> Steps] /\ records \in [Keys -> RecordRows \cup {NULL}]
      BY DEF TypeInv, CallInv, TableInv, TableType
    <2>1. CASE UNCHANGED <<requests, records, step>>
      BY <2>1 DEF KeyInv, OneRequestPerKey
    <2>2. ASSUME NEW c \in Calls, ~BumpWalletNextIndex(c), LoadAssetCatalogEntry(c) \/ CallStep(c) \/ CutCall(c)
          PROVE  KeyInv'
      <3>1. PICK to \in Steps :
              /\ step' = [step EXCEPT ![c] = to]
              /\ to = "commit" =>
                    /\ records[Key[c]] = NULL
                    /\ \A d \in Calls \ {c} : step[d] = "commit" => Key[d] # Key[c]
              /\ to = "replay" => records[Key[c]] # NULL
        BY <2>2, CallMoved
      <3>2. UNCHANGED <<requests, records>>
        BY <2>2, CallMoved DEF tables
      <3>3. step'[c] = to /\ \A d \in Calls \ {c} : step'[d] = step[d]
        BY <2>0, <3>1
      <3> QED
        BY <3>1, <3>2, <3>3 DEF KeyInv, OneRequestPerKey
    <2>3. ASSUME NEW c \in Calls, BumpWalletNextIndex(c) PROVE KeyInv'
      <3>1. /\ step[c] = "commit" /\ step'[c] = "done" /\ \A d \in Calls \ {c} : step'[d] = step[d]
        <4>1. step[c] = "commit" /\ step' = [step EXCEPT ![c] = "done"]
          BY <2>3, BumpWrites
        <4> QED
          BY <2>0, <4>1
      <3>2. CASE UNCHANGED <<requests, records>>
        BY <3>1, <3>2 DEF KeyInv, OneRequestPerKey
      <3>3. CASE /\ requests' = requests \cup {Row(c)}
                 /\ records' = [records EXCEPT ![Key[c]] = [payload |-> Payload[c], resource |-> c]]
        <4>1. /\ records'[Key[c]] = [payload |-> Payload[c], resource |-> c] /\ records'[Key[c]] # NULL
              /\ \A k \in Keys \ {Key[c]} : records'[k] = records[k]
          BY <2>0, <3>3, RecordNotNull
        <4>2. Row(c).id = c /\ \A d \in Calls : Key[d] \in Keys
          BY RecordNotNull DEF Row
        <4>3. \A q \in requests : q.id \in Calls /\ Key[q.id] # Key[c]
          BY <3>1 DEF KeyInv, OneRequestPerKey, TypeInv, TableInv, TableType, RequestRows
        <4>4. \A d \in Calls \ {c} : step[d] = "commit" => Key[d] # Key[c] /\ records'[Key[d]] = NULL
          BY <3>1, <4>1, <4>2 DEF KeyInv
        <4>5. \A d \in Calls : step'[d] = "replay" => records'[Key[d]] # NULL
          BY <3>1, <4>1, <4>2 DEF KeyInv
        <4>6. OneRequestPerKey'
          <5>1. \A q, r \in requests' : Key[q.id] = Key[r.id] => q = r
            BY <3>3, <4>2, <4>3 DEF KeyInv, OneRequestPerKey
          <5>2. \A q \in requests' : records'[Key[q.id]] # NULL
            BY <3>3, <4>1, <4>2, <4>3 DEF KeyInv, OneRequestPerKey
          <5>3. \A k \in Keys : records'[k] # NULL =>
                  \E q \in requests' : q.id = records'[k].resource /\ Key[q.id] = k /\ Payload[q.id] = records'[k].payload
            <6>1. ASSUME NEW k \in Keys, k # Key[c], records'[k] # NULL
                  PROVE  \E q \in requests' : q.id = records'[k].resource /\ Key[q.id] = k /\ Payload[q.id] = records'[k].payload
              BY <3>3, <4>1, <6>1 DEF KeyInv, OneRequestPerKey
            <6>2. Row(c) \in requests' /\ records'[Key[c]].resource = c /\ records'[Key[c]].payload = Payload[c]
              BY <3>3, <4>1
            <6> QED
              BY <4>2, <6>1, <6>2
          <5> QED
            BY <5>1, <5>2, <5>3 DEF OneRequestPerKey
        <4> QED
          BY <3>1, <4>4, <4>5, <4>6 DEF KeyInv
      <3> QED
        BY <2>3, <3>2, <3>3, BumpWrites
    <2>4. ASSUME NEW p \in Procs, CheckReadiness(p) \/ SyncStep(p) \/ CutSync(p) PROVE KeyInv'
      BY <2>1, <2>4, SyncFrame DEF callVars
    <2> QED
      BY <2>1, <2>2, <2>3, <2>4 DEF Next, vars, tables, callVars
  <1> QED
    BY <1>1, <1>2, AlwaysTypeInv, PTL DEF Spec

(* Concurrent calls with one idempotency key create one payment request.   *)
THEOREM KeysUsedOnce == Spec => []OneRequestPerKey
  <1>1. KeyInv => OneRequestPerKey
    BY DEF KeyInv
  <1> QED
    BY <1>1, KeyInvAlways, PTL

(* An account a call works with stays active until the call is over: who   *)
(* deactivates it first waits for the lock on its row.                     *)
WorksWithActive == \A c \in Calls : step[c] \in Allocating => wallet[c].account \in Active

THEOREM AllocationFromActive == Spec => AllocatedFromActive
  <1>1. Init => WorksWithActive
    BY DEF Init, WorksWithActive, Allocating
  <1>2. TypeInv /\ WorksWithActive /\ [Next]_vars =>
          WorksWithActive' /\ (\A q \in requests' \ requests : accounts[q.account].active)
    <2> SUFFICES ASSUME TypeInv, WorksWithActive, [Next]_vars
                 PROVE  WorksWithActive' /\ \A q \in requests' \ requests : accounts[q.account].active
      OBVIOUS
    <2>0. step \in [Calls -> Steps] /\ wallet \in [Calls -> [account : Nat, index : Nat]]
      BY DEF TypeInv, CallInv
    <2>1. CASE UNCHANGED vars
      BY <2>1 DEF WorksWithActive, Active, Accounts, vars, tables, callVars
    <2>2. ASSUME NEW c \in Calls, ~BumpWalletNextIndex(c), LoadAssetCatalogEntry(c) \/ CallStep(c) \/ CutCall(c)
          PROVE  WorksWithActive' /\ UNCHANGED requests
      <3>1. UNCHANGED requests /\ Active' = Active
        BY <2>2, CallFrame DEF tables, Active, Accounts
      <3>2. \A d \in Calls \ {c} : step'[d] = step[d] /\ wallet'[d] = wallet[d]
        <4>1. \A d \in Calls \ {c} : step'[d] = step[d]
          BY <2>0, <2>2, CallMoved
        <4>2. CASE LoadAssetCatalogEntry(c) \/ LockWalletAccountForUpdate(c)
          BY <2>0, <4>1, <4>2 DEF LoadAssetCatalogEntry, LockWalletAccountForUpdate
        <4>3. CASE CallStep(c) /\ ~LockWalletAccountForUpdate(c)
          BY <2>2, <4>1, <4>3 DEF CallStep, FindIdempotencyRecord, InsertPaymentRequest, InsertIdempotencyRecord,
                                  LoadReplayResource
        <4>4. CASE CutCall(c)
          BY <4>1, <4>4 DEF CutCall
        <4> QED
          BY <2>2, <4>2, <4>3, <4>4
      <3>3. step'[c] \in Allocating => wallet'[c].account \in Active
        <4>1. CASE LockWalletAccountForUpdate(c)
          <5>1. wallet[c].account \in Accounts
            BY <4>1 DEF LockWalletAccountForUpdate, TypeInv, CallInv
          <5>2. step'[c] \in Allocating =>
                  /\ accounts[wallet[c].account].active
                  /\ wallet' = [wallet EXCEPT ![c].index = accounts[wallet[c].account].next]
            BY <2>0, <4>1 DEF LockWalletAccountForUpdate, Reply, Allocating
          <5>3. step'[c] \in Allocating => wallet'[c].account = wallet[c].account
            BY <2>0, <5>2
          <5> QED
            BY <5>1, <5>2, <5>3 DEF Active
        <4>2. CASE InsertPaymentRequest(c) \/ InsertIdempotencyRecord(c)
          <5>1. step[c] \in Allocating /\ UNCHANGED wallet
            BY <4>2 DEF InsertPaymentRequest, InsertIdempotencyRecord, Allocating
          <5> QED
            BY <5>1 DEF WorksWithActive
        <4>3. CASE LoadAssetCatalogEntry(c) \/ FindIdempotencyRecord(c) \/ LoadReplayResource(c) \/ CutCall(c)
          BY <2>0, <4>3 DEF LoadAssetCatalogEntry, FindIdempotencyRecord, LoadReplayResource, CutCall, Replay, Reply, Allocating
        <4> QED
          BY <2>2, <4>1, <4>2, <4>3 DEF CallStep
      <3> QED
        BY <3>1, <3>2, <3>3 DEF WorksWithActive
    <2>3. ASSUME NEW c \in Calls, BumpWalletNextIndex(c)
          PROVE  WorksWithActive' /\ \A q \in requests' \ requests : accounts[q.account].active
      <3>1. wallet[c].account \in Active
        BY <2>3, BumpWrites DEF WorksWithActive, Allocating
      <3>2. \A d \in Calls : step'[d] \in Allocating => step[d] \in Allocating
        <4>1. step' = [step EXCEPT ![c] = "done"]
          BY <2>3, BumpWrites
        <4> QED
          BY <2>0, <4>1 DEF Allocating
      <3>3. UNCHANGED <<wallet, Active>> /\ requests' \subseteq requests \cup {Row(c)} /\ Row(c).account = wallet[c].account
        BY <2>3, BumpWrites
      <3>4. WorksWithActive'
        BY <3>2, <3>3 DEF WorksWithActive
      <3> QED
        BY <3>1, <3>3, <3>4 DEF Active
    <2>4. ASSUME NEW p \in Procs, CheckReadiness(p) \/ SyncStep(p) \/ CutSync(p)
          PROVE  WorksWithActive' /\ UNCHANGED requests
      <3>1. UNCHANGED <<requests, step, wallet>>
        BY <2>4, SyncFrame DEF callVars
      <3>2. CASE Active' = Active
        BY <3>1, <3>2 DEF WorksWithActive
      <3>3. CASE Active \subseteq seen[p] /\ SwitchAccount(p)
        <4>1. \A c \in Calls : step[c] \notin Allocating
          <5> SUFFICES ASSUME NEW c \in Calls, step[c] \in Allocating PROVE FALSE
            OBVIOUS
          <5>1. wallet[c].account \in Active /\ locks[c] = {wallet[c].account}
            BY DEF WorksWithActive, TypeInv, LockInv
          <5>2. wallet[c].account \in LockedByOthers(p)
            <6>1. c \in (Calls \cup Procs) \ {p}
              BY AllocationAssumption
            <6> QED
              BY <5>1, <6>1 DEF LockedByOthers
          <5>3. seen[p] \cap LockedByOthers(p) = {}
            BY <3>3 DEF SwitchAccount
          <5> QED
            BY <3>3, <5>1, <5>2, <5>3
        <4> QED
          BY <3>1, <4>1 DEF WorksWithActive
      <3>4. UNCHANGED accounts => Active' = Active
        BY DEF Active, Accounts
      <3> QED
        BY <2>4, <3>1, <3>2, <3>3, <3>4, SyncFrame, SyncRows
    <2> QED
      BY <2>1, <2>2, <2>3, <2>4 DEF Next, vars, tables
  <1> QED
    BY <1>1, <1>2, AlwaysTypeInv, PTL DEF Spec, AllocatedFromActive

(* A record that an answer was taken from is never changed: only the call  *)
(* that commits writes one, for a key that has none.                       *)
TruthInv ==
    /\ AnswersTruthful
    /\ \A c \in Calls : answer[c] # NULL /\ answer[c].kind \in {"created", "replayed"} => records[Key[c]] # NULL

(* The answer of a call that meets the record of its key.                  *)
Met(c, kind, resource) ==
    \/ kind \in {"error", "lost"}
    \/ /\ kind = "replayed" /\ records[Key[c]] # NULL
       /\ records[Key[c]] = [payload |-> Payload[c], resource |-> resource]
    \/ kind = "conflict" /\ records[Key[c]] # NULL /\ records[Key[c]].payload # Payload[c]

LEMMA CallAnswers ==
    ASSUME TypeInv, KeyInv, NEW c \in Calls, ~BumpWalletNextIndex(c),
           LoadAssetCatalogEntry(c) \/ CallStep(c) \/ CutCall(c)
    PROVE  \/ UNCHANGED answer
           \/ \E kind \in {"replayed", "conflict", "error", "lost"}, resource \in Calls \cup {NULL} :
                 answer' = [answer EXCEPT ![c] = [kind |-> kind, resource |-> resource]] /\ Met(c, kind, resource)
  <1>1. CASE Replay(c) /\ records[Key[c]] # NULL
    <2>1. records[Key[c]] \in RecordRows
      BY <1>1, RecordNotNull DEF TypeInv, TableInv, TableType
    <2>2. /\ records[Key[c]].resource \in Calls
          /\ records[Key[c]] = [payload |-> records[Key[c]].payload, resource |-> records[Key[c]].resource]
      BY <2>1 DEF RecordRows
    <2>3. CASE records[Key[c]].payload = Payload[c]
      <3>1. Met(c, "replayed", records[Key[c]].resource)
        BY <1>1, <2>2, <2>3 DEF Met
      <3>2. answer' = [answer EXCEPT ![c] = [kind |-> "replayed", resource |-> records[Key[c]].resource]]
        BY <1>1, <2>3 DEF Replay, Reply
      <3> QED
        BY <2>2, <3>1, <3>2
    <2>4. CASE records[Key[c]].payload # Payload[c]
      <3>1. Met(c, "conflict", NULL)
        BY <1>1, <2>4 DEF Met
      <3>2. answer' = [answer EXCEPT ![c] = [kind |-> "conflict", resource |-> NULL]]
        BY <1>1, <2>4 DEF Replay, Reply
      <3> QED
        BY <3>1, <3>2
    <2> QED
      BY <2>3, <2>4
  <1>2. CASE Reply(c, "error", NULL) \/ Reply(c, "lost", NULL)
    <2>1. Met(c, "error", NULL) /\ Met(c, "lost", NULL)
      BY DEF Met
    <2> QED
      BY <1>2, <2>1 DEF Reply
  <1>3. CASE LoadReplayResource(c)
    BY <1>1, <1>3 DEF LoadReplayResource, KeyInv
  <1>4. CASE FindIdempotencyRecord(c)
    BY <1>1, <1>4 DEF FindIdempotencyRecord
  <1>5. CASE LockWalletAccountForUpdate(c) \/ InsertPaymentRequest(c) \/ CutCall(c)
    BY <1>2, <1>5 DEF LockWalletAccountForUpdate, InsertPaymentRequest, CutCall
  <1>6. CASE LoadAssetCatalogEntry(c) \/ InsertIdempotencyRecord(c)
    BY <1>6 DEF LoadAssetCatalogEntry, InsertIdempotencyRecord
  <1> QED
    BY <1>3, <1>4, <1>5, <1>6 DEF CallStep

THEOREM AnswersTrue == Spec => []AnswersTruthful
  <1>1. Init => TruthInv
    BY DEF Init, TruthInv, AnswersTruthful
  <1>2. TypeInv /\ KeyInv /\ TruthInv /\ [Next]_vars => TruthInv'
    <2> SUFFICES ASSUME TypeInv, KeyInv, TruthInv, [Next]_vars PROVE TruthInv'
      OBVIOUS
    <2>0. answer \in [Calls -> Answers \cup {NULL}] /\ records \in [Keys -> RecordRows \cup {NULL}]
      BY DEF TypeInv, CallInv, TableInv, TableType
    <2>1. CASE UNCHANGED <<records, answer>>
      BY <2>1 DEF TruthInv, AnswersTruthful
    <2>2. ASSUME NEW c \in Calls, ~BumpWalletNextIndex(c), LoadAssetCatalogEntry(c) \/ CallStep(c) \/ CutCall(c)
          PROVE  TruthInv'
      <3>1. UNCHANGED records
        BY <2>2, CallMoved DEF tables
      <3>2. CASE UNCHANGED answer
        BY <2>1, <3>1, <3>2
      <3>3. CASE ~UNCHANGED answer
        <4>1. PICK kind \in {"replayed", "conflict", "error", "lost"}, resource \in Calls \cup {NULL} :
                answer' = [answer EXCEPT ![c] = [kind |-> kind, resource |-> resource]] /\ Met(c, kind, resource)
          BY <2>2, <3>3, CallAnswers
        <4>2. /\ answer'[c].kind = kind /\ answer'[c].resource = resource
              /\ \A d \in Calls \ {c} : answer'[d] = answer[d]
          BY <2>0, <4>1
        <4> QED
          BY <3>1, <4>1, <4>2 DEF TruthInv, AnswersTruthful, Met
      <3> QED
        BY <3>2, <3>3
    <2>3. ASSUME NEW c \in Calls, BumpWalletNextIndex(c) PROVE TruthInv'
      <3>1. CASE UNCHANGED records /\ answer' = [answer EXCEPT ![c] = [kind |-> "error", resource |-> NULL]]
        <4>1. answer'[c].kind = "error" /\ \A d \in Calls \ {c} : answer'[d] = answer[d]
          BY <2>0, <3>1
        <4> QED
          BY <3>1, <4>1 DEF TruthInv, AnswersTruthful
      <3>2. CASE /\ records' = [records EXCEPT ![Key[c]] = [payload |-> Payload[c], resource |-> c]]
                 /\ answer' = [answer EXCEPT ![c] = [kind |-> "created", resource |-> c]]
        <4>1. /\ answer'[c].kind = "created" /\ answer'[c].resource = c
              /\ \A d \in Calls \ {c} : answer'[d] = answer[d]
          BY <2>0, <3>2
        <4>2. /\ records'[Key[c]] = [payload |-> Payload[c], resource |-> c] /\ records'[Key[c]] # NULL
              /\ \A k \in Keys \ {Key[c]} : records'[k] = records[k]
          BY <2>0, <3>2, RecordNotNull
        <4>3. records[Key[c]] = NULL
          BY <2>3, BumpWrites DEF KeyInv
        <4>4. ASSUME NEW d \in Calls \ {c}, answer[d] # NULL, answer[d].kind \in {"created", "replayed", "conflict"}
              PROVE  records'[Key[d]] = records[Key[d]]
          BY <4>2, <4>3, <4>4, RecordNotNull DEF TruthInv, AnswersTruthful
        <4> QED
          BY <4>1, <4>2, <4>4 DEF TruthInv, AnswersTruthful
      <3> QED
        BY <2>3, <3>1, <3>2, BumpWrites
    <2>4. ASSUME NEW p \in Procs, CheckReadiness(p) \/ SyncStep(p) \/ CutSync(p) PROVE TruthInv'
      BY <2>1, <2>4, SyncFrame DEF callVars
    <2> QED
      BY <2>1, <2>2, <2>3, <2>4 DEF Next, vars, tables, callVars
  <1>3. TruthInv => AnswersTruthful
    BY DEF TruthInv
  <1> QED
    BY <1>1, <1>2, <1>3, AlwaysTypeInv, KeyInvAlways, PTL DEF Spec

-----------------------------------------------------------------------------
(* Waiting for each other                                                  *)

(* A start-up holds rows only in the middle of its transaction.            *)
HoldersInv ==
    \A p \in Procs : locks[p] # {} => at[p] \in {"historical", "candidates", "victims", "switch"}

LEMMA HoldersAlways == Spec => []HoldersInv
  <1>1. Init => HoldersInv
    BY DEF Init, HoldersInv
  <1>2. TypeInv /\ HoldersInv /\ [Next]_vars => HoldersInv'
    <2> SUFFICES ASSUME TypeInv, HoldersInv, [Next]_vars PROVE HoldersInv'
      OBVIOUS
    <2>0. at \in [Procs -> Stages] /\ locks \in [Calls \cup Procs -> SUBSET Accounts]
      BY DEF TypeInv, SyncInv, LockInv
    <2>1. CASE UNCHANGED vars
      BY <2>1 DEF HoldersInv, vars, syncVars
    <2>2. ASSUME NEW c \in Calls, LoadAssetCatalogEntry(c) \/ CallStep(c) \/ CutCall(c) PROVE HoldersInv'
      <3>1. UNCHANGED locks \/ \E l : locks' = [locks EXCEPT ![c] = l]
        BY <2>2 DEF LoadAssetCatalogEntry, CallStep, CutCall, FindIdempotencyRecord, LockWalletAccountForUpdate,
                    InsertPaymentRequest, InsertIdempotencyRecord, LoadReplayResource, BumpWalletNextIndex, Replay, Reply
      <3>2. \A p \in Procs : locks'[p] = locks[p]
        BY <2>0, <3>1, AllocationAssumption
      <3> QED
        BY <2>2, <3>2, CallFrame DEF HoldersInv, syncVars
    <2>3. ASSUME NEW p \in Procs, CheckReadiness(p) \/ SyncStep(p) \/ CutSync(p) PROVE HoldersInv'
      <3>1. CASE \E how : EndSync(p, how)
        <4>1. locks'[p] = {} /\ \A q \in Procs \ {p} : at'[q] = at[q] /\ locks'[q] = locks[q]
          BY <2>0, <3>1 DEF EndSync
        <4> QED
          BY <4>1 DEF HoldersInv
      <3>2. CASE LockActive(p)
        BY <2>0, <3>1, <3>2 DEF LockActive, HoldersInv
      <3>3. CASE LockHistorical(p)
        BY <2>0, <3>3 DEF LockHistorical, HoldersInv
      <3>4. CASE SeekActive(p) \/ SeekHistorical(p) \/ SeekVictims(p) \/ ValidateAssetCatalogIntegrity(p)
        BY <2>0, <3>4 DEF SeekActive, SeekHistorical, SeekVictims, ValidateAssetCatalogIntegrity, HoldersInv
      <3>5. CASE CheckReadiness(p) \/ RunMigrations(p) \/ MigrationsApplied(p) \/ PreflightFails(p)
        BY <3>1, <3>5 DEF CheckReadiness, RunMigrations, MigrationsApplied, PreflightFails, TypeInv, BootInv
      <3>6. CASE SwitchAccount(p) \/ DeadlockDetected(p) \/ CutSync(p)
        BY <3>1, <3>6 DEF SwitchAccount, DeadlockDetected, CutSync
      <3> QED
        BY <2>3, <3>2, <3>3, <3>4, <3>5, <3>6 DEF SyncStep
    <2> QED
      BY <2>1, <2>2, <2>3 DEF Next
  <1> QED
    BY <1>1, <1>2, AlwaysTypeInv, PTL DEF Spec

(* Who is waited for.                                                      *)
LEMMA WaitedFor ==
    ASSUME TypeInv, HoldersInv, NEW t \in Calls \cup Procs, NEW u \in WaitsFor(t)
    PROVE  /\ u \in (Calls \cup Procs) \ {t} /\ u \in UnderWay /\ t \in UnderWay
           /\ u \in Calls => step[u] \in Allocating
           /\ u \in Procs => at[u] = "migrating" \/ locks[u] # {}
           /\ u \in Procs /\ locks[u] # {} => at[u] \in {"historical", "candidates", "victims", "switch"}
  <1>1. u \in (Calls \cup Procs) \ {t}
    BY DEF WaitsFor
  <1>2. u \in Calls => step[u] \in Allocating
    BY <1>1, AllocationAssumption DEF WaitsFor, InsertedBy, Allocating, TypeInv, LockInv
  <1>3. u \in Procs => at[u] = "migrating" \/ locks[u] # {}
    BY <1>1, AllocationAssumption DEF WaitsFor, InsertedBy
  <1>4. u \in Procs /\ locks[u] # {} => at[u] \in {"historical", "candidates", "victims", "switch"}
    BY DEF HoldersInv
  <1>5. t \in UnderWay
    BY DEF WaitsFor, UnderWay
  <1> QED
    BY <1>1, <1>2, <1>3, <1>4, <1>5 DEF UnderWay, Allocating

(* A call waits for one that is further than itself, and so for nobody in  *)
(* a circle.                                                               *)
LEMMA CallsInNoCircle ==
    ASSUME TypeInv, HoldersInv, NEW C \in SUBSET (Calls \cup Procs), Entangled(C), NEW c \in C, c \in Calls
    PROVE  step[c] = "lock"
  <1>1. \A d \in C : d \in Calls => step[d] \in {"lock", "insert", "record"}
    BY AllocationAssumption DEF Entangled, WaitsFor
  <1>2. \A d \in C : d \in Calls => step[d] # "record"
    <2> SUFFICES ASSUME NEW d \in C, d \in Calls, step[d] = "record" PROVE FALSE
      OBVIOUS
    <2>1. PICK e \in C : e \in Calls /\ step[e] = "commit"
      BY AllocationAssumption DEF Entangled, WaitsFor
    <2> QED
      BY <1>1, <2>1
  <1>3. \A d \in C : d \in Calls => step[d] # "insert"
    <2> SUFFICES ASSUME NEW d \in C, d \in Calls, step[d] = "insert" PROVE FALSE
      OBVIOUS
    <2>1. PICK e \in C : e \in Calls /\ step[e] \in {"record", "commit"}
      BY AllocationAssumption DEF Entangled, WaitsFor, InsertedBy
    <2> QED
      BY <1>1, <1>2, <2>1
  <1> QED
    BY <1>1, <1>2, <1>3

(* Every member of a circle is waited for by another one: without it the   *)
(* rest would still be entangled.                                          *)
LEMMA CircleWaitedFor ==
    ASSUME NEW C \in SUBSET (Calls \cup Procs), Circle(C), NEW u \in C
    PROVE  \E t \in C : u \in WaitsFor(t)
  <1> SUFFICES ASSUME \A t \in C : u \notin WaitsFor(t) PROVE FALSE
    OBVIOUS
  <1>1. \A t \in C : WaitsFor(t) \cap (C \ {u}) # {}
    BY DEF Circle, Entangled
  <1>2. Entangled(C \ {u})
    BY <1>1 DEF Entangled
  <1> QED
    BY <1>2 DEF Circle

(* The order in which the statements of a call take their locks keeps it   *)
(* out of every deadlock, and a sync is in one only while it holds a row   *)
(* and waits for another: in findHistorical's and deactivateAll's queries. *)
THEOREM DeadlocksOfStartUps == Spec => []DeadlocksAmongStartUps
  <1>1. TypeInv /\ HoldersInv => DeadlocksAmongStartUps
    <2> SUFFICES ASSUME TypeInv, HoldersInv, NEW C \in SUBSET (Calls \cup Procs), Circle(C), NEW u \in C
                 PROVE  u \in Procs /\ at[u] \in {"candidates", "switch"} /\ locks[u] # {}
      BY DEF DeadlocksAmongStartUps
    <2>1. PICK t \in C : u \in WaitsFor(t)
      BY CircleWaitedFor
    <2>2. /\ u \in Calls => step[u] \in Allocating
          /\ u \in Procs => at[u] = "migrating" \/ locks[u] # {}
          /\ u \in Procs /\ locks[u] # {} => at[u] \in {"historical", "candidates", "victims", "switch"}
      BY <2>1, WaitedFor
    <2>3. WaitsFor(u) # {} /\ Entangled(C)
      BY DEF Circle, Entangled
    <2>4. u \in Procs
      <3>1. u \in Calls => step[u] = "lock"
        BY <2>3, CallsInNoCircle
      <3> QED
        BY <2>2, <3>1 DEF Allocating
    <2>5. at[u] \in {"ready", "active", "switch", "candidates"}
      BY <2>3, <2>4, AllocationAssumption DEF WaitsFor
    <2> QED
      BY <2>2, <2>4, <2>5
  <1> QED
    BY <1>1, AlwaysTypeInv, HoldersAlways, PTL

LEMMA SmallestSubset ==
    ASSUME NEW S, IsFiniteSet(S), NEW Bad \in SUBSET SUBSET S, Bad # {}
    PROVE  \E T \in Bad : \A U \in Bad : U \subseteq T => U = T
  <1>1. IsWellFoundedOn(StrictSubsetOrdering(S), SUBSET S)
    BY FS_StrictSubsetOrderingWellFounded, FS_FiniteSubsetsOfFinite
  <1>2. PICK T \in Bad : \A U \in Bad : <<U, T>> \notin StrictSubsetOrdering(S)
    BY <1>1, WFMin
  <1> QED
    BY <1>2 DEF StrictSubsetOrdering

(* If everyone under way waited, they would be entangled among themselves, *)
(* and a smallest entangled part of them is a circle.                      *)
THEOREM SomeoneAlwaysGoesOn ==
    ASSUME IsFiniteSet(Calls), IsFiniteSet(Procs)
    PROVE  Spec => []SomeoneGoesOn
  <1>1. TypeInv /\ HoldersInv => SomeoneGoesOn
    <2> SUFFICES ASSUME TypeInv, HoldersInv, UnderWay # {}, UnderWay \subseteq Waiting
                 PROVE  \E C \in SUBSET UnderWay : Circle(C)
      BY DEF SomeoneGoesOn
    <2> DEFINE Knots == {C \in SUBSET UnderWay : Entangled(C)}
    <2>1. UnderWay \in Knots
      <3>1. ASSUME NEW t \in UnderWay PROVE WaitsFor(t) \cap UnderWay # {}
        <4>1. t \in Calls \cup Procs /\ WaitsFor(t) # {}
          BY DEF Waiting
        <4>2. PICK u \in WaitsFor(t) : TRUE
          BY <4>1
        <4> QED
          BY <4>1, <4>2, WaitedFor
      <3> QED
        BY <3>1 DEF Entangled
    <2>2. IsFiniteSet(UnderWay)
      <3>1. IsFiniteSet(Calls \cup Procs) /\ UnderWay \subseteq Calls \cup Procs
        BY FS_Union DEF UnderWay
      <3> QED
        BY <3>1, FS_Subset
    <2>3. Knots \in SUBSET SUBSET UnderWay
      OBVIOUS
    <2>4. PICK C \in Knots : \A D \in Knots : D \subseteq C => D = C
      <3> HIDE DEF Knots
      <3> QED
        BY <2>1, <2>2, <2>3, SmallestSubset
    <2>5. C \in SUBSET UnderWay /\ Entangled(C)
      BY <2>4
    <2>6. ASSUME NEW D \in SUBSET C, Entangled(D) PROVE D = C
      BY <2>4, <2>5, <2>6
    <2> QED
      BY <2>5, <2>6 DEF Circle
  <1> QED
    BY <1>1, AlwaysTypeInv, HoldersAlways, PTL
=============================================================================
