------------------------- MODULE WalletAllocationProps -------------------------
(***************************************************************************)
(* What must hold of address allocation and of the start-up sync.          *)
(***************************************************************************)
EXTENDS WalletAllocation

TableType ==
    /\ accounts \in Seq(AccountRows) /\ Len(accounts) > 0
    /\ catalog \in Accounts
    /\ requests \subseteq RequestRows
    /\ records \in [Keys -> RecordRows \cup {NULL}]

(* Every variable has its type, and a call holds the lock of its account's *)
(* row exactly while it works with the index it read there.                *)
TypeOK ==
    /\ TableType
    /\ locks \in [Calls \cup Procs -> SUBSET Accounts]
    /\ at \in [Procs -> {"down", "ready", "migrating", "migrated", "active", "historical", "candidates", "victims", "switch",
                     "synced", "up", "failed"}]
    /\ seen \in [Procs -> SUBSET Accounts]
    /\ chosen \in [Procs -> Accounts \cup {NULL}]
    /\ step \in [Calls -> {"new", "find", "lock", "insert", "record", "commit", "replay", "done"}]
    /\ \A c \in Calls : wallet[c].account \in Nat /\ wallet[c].index \in Nat
    /\ \A c \in Calls : locks[c] = IF step[c] \in {"insert", "record", "commit"}
                                   THEN {wallet[c].account} ELSE {}
    /\ answer \in [Calls -> Answers \cup {NULL}]
    /\ aborts \in Nat
    /\ schema \in {"behind", "dirty", "current"} /\ verified \subseteq Procs

(* "exactly one next_index value is consumed" by a create, and "on any     *)
(* failure inside create flow ... next_index is not advanced" (multi-asset *)
(* -payment-request-api, FR-006): the indexes an account has handed out    *)
(* are those below next_index, without a gap and each to one request, also *)
(* after rotation and reactivation.                                        *)
Given(a) == {q \in requests : q.account = a}
IndexesDense ==
    \A a \in Accounts :
        /\ {q.index : q \in Given(a)} = 0 .. accounts[a].next - 1
        /\ Cardinality(Given(a)) = accounts[a].next

(* One payment request per idempotency key, and the record of the key      *)
(* names it: concurrent retries never allocate twice.                      *)
OneRequestPerKey ==
    /\ \A q, r \in requests : Key[q.id] = Key[r.id] => q = r
    /\ \A k \in Keys : records[k] # NULL =>
         \E q \in requests : q.id = records[k].resource /\ Key[q.id] = k /\ Payload[q.id] = records[k].payload
    /\ \A q \in requests : records[Key[q.id]] # NULL

(* What a client is told is so: a resource it gets is the one its key      *)
(* stands for and was created from the same payload, and a conflict means  *)
(* that the key stands for another payload.                                *)
AnswersTruthful ==
    \A c \in Calls : answer[c] # NULL =>
        LET rec == records[Key[c]] IN
        /\ answer[c].kind \in {"created", "replayed"} =>
              rec = [payload |-> Payload[c], resource |-> answer[c].resource]
        /\ answer[c].kind = "conflict" => rec # NULL /\ rec.payload # Payload[c]

(* Exactly one account is active, and the catalog is bound to it, whatever *)
(* processes with whatever key material start at the same time.            *)
CatalogBoundToActive == Active = {catalog}

(* A request is only ever committed under an account that is active then,  *)
(* although the catalog was read before the transaction began.             *)
AllocatedFromActive ==
    [][\A q \in requests' \ requests : accounts[q.account].active]_vars

(* A process that reads or writes the tables does so on a completely       *)
(* migrated schema: one whose migrations another process began, or that    *)
(* were cut short, is not used by anyone.                                  *)
ServesMigrated ==
    \A p \in Procs : at[p] \notin {"down", "ready", "migrating", "failed"} => schema = "current"

(* Every address handed out comes from a key that was checked against its  *)
(* expected first address, whichever process put the key in place: "on any *)
(* mismatch or validation failure, preflight exits non-zero and app        *)
(* startup is aborted" (xpub-index0-address-verification, FR-007).         *)
OnlyVerifiedKeys ==
    LET keys == {KeyMaterial[Primary[p]] : p \in verified}
    IN /\ \A a \in Accounts : accounts[a].hash # NULL => KeyMaterial[accounts[a].hash] \in keys
       /\ \A q \in requests : q.material \in keys

(* No call and no start-up waits for ever: not for row locks held in a     *)
(* circle, nor for an uncommitted idempotency key or address, nor for the  *)
(* locks of a transaction that was given up.                               *)
EverythingEnds ==
    <>[](/\ \A c \in Calls : step[c] \in {"new", "done"}
         /\ \A p \in Procs : at[p] \in {"down", "up", "failed"})

(* Deadlocks are an affair of start-ups that hold a row and wait for       *)
(* another one: a call locks its wallet account before anything that       *)
(* another call could wait for, so none ever fails with a deadlock.        *)
DeadlocksAmongStartUps ==
    \A C \in SUBSET (Calls \cup Procs) :
        Circle(C) => C \subseteq {p \in Procs : at[p] \in {"candidates", "switch"} /\ locks[p] # {}}

(* As long as a call or a start-up is under way, one of them waits for     *)
(* nobody, or some of those under way wait for each other in a circle.     *)
UnderWay == {c \in Calls : step[c] \notin {"new", "done"}} \cup {p \in Procs : at[p] \notin {"down", "up", "failed"}}
SomeoneGoesOn == UnderWay = {} \/ UnderWay \ Waiting # {} \/ \E C \in SUBSET UnderWay : Circle(C)

-----------------------------------------------------------------------------
(* What the documents promise and the code does not do.                    *)

(* "The same (chain, network, keyset_id, key_material_hash) must map back  *)
(* to a single cursor lineage (next_index)" (xpub-index0-address-          *)
(* verification, NFR-009).                                                 *)
SingleLineage ==
    \A a, b \in Accounts : accounts[a].hash # NULL /\ accounts[a].hash = accounts[b].hash => a = b
================================================================================
