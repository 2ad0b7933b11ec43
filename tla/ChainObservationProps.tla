-------------------------- MODULE ChainObservationProps --------------------------
(***************************************************************************)
(* What an observer's answer may be relied on for, when the chain moves    *)
(* between its calls.                                                      *)
(***************************************************************************)
EXTENDS ChainObservation

Heights == 0 .. MaxHeight
Settlements == [ref : Transfers, height : Heights, confirmations : Nat, canonical : BOOLEAN]

(* Every variable has its type, no transfer is in two blocks, and a block  *)
(* is only being scanned while its transfers are checked.                  *)
TypeOK ==
    /\ rail \in Rails /\ config \in Configs
    /\ chain \in Seq(SUBSET Transfers) /\ Len(chain) \in Heights
    /\ \A g, h \in DOMAIN chain : g # h => chain[g] \cap chain[h] = {}
    /\ OnChain(chain) \subseteq sent /\ spent \subseteq OnChain(chain)
    /\ sent \subseteq Transfers /\ dropped \subseteq sent \ OnChain(chain)
    /\ at \in {"idle", "stats", "tip", "utxos", "logs", "block", "receipt", "done"}
    /\ tip \in Heights /\ funded \in Nat /\ height \in 0 .. MaxHeight + 1
    /\ todo \subseteq Transfers /\ (todo # {} <=> at = "receipt")
    /\ found \subseteq Settlements
    /\ outcome \in [confirmed : BOOLEAN, detected : BOOLEAN, finality : BOOLEAN] \cup {NULL}
    /\ (outcome # NULL => at = "done")
    /\ reorgs \in Nat /\ faults \in Nat
    /\ deepest \in [Transfers -> Nat] /\ throughout \subseteq Transfers /\ disturbed \in BOOLEAN

(* No settlement is reported with more confirmations than its transfer has *)
(* had since the observation began: the tip is read before the blocks, so  *)
(* a confirmation is never counted early, even when a reorganisation comes *)
(* between a block and its receipts.                                       *)
ConfirmationsNotOverstated ==
    \A e \in found : e.canonical => e.confirmations <= deepest[e.ref]

(* Whether the answer can be relied on.  An ether scan reads one block     *)
(* after the other: a transfer that a reorganisation moves to a later block *)
(* during the scan is counted twice, one that it moves to an earlier block *)
(* is missed.  The other rails read all settlements in one call.           *)
Undisturbed == rail = "eth" => ~disturbed

(* An answer "confirmed" is backed: transfers worth the required amount    *)
(* did reach the business depth, although tip and settlements are read by  *)
(* different calls; and so is finality, by the finality depth.  Whatever   *)
(* depths are configured, finality is not reached without confirmation:    *)
(* the reconciler would drop it.                                           *)
Backed(depth) == Total({t \in Transfers : deepest[t] >= depth}) >= confirmedRequired

ConfirmedIsBacked ==
    /\ outcome # NULL /\ Undisturbed /\ outcome.confirmed => Backed(confirmations.businessMin)
    /\ outcome # NULL /\ Undisturbed /\ outcome.finality => Backed(confirmations.finalityMin)
    /\ outcome # NULL /\ outcome.finality => outcome.confirmed

(* A payment that is on the chain all the while is noticed, as detected if *)
(* not as confirmed, whatever thresholds are configured and although some  *)
(* of its outputs may be spent during the observation.                     *)
PaymentNoticed ==
    outcome # NULL /\ Undisturbed /\ Total(throughout) >= confirmedRequired =>
        outcome.confirmed \/ outcome.detected
==================================================================================
