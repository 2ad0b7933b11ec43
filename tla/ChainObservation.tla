---------------------------- MODULE ChainObservation ----------------------------
(***************************************************************************)
(* One observer looking at one address while the chain moves on.  It makes *)
(* several calls, one after the other: on bitcoin the address statistics,  *)
(* the tip and the unspent outputs; for ERC-20 tokens the tip and all      *)
(* transfer logs; for ether the tip, then every block up to it, and the    *)
(* receipt of every transfer it meets.  Between two calls the chain may    *)
(* gain a block or replace its last ones.                                  *)
(*                                                                         *)
(* Only transfers to the address appear in blocks.  Definitions named      *)
(* ...Variant... are the definition that follows them with one plausible   *)
(* mistake.                                                                *)
(***************************************************************************)
EXTENDS ObservationPolicy, FiniteSets, FiniteSetsExt, Sequences

CONSTANTS
    Transfers,    \* outputs, transactions or logs that pay the address
    Amount,       \* Transfers -> minor units
    Expected,     \* expected_amount_minor, NULL when the request has none
    NULL,
    Rails,        \* SUBSET {"btc", "erc20", "eth"}
    Configs,      \* configured thresholds and confirmation depths
    MaxHeight,    \* bound: blocks
    MaxReorgs,    \* bound: reorganisations
    MaxFaults     \* bound: calls that fail

ASSUME ObservationAssumption ==
    /\ IsFiniteSet(Transfers) /\ NULL \notin Nat
    /\ Amount \in [Transfers -> Nat \ {0}]
    /\ Expected \in Nat \cup {NULL}
    /\ Rails \subseteq {"btc", "erc20", "eth"}
    /\ Configs \subseteq [detected : Int, confirmed : Int, business : Int, finality : Int]
    /\ {MaxHeight, MaxReorgs, MaxFaults} \subseteq Nat

VARIABLES
    rail, config,  \* what is observed, and how the observer was configured
    chain,         \* the blocks the node serves, genesis left out
    sent,          \* transfers that were broadcast
    spent,         \* bitcoin: outputs the wallet's owner has spent
    at,            \* which call comes next
    tip,           \* the height the observer read
    funded,        \* bitcoin: funded_txo_sum of chain and mempool
    height, todo,  \* ether: the block being scanned, its transfers still to check
    found,         \* settlements: [ref, height, confirmations, canonical]
    outcome,       \* what the observer answered
    reorgs, faults,
    dropped,       \* transfers a reorganisation took off the chain
    deepest,       \* per transfer: its greatest depth since the scan began
    throughout,    \* transfers on the chain ever since the scan began
    disturbed      \* has a block been replaced since the scan began

chainVars == <<chain, sent, spent, dropped, reorgs>>
scanVars == <<at, tip, funded, height, todo, found, outcome, faults>>
historyVars == <<deepest, throughout, disturbed>>
vars == <<rail, config, chainVars, scanVars, historyVars>>

-----------------------------------------------------------------------------
(* The chain                                                               *)

OnChain(c) == UNION {c[h] : h \in DOMAIN c}
HeightIn(c, t) == CHOOSE h \in DOMAIN c : t \in c[h]
DepthIn(c, t) == IF t \in OnChain(c) THEN Len(c) - HeightIn(c, t) + 1 ELSE 0
Total(S) == MapThenSumSet(LAMBDA t : Amount[t], S)

Scanning == at \notin {"idle", "done"}

(* What the properties remember of the chain while a scan is under way.    *)
Remember(c, replaced) ==
    IF Scanning
    THEN /\ deepest' = [t \in Transfers |->
                          IF DepthIn(c, t) > deepest[t] THEN DepthIn(c, t) ELSE deepest[t]]
         /\ throughout' = throughout \cap OnChain(c)
         /\ disturbed' = (disturbed \/ replaced)
    ELSE UNCHANGED historyVars

Broadcast ==
    /\ \E t \in Transfers \ sent : sent' = sent \cup {t}
    /\ UNCHANGED <<rail, config, chain, spent, dropped, reorgs, scanVars, historyVars>>

Mine ==
    /\ Len(chain) < MaxHeight
    /\ \E block \in SUBSET (sent \ OnChain(chain)) :
         chain' = Append(chain, block) /\ dropped' = dropped \ block
    /\ Remember(chain', FALSE)
    /\ UNCHANGED <<rail, config, sent, spent, reorgs, scanVars>>

(* The last blocks are replaced by at least as many others, which may hold *)
(* the same transfers elsewhere.                                           *)
Reorganise ==
    /\ reorgs < MaxReorgs /\ reorgs' = reorgs + 1
    /\ \E fork \in 0 .. Len(chain) - 1 :
         LET kept == SubSeq(chain, 1, fork)
         IN \E more \in Len(chain) .. MaxHeight :
              \E branch \in [fork + 1 .. more -> SUBSET (sent \ OnChain(kept))] :
                /\ \A g, h \in fork + 1 .. more : g # h => branch[g] \cap branch[h] = {}
                /\ chain' = [h \in 1 .. more |-> IF h <= fork THEN kept[h] ELSE branch[h]]
    /\ spent' = spent \cap OnChain(chain')
    /\ dropped' = (dropped \cup OnChain(chain)) \ OnChain(chain')
    /\ Remember(chain', TRUE)
    /\ UNCHANGED <<rail, config, sent, scanVars>>

Spend ==
    /\ rail = "btc"
    /\ \E t \in OnChain(chain) \ spent : spent' = spent \cup {t}
    /\ UNCHANGED <<rail, config, chain, sent, dropped, reorgs, scanVars, historyVars>>

-----------------------------------------------------------------------------
(* The answer                                                              *)

thresholds == newThresholdPolicy(config.detected, config.confirmed)
confirmations == newConfirmationPolicy(config.business, config.finality)
expected == IF Expected = NULL THEN 1 ELSE Expected
detectedRequired == thresholdBPSAmount(expected, thresholds.detectedBPS)
confirmedRequired == thresholdBPSAmount(expected, thresholds.confirmedBPS)

confirmationCountVariantMempool(latest, h) == IF latest - h + 1 < 0 THEN 0 ELSE latest - h + 1
(* A block above the tip counts no confirmation, nor does the mempool,     *)
(* which has height 0.                                                     *)
confirmationCount(latest, h) ==
    IF h = 0 \/ latest - h + 1 < 0 THEN 0 ELSE latest - h + 1

Evidence(t, h, latest, canonical) ==
    [ref |-> t, height |-> h, confirmations |-> confirmationCount(latest, h), canonical |-> canonical]

(* Amounts are added up per settlement, not per transfer.                  *)
Sum(evidence) == MapThenSumSet(LAMBDA e : Amount[e.ref], evidence)
AtDepth(evidence, n) == {e \in evidence : e.canonical /\ e.confirmations >= n}

Answer(evidence, latestAmount) ==
    LET confirmed == Sum(AtDepth(evidence, confirmations.businessMin)) >= confirmedRequired
    IN [confirmed |-> confirmed,
        detected  |-> ~confirmed /\ latestAmount >= detectedRequired,
        finality  |-> Sum(AtDepth(evidence, confirmations.finalityMin)) >= confirmedRequired]

-----------------------------------------------------------------------------
(* The calls                                                               *)

FirstCall == IF rail = "btc" THEN "stats" ELSE "tip"

Begin ==
    /\ ~Scanning
    /\ at' = FirstCall
    /\ found' = {} /\ outcome' = NULL /\ funded' = 0 /\ tip' = 0
    /\ deepest' = [t \in Transfers |-> DepthIn(chain, t)]
    /\ throughout' = OnChain(chain) /\ disturbed' = FALSE
    /\ UNCHANGED <<rail, config, chainVars, height, todo, faults>>

fetchAddressStats ==
    /\ at = "stats" /\ at' = "tip"
    /\ funded' = Total(sent)
    /\ UNCHANGED <<rail, config, chainVars, tip, height, todo, found, outcome, faults, historyVars>>

fetchTipHeight ==
    /\ at = "tip"
    /\ tip' = Len(chain)
    /\ at' = CASE rail = "btc" -> "utxos" [] rail = "erc20" -> "logs" [] OTHER -> "block"
    /\ height' = 1
    /\ UNCHANGED <<rail, config, chainVars, funded, todo, found, outcome, faults, historyVars>>

Finish(evidence, latestAmount) ==
    /\ found' = evidence
    /\ outcome' = Answer(evidence, latestAmount)
    /\ at' = "done"
    /\ UNCHANGED <<rail, config, chainVars, tip, funded, todo, faults, historyVars>>

fetchAddressUTXOs ==
    /\ at = "utxos"
    /\ Finish({Evidence(t, IF t \in OnChain(chain) THEN HeightIn(chain, t) ELSE 0, tip, TRUE) :
                  t \in sent \ spent}, funded)
    /\ height' = 0

(* The logs reach to the latest block, which may be above the tip; a node  *)
(* may also report logs of blocks that were replaced, marked as removed.   *)
fetchERC20TransferLogs ==
    /\ at = "logs"
    /\ \E removed \in SUBSET dropped :
         LET logs == {Evidence(t, HeightIn(chain, t), tip, TRUE) : t \in OnChain(chain)}
                       \cup {Evidence(t, tip, tip, FALSE) : t \in removed}
         IN Finish(logs, Sum(AtDepth(logs, 0)))
    /\ height' = 0

fetchBlockVariantNoEmptyCheck ==
    /\ at = "block" /\ height <= tip
    /\ todo' = chain[height] /\ at' = "receipt" /\ UNCHANGED height
    /\ UNCHANGED <<rail, config, chainVars, tip, funded, found, outcome, faults, historyVars>>

fetchBlockWithTransactions ==
    /\ at = "block" /\ height <= tip
    /\ IF chain[height] = {}
       THEN height' = height + 1 /\ UNCHANGED <<at, todo>>
       ELSE todo' = chain[height] /\ at' = "receipt" /\ UNCHANGED height
    /\ UNCHANGED <<rail, config, chainVars, tip, funded, found, outcome, faults, historyVars>>

transactionSucceededVariantFreshTip ==
    /\ at = "receipt"
    /\ \E t \in todo :
         /\ found' = IF t \in OnChain(chain)
                     THEN found \cup {Evidence(t, height, Len(chain), TRUE)} ELSE found
         /\ todo' = todo \ {t}
         /\ IF todo = {t} THEN at' = "block" /\ height' = height + 1 ELSE UNCHANGED <<at, height>>
    /\ UNCHANGED <<rail, config, chainVars, tip, funded, outcome, faults, historyVars>>

(* A receipt that has gone with its block is null, and the transfer is     *)
(* left out.                                                               *)
transactionSucceeded ==
    /\ at = "receipt"
    /\ \E t \in todo :
         /\ found' = IF t \in OnChain(chain) THEN found \cup {Evidence(t, height, tip, TRUE)} ELSE found
         /\ todo' = todo \ {t}
         /\ IF todo = {t} THEN at' = "block" /\ height' = height + 1 ELSE UNCHANGED <<at, height>>
    /\ UNCHANGED <<rail, config, chainVars, tip, funded, outcome, faults, historyVars>>

ScanEnds ==
    /\ at = "block" /\ height > tip
    /\ Finish(found, Sum(AtDepth(found, 0)))
    /\ height' = 0

(* A call fails or times out: the observation as a whole is an error.      *)
CallFails ==
    /\ Scanning /\ faults < MaxFaults
    /\ faults' = faults + 1
    /\ at' = "idle"
    /\ found' = {} /\ todo' = {} /\ height' = 0 /\ funded' = 0 /\ tip' = 0
    /\ UNCHANGED <<rail, config, chainVars, outcome, historyVars>>

-----------------------------------------------------------------------------
Init ==
    /\ rail \in Rails /\ config \in Configs
    /\ chain = <<>> /\ sent = {} /\ spent = {} /\ dropped = {}
    /\ at = "idle" /\ tip = 0 /\ funded = 0 /\ height = 0 /\ todo = {} /\ found = {}
    /\ outcome = NULL /\ reorgs = 0 /\ faults = 0
    /\ deepest = [t \in Transfers |-> 0] /\ throughout = {} /\ disturbed = FALSE

ChainStep == Broadcast \/ Mine \/ Reorganise \/ Spend

Call ==
    \/ fetchAddressStats \/ fetchTipHeight \/ fetchAddressUTXOs \/ fetchERC20TransferLogs
    \/ fetchBlockWithTransactions \/ transactionSucceeded \/ ScanEnds

Next == ChainStep \/ Begin \/ Call \/ CallFails

Spec == Init /\ [][Next]_vars
=================================================================================
