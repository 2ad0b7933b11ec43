------------------------ MODULE ChainObservationProofs ------------------------
(***************************************************************************)
(* What is proved of an observation for any transfers, amounts, settings,  *)
(* chain lengths and numbers of reorganisations and failed calls.          *)
(***************************************************************************)
EXTENDS ChainObservationProps, FiniteSetTheorems, TLAPS

Places == {"idle", "stats", "tip", "utxos", "logs", "block", "receipt", "done"}

Found == [ref : Transfers, height : Nat, confirmations : Nat, canonical : BOOLEAN]

(* The chain: a transfer is in one block at most.                          *)
ChainInv ==
    /\ chain \in Seq(SUBSET Transfers)
    /\ \A g, h \in DOMAIN chain : g # h => chain[g] \cap chain[h] = {}
    /\ sent \subseteq Transfers /\ dropped \subseteq Transfers

ScanType ==
    /\ at \in Places /\ tip \in Nat /\ height \in Nat
    /\ todo \subseteq Transfers /\ (at # "receipt" => todo = {})
    /\ found \subseteq Found
    /\ deepest \in [Transfers -> Nat]

(* The height that was read is never above the chain, whose length only    *)
(* grows, and the transfers of the block being scanned were that deep when *)
(* the block was read.                                                     *)
ScanInv ==
    /\ Scanning => tip <= Len(chain) /\ \A t \in Transfers : DepthIn(chain, t) <= deepest[t]
    /\ at = "block" => height >= 1
    /\ at = "receipt" => 1 <= height /\ height <= tip /\ \A t \in todo : tip - height + 1 <= deepest[t]
    /\ ConfirmationsNotOverstated

ObservationInv == ChainInv /\ ScanType /\ ScanInv

-----------------------------------------------------------------------------
(* Policies                                                                *)

(* Whatever is configured, a payment that is worth a confirmation is worth *)
(* a detection, nothing is detected for free, and no more than the whole   *)
(* amount is asked for (newThresholdPolicy); finality is never reached at  *)
(* a lower depth than confirmation, nor confirmation without one block     *)
(* (newConfirmationPolicy).                                                *)
THEOREM PoliciesOrdered ==
    ASSUME NEW a \in Int, NEW b \in Int
    PROVE  /\ 0 < newThresholdPolicy(a, b).detectedBPS
           /\ newThresholdPolicy(a, b).detectedBPS <= newThresholdPolicy(a, b).confirmedBPS
           /\ newThresholdPolicy(a, b).confirmedBPS <= thresholdDenominatorBPS
           /\ 0 < newConfirmationPolicy(a, b).businessMin
           /\ newConfirmationPolicy(a, b).businessMin <= newConfirmationPolicy(a, b).finalityMin
  BY DEF newThresholdPolicy, newConfirmationPolicy, OrDefault, AtMost, thresholdDenominatorBPS, defaultBPS,
         defaultMinConf

-----------------------------------------------------------------------------
(* Sums over finite sets                                                   *)

Pick(S) == CHOOSE x \in S : TRUE

(* f adds up w over every subset of S, one chosen element at a time, the   *)
(* way a fold over a set does.                                             *)
AddsUp(f, w, S) ==
    f = [T \in SUBSET S |-> IF T = {} THEN 0 ELSE w[Pick(T)] + f[T \ {Pick(T)}]]
Adder(w, S) == CHOOSE f : AddsUp(f, w, S)
SumOf(w, S) == Adder(w, S)[S]

(* Among subsets of a finite set there is a smallest one: what would fail  *)
(* first in an induction.                                                  *)
LEMMA SmallestSubset ==
    ASSUME NEW S, IsFiniteSet(S), NEW Bad \in SUBSET SUBSET S, Bad # {}
    PROVE  \E T \in Bad : \A U \in Bad : U \subseteq T => U = T
  <1>1. IsWellFoundedOn(StrictSubsetOrdering(S), SUBSET S)
    BY FS_StrictSubsetOrderingWellFounded, FS_FiniteSubsetsOfFinite
  <1>2. PICK T \in Bad : \A U \in Bad : <<U, T>> \notin StrictSubsetOrdering(S)
    BY <1>1, WFMin
  <1> QED
    BY <1>2 DEF StrictSubsetOrdering

LEMMA PickIn == ASSUME NEW S, S # {} PROVE Pick(S) \in S
  BY DEF Pick

LEMMA AddersAgree ==
    ASSUME NEW w, NEW A, NEW B, NEW f, AddsUp(f, w, A), NEW g, AddsUp(g, w, B),
           NEW S, IsFiniteSet(S), S \subseteq A, S \subseteq B
    PROVE  f[S] = g[S]
  <1> DEFINE Bad == {T \in SUBSET S : f[T] # g[T]}
  <1>0. Bad \in SUBSET SUBSET S
    OBVIOUS
  <1>1. ASSUME Bad # {} PROVE FALSE
    <2>1. PICK T \in Bad : \A U \in Bad : U \subseteq T => U = T
      <3> HIDE DEF Bad
      <3> QED
        BY <1>0, <1>1, SmallestSubset
    <2>2. T # {}
      BY <2>1 DEF AddsUp
    <2> DEFINE U == T \ {Pick(T)}
    <2>3. U \in SUBSET S /\ U \subseteq T /\ U # T
      BY <2>2, PickIn
    <2>4. f[U] = g[U]
      BY <2>1, <2>3
    <2> QED
      BY <2>1, <2>2, <2>4 DEF AddsUp
  <1> QED
    BY <1>1

LEMMA AdderExists ==
    ASSUME NEW w, NEW S, IsFiniteSet(S)
    PROVE  AddsUp(Adder(w, S), w, S)
  <1> DEFINE Bad == {T \in SUBSET S : ~\E f : AddsUp(f, w, T)}
  <1>0. Bad \in SUBSET SUBSET S
    OBVIOUS
  <1>1. ASSUME Bad # {} PROVE FALSE
    <2>1. PICK T \in Bad : \A U \in Bad : U \subseteq T => U = T
      <3> HIDE DEF Bad
      <3> QED
        BY <1>0, <1>1, SmallestSubset
    <2>2. \A U \in SUBSET T : U # T => AddsUp(Adder(w, U), w, U)
      BY <2>1 DEF Adder
    <2>3. \A U \in SUBSET T : IsFiniteSet(U)
      BY FS_Subset
    <2> DEFINE f == [U \in SUBSET T |->
                       IF U = {} THEN 0 ELSE w[Pick(U)] + Adder(w, U \ {Pick(U)})[U \ {Pick(U)}]]
    <2>4. ASSUME NEW U \in SUBSET T, U # {}
          PROVE  f[U \ {Pick(U)}] = Adder(w, U \ {Pick(U)})[U \ {Pick(U)}]
      <3> DEFINE V == U \ {Pick(U)}
      <3>1. V \in SUBSET T /\ V # T /\ V \subseteq V
        BY <2>4, PickIn
      <3>2. AddsUp(Adder(w, V), w, V)
        BY <2>2, <3>1
      <3>3. CASE V = {}
        BY <3>1, <3>2, <3>3 DEF AddsUp
      <3>4. CASE V # {}
        <4> DEFINE W == V \ {Pick(V)}
        <4>1. W \in SUBSET V /\ W # T /\ W \in SUBSET T
          BY <3>1, <3>4, PickIn
        <4>2. AddsUp(Adder(w, W), w, W)
          BY <2>2, <4>1
        <4>3. Adder(w, V)[W] = Adder(w, W)[W]
          BY <2>3, <3>2, <4>1, <4>2, AddersAgree
        <4>4. Adder(w, V)[V] = w[Pick(V)] + Adder(w, V)[W]
          BY <3>2, <3>4 DEF AddsUp
        <4>5. f[V] = w[Pick(V)] + Adder(w, W)[W]
          BY <3>1, <3>4
        <4> QED
          BY <4>3, <4>4, <4>5
      <3> QED
        BY <3>3, <3>4
    <2>5. AddsUp(f, w, T)
      BY <2>4 DEF AddsUp
    <2> QED
      BY <2>1, <2>5
  <1> QED
    BY <1>1 DEF Adder

(* The equation that a fold is defined by.                                 *)
LEMMA SumPicked ==
    ASSUME NEW w, NEW S, IsFiniteSet(S)
    PROVE  SumOf(w, S) = IF S = {} THEN 0 ELSE w[Pick(S)] + SumOf(w, S \ {Pick(S)})
  <1>1. AddsUp(Adder(w, S), w, S)
    BY AdderExists
  <1> DEFINE R == S \ {Pick(S)}
  <1>2. IsFiniteSet(R) /\ R \subseteq S
    BY FS_Subset
  <1>3. Adder(w, S)[R] = Adder(w, R)[R]
    BY <1>1, <1>2, AdderExists, AddersAgree
  <1> QED
    BY <1>1, <1>3 DEF AddsUp, SumOf

LEMMA SumType ==
    ASSUME NEW w, NEW S, IsFiniteSet(S), \A x \in S : w[x] \in Nat
    PROVE  SumOf(w, S) \in Nat
  <1> DEFINE Bad == {T \in SUBSET S : SumOf(w, T) \notin Nat}
  <1>0. Bad \in SUBSET SUBSET S
    OBVIOUS
  <1>1. ASSUME Bad # {} PROVE FALSE
    <2>1. PICK T \in Bad : \A U \in Bad : U \subseteq T => U = T
      <3> HIDE DEF Bad
      <3> QED
        BY <1>0, <1>1, SmallestSubset
    <2>2. IsFiniteSet(T) /\ T \subseteq S
      BY <2>1, FS_Subset
    <2>3. T # {}
      BY <2>1, <2>2, SumPicked
    <2> DEFINE U == T \ {Pick(T)}
    <2>4. Pick(T) \in T /\ U \in SUBSET S /\ U \subseteq T /\ U # T
      BY <2>2, <2>3, PickIn
    <2>5. SumOf(w, U) \in Nat /\ w[Pick(T)] \in Nat
      BY <2>1, <2>2, <2>4
    <2>6. SumOf(w, T) = w[Pick(T)] + SumOf(w, U)
      BY <2>2, <2>3, SumPicked
    <2> QED
      BY <2>1, <2>5, <2>6
  <1> QED
    BY <1>1

(* The order of the additions does not matter.                             *)
LEMMA SumAny ==
    ASSUME NEW w, NEW S, IsFiniteSet(S), \A x \in S : w[x] \in Nat, NEW x \in S
    PROVE  SumOf(w, S) = w[x] + SumOf(w, S \ {x})
  <1> DEFINE Bad == {T \in SUBSET S : \E y \in T : SumOf(w, T) # w[y] + SumOf(w, T \ {y})}
  <1>0. Bad \in SUBSET SUBSET S
    OBVIOUS
  <1>1. ASSUME Bad # {} PROVE FALSE
    <2>1. PICK T \in Bad : \A U \in Bad : U \subseteq T => U = T
      <3> HIDE DEF Bad
      <3> QED
        BY <1>0, <1>1, SmallestSubset
    <2>2. PICK y \in T : SumOf(w, T) # w[y] + SumOf(w, T \ {y})
      BY <2>1
    <2> DEFINE p == Pick(T)
               U == T \ {p, y}
    <2>3. p \in T /\ T \subseteq S /\ w[p] \in Nat /\ w[y] \in Nat
      BY <2>1, <2>2, PickIn
    <2>4. \A V \in SUBSET T : IsFiniteSet(V) /\ SumOf(w, V) \in Nat
      BY <2>3, FS_Subset, SumType
    <2>5. SumOf(w, T) = w[p] + SumOf(w, T \ {p})
      BY <2>2, <2>4, SumPicked
    <2>6. p # y
      BY <2>2, <2>5
    <2>7. SumOf(w, T \ {p}) = w[y] + SumOf(w, U)
      <3>1. T \ {p} \in SUBSET S /\ T \ {p} # T /\ y \in T \ {p} /\ (T \ {p}) \ {y} = U
        BY <2>2, <2>3, <2>6
      <3> QED
        BY <2>1, <3>1
    <2>8. SumOf(w, T \ {y}) = w[p] + SumOf(w, U)
      <3>1. T \ {y} \in SUBSET S /\ T \ {y} # T /\ p \in T \ {y} /\ (T \ {y}) \ {p} = U
        BY <2>2, <2>3, <2>6
      <3> QED
        BY <2>1, <3>1
    <2>9. SumOf(w, U) \in Nat
      BY <2>4
    <2> HIDE DEF p, U
    <2> QED
      BY <2>2, <2>3, <2>5, <2>7, <2>8, <2>9
  <1> QED
    BY <1>1

LEMMA SumMonotone ==
    ASSUME NEW w, NEW S, IsFiniteSet(S), \A x \in S : w[x] \in Nat, NEW R \in SUBSET S
    PROVE  SumOf(w, R) <= SumOf(w, S)
  <1> DEFINE Bad == {T \in SUBSET S : R \subseteq T /\ ~(SumOf(w, R) <= SumOf(w, T))}
  <1>0. Bad \in SUBSET SUBSET S
    OBVIOUS
  <1>1. ASSUME Bad # {} PROVE FALSE
    <2>1. PICK T \in Bad : \A U \in Bad : U \subseteq T => U = T
      <3> HIDE DEF Bad
      <3> QED
        BY <1>0, <1>1, SmallestSubset
    <2>2. \A V \in SUBSET S : IsFiniteSet(V) /\ SumOf(w, V) \in Nat
      BY FS_Subset, SumType
    <2>3. PICK y \in T : y \notin R
      BY <2>1, <2>2
    <2>4. SumOf(w, R) <= SumOf(w, T \ {y})
      BY <2>1, <2>3
    <2>5. SumOf(w, T) = w[y] + SumOf(w, T \ {y}) /\ w[y] \in Nat
      BY <2>1, <2>2, SumAny
    <2>6. /\ SumOf(w, R) \in Nat /\ SumOf(w, T) \in Nat /\ SumOf(w, T \ {y}) \in Nat
          /\ ~(SumOf(w, R) <= SumOf(w, T))
      BY <2>1, <2>2
    <2> QED
      BY <2>4, <2>5, <2>6
  <1> QED
    BY <1>1

(* The two sums of the model: what transfers are worth, and what the       *)
(* settlements that refer to them are worth.                               *)
Worth == [e \in Found |-> Amount[e.ref]]
RefsOf(E) == {e.ref : e \in E}

LEMMA TotalIsSum == ASSUME NEW S PROVE Total(S) = SumOf(Amount, S)
  BY DEF Total, MapThenSumSet, MapThenFoldSet, SumOf, Adder, AddsUp, Pick

LEMMA SumIsSum == ASSUME NEW E \in SUBSET Found PROVE Sum(E) = SumOf(Worth, E)
  BY DEF Sum, MapThenSumSet, MapThenFoldSet, SumOf, Adder, AddsUp, Pick, Worth

LEMMA TotalFacts ==
    ASSUME NEW S \in SUBSET Transfers
    PROVE  /\ IsFiniteSet(S) /\ Total(S) \in Nat
           /\ \A R \in SUBSET S : Total(R) <= Total(S)
  <1>1. IsFiniteSet(S) /\ \A t \in S : Amount[t] \in Nat
    BY ObservationAssumption, FS_Subset
  <1> QED
    BY <1>1, SumType, SumMonotone, TotalIsSum

LEMMA SumFacts ==
    ASSUME NEW E \in SUBSET Found, IsFiniteSet(E)
    PROVE  Sum(E) \in Nat /\ \A D \in SUBSET E : Sum(D) <= Sum(E)
  <1>1. \A e \in E : Worth[e] \in Nat
    BY ObservationAssumption DEF Worth, Found
  <1>2. \A D \in SUBSET E : D \in SUBSET Found /\ Sum(D) = SumOf(Worth, D)
    BY SumIsSum
  <1> QED
    BY <1>1, <1>2, SumType, SumMonotone

(* Settlements that refer to different transfers are worth what these are. *)
LEMMA SumOfRefs ==
    ASSUME NEW E \in SUBSET Found, IsFiniteSet(E), \A d, e \in E : d.ref = e.ref => d = e
    PROVE  Sum(E) = Total(RefsOf(E))
  <1> DEFINE Bad == {T \in SUBSET E : SumOf(Worth, T) # SumOf(Amount, RefsOf(T))}
  <1>0. Bad \in SUBSET SUBSET E
    OBVIOUS
  <1>1. ASSUME Bad # {} PROVE FALSE
    <2>1. PICK T \in Bad : \A U \in Bad : U \subseteq T => U = T
      <3> HIDE DEF Bad
      <3> QED
        BY <1>0, <1>1, SmallestSubset
    <2>2. /\ T \subseteq E /\ IsFiniteSet(T) /\ \A e \in T : Worth[e] = Amount[e.ref] /\ Worth[e] \in Nat
          /\ RefsOf(T) \subseteq Transfers /\ IsFiniteSet(RefsOf(T))
      BY <2>1, FS_Subset, ObservationAssumption DEF Worth, Found, RefsOf
    <2>3. T # {}
      <3>1. IsFiniteSet({}) /\ RefsOf({}) = {}
        BY FS_EmptySet DEF RefsOf
      <3>2. SumOf(Worth, {}) = 0 /\ SumOf(Amount, RefsOf({})) = 0
        BY <3>1, SumPicked
      <3> QED
        BY <2>1, <3>2
    <2>4. PICK y \in T : TRUE
      BY <2>3
    <2>5. RefsOf(T) \ {y.ref} = RefsOf(T \ {y}) /\ y.ref \in RefsOf(T)
      BY <2>2, <2>4 DEF RefsOf
    <2>6. SumOf(Worth, T) = Worth[y] + SumOf(Worth, T \ {y})
      BY <2>2, SumAny
    <2>7. SumOf(Amount, RefsOf(T)) = Amount[y.ref] + SumOf(Amount, RefsOf(T \ {y}))
      <3>1. \A t \in RefsOf(T) : Amount[t] \in Nat
        BY <2>2, ObservationAssumption
      <3>2. \A t \in RefsOf(T) :
              SumOf(Amount, RefsOf(T)) = Amount[t] + SumOf(Amount, RefsOf(T) \ {t})
        BY <2>2, <3>1, SumAny
      <3> QED
        BY <2>5, <3>2
    <2>8. SumOf(Worth, T \ {y}) = SumOf(Amount, RefsOf(T \ {y}))
      BY <2>1, <2>2
    <2> QED
      BY <2>1, <2>2, <2>6, <2>7, <2>8
  <1> QED
    BY <1>1, SumIsSum, TotalIsSum

-----------------------------------------------------------------------------
(* Depths                                                                  *)

LEMMA HeightType ==
    ASSUME NEW c \in Seq(SUBSET Transfers), NEW t \in OnChain(c)
    PROVE  /\ HeightIn(c, t) \in DOMAIN c /\ t \in c[HeightIn(c, t)] /\ t \in Transfers
           /\ HeightIn(c, t) \in Nat /\ 1 <= HeightIn(c, t) /\ HeightIn(c, t) <= Len(c)
  <1>1. \E h \in DOMAIN c : t \in c[h]
    BY DEF OnChain
  <1>2. HeightIn(c, t) \in DOMAIN c /\ t \in c[HeightIn(c, t)]
    BY <1>1 DEF HeightIn
  <1>3. DOMAIN c = 1 .. Len(c) /\ Len(c) \in Nat /\ \A h \in DOMAIN c : c[h] \subseteq Transfers
    OBVIOUS
  <1> QED
    BY <1>2, <1>3

LEMMA DepthType ==
    ASSUME NEW c \in Seq(SUBSET Transfers), NEW t \in Transfers
    PROVE  DepthIn(c, t) \in Nat
  <1>1. Len(c) \in Nat
    OBVIOUS
  <1> QED
    BY <1>1, HeightType DEF DepthIn

(* In a chain without repetitions the height of a transfer is that of the  *)
(* block it is in.                                                         *)
LEMMA HeightOf ==
    ASSUME NEW c \in Seq(SUBSET Transfers), NEW h \in DOMAIN c, NEW t \in c[h],
           \A g, i \in DOMAIN c : g # i => c[g] \cap c[i] = {}
    PROVE  t \in OnChain(c) /\ HeightIn(c, t) = h /\ DepthIn(c, t) = Len(c) - h + 1
  <1>1. t \in OnChain(c)
    BY DEF OnChain
  <1>2. HeightIn(c, t) = h
    BY <1>1, HeightType
  <1> QED
    BY <1>1, <1>2 DEF DepthIn

LEMMA CountType ==
    ASSUME NEW latest \in Nat, NEW h \in Nat
    PROVE  /\ confirmationCount(latest, h) \in Nat
           /\ h # 0 /\ latest - h + 1 >= 0 => confirmationCount(latest, h) = latest - h + 1
           /\ h = 0 => confirmationCount(latest, h) = 0
           /\ latest - h + 1 < 0 => confirmationCount(latest, h) = 0
  BY DEF confirmationCount

LEMMA EvidenceType ==
    ASSUME NEW t \in Transfers, NEW h \in Nat, NEW latest \in Nat, NEW b \in BOOLEAN
    PROVE  /\ Evidence(t, h, latest, b) \in Found
           /\ Evidence(t, h, latest, b).ref = t /\ Evidence(t, h, latest, b).canonical = b
           /\ Evidence(t, h, latest, b).confirmations = confirmationCount(latest, h)
  BY CountType DEF Evidence, Found

-----------------------------------------------------------------------------
(* The chain moves                                                         *)

(* A block is added, or the last blocks are replaced by at least as many.  *)
LEMMA MineShape ==
    ASSUME ObservationInv, Mine
    PROVE  /\ chain' \in Seq(SUBSET Transfers) /\ Len(chain') = Len(chain) + 1
           /\ \A h \in 1 .. Len(chain) : chain'[h] = chain[h]
           /\ \A g, h \in DOMAIN chain' : g # h => chain'[g] \cap chain'[h] = {}
           /\ \E block \in SUBSET (sent \ OnChain(chain)) :
                 /\ dropped' = dropped \ block
                 /\ OnChain(chain') = OnChain(chain) \cup block
  <1>1. PICK block \in SUBSET (sent \ OnChain(chain)) : chain' = Append(chain, block) /\ dropped' = dropped \ block
    BY DEF Mine
  <1>2. block \in SUBSET Transfers /\ chain \in Seq(SUBSET Transfers)
    BY DEF ObservationInv, ChainInv
  <1>3. /\ chain' \in Seq(SUBSET Transfers) /\ Len(chain') = Len(chain) + 1 /\ Len(chain) \in Nat
        /\ DOMAIN chain = 1 .. Len(chain) /\ DOMAIN chain' = 1 .. Len(chain) + 1
        /\ \A h \in 1 .. Len(chain) : chain'[h] = chain[h]
        /\ chain'[Len(chain) + 1] = block
    BY <1>1, <1>2
  <1>4. \A h \in DOMAIN chain : chain[h] \cap block = {}
    BY DEF OnChain
  <1>5. \A g, h \in DOMAIN chain' : g # h => chain'[g] \cap chain'[h] = {}
    BY <1>3, <1>4 DEF ObservationInv, ChainInv
  <1>6. OnChain(chain') = OnChain(chain) \cup block
    BY <1>3 DEF OnChain
  <1> QED
    BY <1>1, <1>3, <1>5, <1>6

LEMMA ReorganiseShape ==
    ASSUME ObservationInv, Reorganise
    PROVE  /\ chain' \in Seq(SUBSET Transfers)
           /\ Len(chain) <= Len(chain') /\ Len(chain') <= MaxHeight
           /\ \A g, h \in DOMAIN chain' : g # h => chain'[g] \cap chain'[h] = {}
           /\ OnChain(chain') \subseteq OnChain(chain) \cup sent
  <1>1. PICK fork \in 0 .. Len(chain) - 1, more \in Len(chain) .. MaxHeight :
          \E branch \in [fork + 1 .. more -> SUBSET (sent \ OnChain(SubSeq(chain, 1, fork)))] :
            /\ \A g, h \in fork + 1 .. more : g # h => branch[g] \cap branch[h] = {}
            /\ chain' = [h \in 1 .. more |-> IF h <= fork THEN SubSeq(chain, 1, fork)[h] ELSE branch[h]]
    BY DEF Reorganise
  <1> DEFINE kept == SubSeq(chain, 1, fork)
  <1>2. PICK branch \in [fork + 1 .. more -> SUBSET (sent \ OnChain(kept))] :
          /\ \A g, h \in fork + 1 .. more : g # h => branch[g] \cap branch[h] = {}
          /\ chain' = [h \in 1 .. more |-> IF h <= fork THEN kept[h] ELSE branch[h]]
    BY <1>1
  <1>3. /\ fork \in Nat /\ more \in Nat /\ Len(chain) \in Nat /\ fork <= Len(chain) /\ Len(chain) <= more
        /\ fork <= more /\ chain \in Seq(SUBSET Transfers) /\ DOMAIN chain = 1 .. Len(chain)
    BY <1>1, ObservationAssumption DEF ObservationInv, ChainInv
  <1>4. DOMAIN kept = 1 .. fork /\ \A h \in 1 .. fork : kept[h] = chain[h] /\ h \in DOMAIN chain
    BY <1>3
  <1> HIDE DEF kept
  <1>5. DOMAIN chain' = 1 .. more /\ \A h \in 1 .. more : chain'[h] = IF h <= fork THEN chain[h] ELSE branch[h]
    BY <1>2, <1>3, <1>4
  <1>6. \A h \in 1 .. more : chain'[h] \in SUBSET Transfers
    <2> SUFFICES ASSUME NEW h \in 1 .. more PROVE chain'[h] \in SUBSET Transfers
      OBVIOUS
    <2>1. CASE h <= fork
      BY <1>3, <1>4, <1>5, <2>1
    <2>2. CASE ~(h <= fork)
      <3>1. h \in fork + 1 .. more
        BY <1>3, <2>2
      <3> QED
        BY <1>2, <1>5, <2>2, <3>1 DEF ObservationInv, ChainInv
    <2> QED
      BY <2>1, <2>2
  <1>7. chain' \in Seq(SUBSET Transfers) /\ Len(chain') = more
    <2>1. chain' \in [1 .. more -> SUBSET Transfers]
      BY <1>2, <1>5, <1>6
    <2> QED
      BY <1>3, <2>1
  <1>8. \A g, h \in DOMAIN chain' : g # h => chain'[g] \cap chain'[h] = {}
    <2>1. ASSUME NEW g \in 1 .. more, NEW h \in 1 .. more, g < h
          PROVE  chain'[g] \cap chain'[h] = {}
      <3>1. CASE h <= fork
        <4>1. g <= fork /\ g \in DOMAIN chain /\ h \in DOMAIN chain /\ g # h
          BY <1>3, <2>1, <3>1
        <4> QED
          BY <1>5, <3>1, <4>1 DEF ObservationInv, ChainInv
      <3>2. CASE g <= fork /\ ~(h <= fork)
        <4>1. h \in fork + 1 .. more /\ g \in 1 .. fork
          BY <1>3, <2>1, <3>2
        <4>2. branch[h] \cap OnChain(kept) = {}
          BY <1>2, <4>1
        <4>3. kept[g] \subseteq OnChain(kept)
          BY <1>4, <4>1 DEF OnChain
        <4> QED
          BY <1>4, <1>5, <3>2, <4>1, <4>2, <4>3
      <3>3. CASE ~(g <= fork)
        <4>1. g \in fork + 1 .. more /\ h \in fork + 1 .. more /\ g # h /\ ~(h <= fork)
          BY <1>3, <2>1, <3>3
        <4> QED
          BY <1>2, <1>5, <3>3, <4>1
      <3> QED
        BY <3>1, <3>2, <3>3
    <2>2. \A g, h \in 1 .. more : g # h => g < h \/ h < g
      BY <1>3
    <2> QED
      BY <1>5, <2>1, <2>2
  <1>9. OnChain(chain') \subseteq OnChain(chain) \cup sent
    <2> SUFFICES ASSUME NEW h \in 1 .. more, NEW t \in chain'[h] PROVE t \in OnChain(chain) \cup sent
      BY <1>5 DEF OnChain
    <2>1. CASE h <= fork
      BY <1>3, <1>4, <1>5, <2>1 DEF OnChain
    <2>2. CASE ~(h <= fork)
      <3>1. h \in fork + 1 .. more
        BY <1>3, <2>2
      <3> QED
        BY <1>2, <1>5, <2>2, <3>1
    <2> QED
      BY <2>1, <2>2
  <1> QED
    BY <1>3, <1>7, <1>8, <1>9

(* What a longer chain without repetitions leaves of the invariant.        *)
LEMMA Moved ==
    ASSUME ObservationInv, UNCHANGED scanVars, Remember(chain', TRUE) \/ Remember(chain', FALSE),
           chain' \in Seq(SUBSET Transfers), Len(chain) <= Len(chain')
    PROVE  ScanType' /\ ScanInv'
  <1>1. UNCHANGED <<at, tip, height, todo, found>> /\ Scanning' = Scanning
    BY DEF scanVars, Scanning
  <1>2. CASE Scanning
    <2>1. deepest' = [t \in Transfers |-> IF DepthIn(chain', t) > deepest[t] THEN DepthIn(chain', t) ELSE deepest[t]]
      BY <1>2 DEF Remember
    <2>2. \A t \in Transfers : deepest[t] \in Nat /\ DepthIn(chain', t) \in Nat
      BY DepthType DEF ObservationInv, ScanType
    <2>3. /\ deepest' \in [Transfers -> Nat]
          /\ \A t \in Transfers : deepest[t] <= deepest'[t] /\ DepthIn(chain', t) <= deepest'[t]
      BY <2>1, <2>2
    <2>4. ScanType'
      BY <1>1, <2>3 DEF ObservationInv, ScanType
    <2>5. \A e \in found : e.ref \in Transfers /\ e.confirmations \in Nat
      BY DEF ObservationInv, ScanType, Found
    <2>6. ConfirmationsNotOverstated'
      BY <1>1, <2>2, <2>3, <2>5 DEF ObservationInv, ScanInv, ConfirmationsNotOverstated
    <2>7. at = "receipt" => \A t \in todo : tip - height + 1 <= deepest'[t]
      BY <2>2, <2>3 DEF ObservationInv, ScanInv, ScanType
    <2>8. tip <= Len(chain')
      <3>1. Len(chain) \in Nat /\ Len(chain') \in Nat /\ tip \in Nat /\ tip <= Len(chain)
        BY <1>2 DEF ObservationInv, ChainInv, ScanType, ScanInv
      <3> QED
        BY <3>1
    <2> QED
      BY <1>1, <2>3, <2>4, <2>6, <2>7, <2>8 DEF ObservationInv, ScanInv
  <1>3. CASE ~Scanning
    <2>1. UNCHANGED deepest
      BY <1>3 DEF Remember, historyVars
    <2> QED
      BY <1>1, <1>3, <2>1 DEF ObservationInv, ScanType, ScanInv, Scanning, ConfirmationsNotOverstated
  <1> QED
    BY <1>2, <1>3

LEMMA ChainStepInv == ASSUME ObservationInv, ChainStep PROVE ObservationInv'
  <1>1. CASE Broadcast \/ Spend
    <2>1. UNCHANGED <<chain, dropped, scanVars, historyVars>> /\ sent' \subseteq Transfers
      BY <1>1 DEF Broadcast, Spend, ObservationInv, ChainInv
    <2> QED
      BY <2>1 DEF ObservationInv, ChainInv, ScanType, ScanInv, scanVars, historyVars, Scanning,
                  ConfirmationsNotOverstated, DepthIn, OnChain, HeightIn
  <1>2. CASE Mine
    <2>1. PICK block \in SUBSET (sent \ OnChain(chain)) : dropped' = dropped \ block
      BY <1>2, MineShape
    <2>2. /\ chain' \in Seq(SUBSET Transfers) /\ Len(chain') = Len(chain) + 1
          /\ \A g, h \in DOMAIN chain' : g # h => chain'[g] \cap chain'[h] = {}
      BY <1>2, MineShape
    <2>3. ScanType' /\ ScanInv'
      <3>1. Len(chain) \in Nat
        BY DEF ObservationInv, ChainInv
      <3>2. UNCHANGED scanVars /\ Remember(chain', FALSE)
        BY <1>2 DEF Mine
      <3> QED
        BY <2>2, <3>1, <3>2, Moved
    <2> QED
      BY <1>2, <2>1, <2>2, <2>3 DEF Mine, ObservationInv, ChainInv
  <1>3. CASE Reorganise
    <2>1. /\ chain' \in Seq(SUBSET Transfers) /\ Len(chain) <= Len(chain')
          /\ \A g, h \in DOMAIN chain' : g # h => chain'[g] \cap chain'[h] = {}
      BY <1>3, ReorganiseShape
    <2>2. ScanType' /\ ScanInv'
      BY <1>3, <2>1, Moved DEF Reorganise
    <2>3. sent' = sent /\ dropped' \subseteq Transfers
      <3>1. OnChain(chain) \subseteq Transfers
        BY HeightType DEF ObservationInv, ChainInv
      <3> QED
        BY <1>3, <3>1 DEF Reorganise, ObservationInv, ChainInv
    <2> QED
      BY <2>1, <2>2, <2>3 DEF ObservationInv, ChainInv
  <1> QED
    BY <1>1, <1>2, <1>3 DEF ChainStep

-----------------------------------------------------------------------------
(* The calls                                                               *)

LEMMA InitInv == Init => ObservationInv
  <1> SUFFICES ASSUME Init PROVE ObservationInv
    OBVIOUS
  <1>1. ChainInv
    BY DEF Init, ChainInv
  <1>2. ScanType
    BY DEF Init, ScanType, Places
  <1>3. ScanInv
    BY DEF Init, ScanInv, Scanning, ConfirmationsNotOverstated
  <1> QED
    BY <1>1, <1>2, <1>3 DEF ObservationInv

(* A settlement in a block of the chain as it is now, counted from a tip   *)
(* that is no higher, is as deep as reported.                              *)
LEMMA CountedFromTip ==
    ASSUME ObservationInv, Scanning, NEW t \in OnChain(chain)
    PROVE  Evidence(t, HeightIn(chain, t), tip, TRUE).confirmations <= deepest[t]
  <1>1. chain \in Seq(SUBSET Transfers) /\ tip \in Nat /\ Len(chain) \in Nat /\ tip <= Len(chain)
    BY DEF ObservationInv, ChainInv, ScanType, ScanInv
  <1> DEFINE h == HeightIn(chain, t)
  <1>2. h \in Nat /\ 1 <= h /\ t \in Transfers
    BY <1>1, HeightType
  <1> HIDE DEF h
  <1>3. Len(chain) - h + 1 <= deepest[t] /\ deepest[t] \in Nat
    BY <1>2 DEF ObservationInv, ScanInv, ScanType, DepthIn, h
  <1>4. confirmationCount(tip, h) <= deepest[t]
    BY <1>1, <1>2, <1>3 DEF confirmationCount
  <1> QED
    BY <1>1, <1>2, <1>4, EvidenceType DEF h

LEMMA FinishInv ==
    ASSUME ObservationInv, NEW evidence \in SUBSET Found, NEW amount, Finish(evidence, amount), height' = 0,
           todo = {}, \A e \in evidence : e.canonical => e.confirmations <= deepest[e.ref]
    PROVE  ObservationInv'
  BY DEF ObservationInv, ChainInv, ScanType, ScanInv, Finish, chainVars, historyVars, Scanning, Places,
         ConfirmationsNotOverstated, DepthIn, OnChain, HeightIn

LEMMA CallInv == ASSUME ObservationInv, Call PROVE ObservationInv'
  <1>0. /\ chain \in Seq(SUBSET Transfers) /\ Len(chain) \in Nat /\ DOMAIN chain = 1 .. Len(chain)
        /\ tip \in Nat /\ height \in Nat /\ deepest \in [Transfers -> Nat]
    BY DEF ObservationInv, ChainInv, ScanType
  <1>1. CASE fetchAddressStats
    BY <1>1 DEF fetchAddressStats, ObservationInv, ChainInv, ScanType, ScanInv, chainVars, historyVars, Scanning, Places,
                ConfirmationsNotOverstated, DepthIn, OnChain, HeightIn
  <1>2. CASE fetchTipHeight
    <2>1. /\ UNCHANGED <<chain, sent, dropped, todo, found, deepest>>
          /\ tip' = Len(chain) /\ height' = 1 /\ at = "tip" /\ at' \in {"utxos", "logs", "block"}
      BY <1>2 DEF fetchTipHeight, chainVars, historyVars
    <2> QED
      BY <1>0, <2>1 DEF ObservationInv, ChainInv, ScanType, ScanInv, Scanning, Places,
                        ConfirmationsNotOverstated, DepthIn, OnChain, HeightIn
  <1>3. CASE fetchAddressUTXOs
    <2> DEFINE h(t) == IF t \in OnChain(chain) THEN HeightIn(chain, t) ELSE 0
               evidence == {Evidence(t, h(t), tip, TRUE) : t \in sent \ spent}
    <2>1. Finish(evidence, funded) /\ height' = 0 /\ todo = {} /\ Scanning
      BY <1>3 DEF fetchAddressUTXOs, Scanning, ObservationInv, ScanType
    <2>2. ASSUME NEW t \in sent \ spent
          PROVE  /\ Evidence(t, h(t), tip, TRUE) \in Found /\ Evidence(t, h(t), tip, TRUE).ref = t
                 /\ Evidence(t, h(t), tip, TRUE).confirmations <= deepest[t]
      <3>1. t \in Transfers
        BY DEF ObservationInv, ChainInv
      <3>2. CASE t \in OnChain(chain)
        <4>1. HeightIn(chain, t) \in Nat /\ h(t) = HeightIn(chain, t)
          BY <1>0, <3>2, HeightType
        <4>2. Evidence(t, HeightIn(chain, t), tip, TRUE).confirmations <= deepest[t]
          BY <2>1, <3>2, CountedFromTip
        <4>3. /\ Evidence(t, HeightIn(chain, t), tip, TRUE) \in Found
              /\ Evidence(t, HeightIn(chain, t), tip, TRUE).ref = t
          BY <1>0, <3>1, <4>1, EvidenceType
        <4> QED
          BY <4>1, <4>2, <4>3
      <3>3. CASE t \notin OnChain(chain)
        <4>1. Evidence(t, 0, tip, TRUE).confirmations = 0 /\ Evidence(t, 0, tip, TRUE) \in Found /\ Evidence(t, 0, tip, TRUE).ref = t
          <5>1. confirmationCount(tip, 0) = 0
            BY DEF confirmationCount
          <5> QED
            BY <1>0, <3>1, <5>1 DEF Evidence, Found
        <4>2. 0 <= deepest[t]
          BY <1>0, <3>1
        <4> QED
          BY <3>3, <4>1, <4>2
      <3> QED
        BY <3>2, <3>3
    <2>3. evidence \in SUBSET Found /\ \A e \in evidence : e.confirmations <= deepest[e.ref]
      BY <2>2
    <2> HIDE DEF evidence
    <2> QED
      BY <2>1, <2>3, FinishInv
  <1>4. CASE fetchERC20TransferLogs
    <2>1. PICK removed \in SUBSET dropped :
            LET logs == {Evidence(t, HeightIn(chain, t), tip, TRUE) : t \in OnChain(chain)}
                          \cup {Evidence(t, tip, tip, FALSE) : t \in removed}
            IN Finish(logs, Sum(AtDepth(logs, 0)))
      BY <1>4 DEF fetchERC20TransferLogs
    <2> DEFINE logs == {Evidence(t, HeightIn(chain, t), tip, TRUE) : t \in OnChain(chain)}
                         \cup {Evidence(t, tip, tip, FALSE) : t \in removed}
    <2>2. Finish(logs, Sum(AtDepth(logs, 0))) /\ height' = 0 /\ todo = {} /\ Scanning
      BY <1>4, <2>1 DEF fetchERC20TransferLogs, Scanning, ObservationInv, ScanType
    <2>3. ASSUME NEW t \in OnChain(chain)
          PROVE  /\ Evidence(t, HeightIn(chain, t), tip, TRUE) \in Found /\ Evidence(t, HeightIn(chain, t), tip, TRUE).ref = t
                 /\ Evidence(t, HeightIn(chain, t), tip, TRUE).confirmations <= deepest[t]
      BY <1>0, <2>2, HeightType, EvidenceType, CountedFromTip
    <2>4. ASSUME NEW t \in removed
          PROVE  Evidence(t, tip, tip, FALSE) \in Found /\ ~Evidence(t, tip, tip, FALSE).canonical
      <3>1. t \in Transfers
        BY DEF ObservationInv, ChainInv
      <3> QED
        BY <1>0, <3>1, EvidenceType
    <2>5. logs \in SUBSET Found /\ \A e \in logs : e.canonical => e.confirmations <= deepest[e.ref]
      BY <2>3, <2>4
    <2> HIDE DEF logs
    <2> QED
      BY <2>2, <2>5, FinishInv
  <1>5. CASE fetchBlockWithTransactions
    <2>1. /\ UNCHANGED <<chain, sent, dropped, tip, found, deepest>> /\ at = "block" /\ height <= tip /\ 1 <= height
          /\ tip <= Len(chain) /\ height \in DOMAIN chain
      BY <1>0, <1>5 DEF fetchBlockWithTransactions, chainVars, historyVars, ObservationInv, ScanInv, Scanning
    <2>2. CASE height' = height + 1 /\ UNCHANGED <<at, todo>>
      BY <1>0, <2>1, <2>2 DEF ObservationInv, ChainInv, ScanType, ScanInv, Scanning, Places,
                        ConfirmationsNotOverstated, DepthIn, OnChain, HeightIn
    <2>3. CASE todo' = chain[height] /\ at' = "receipt" /\ UNCHANGED height
      <3>1. \A t \in chain[height] : t \in Transfers /\ tip - height + 1 <= deepest[t]
        <4> SUFFICES ASSUME NEW t \in chain[height] PROVE t \in Transfers /\ tip - height + 1 <= deepest[t]
          OBVIOUS
        <4>1. DepthIn(chain, t) = Len(chain) - height + 1 /\ t \in OnChain(chain)
          BY <1>0, <2>1, HeightOf DEF ObservationInv, ChainInv
        <4>2. t \in Transfers
          BY <1>0, <4>1, HeightType
        <4>3. DepthIn(chain, t) <= deepest[t] /\ deepest[t] \in Nat
          BY <1>0, <2>1, <4>2 DEF ObservationInv, ScanInv, Scanning
        <4> QED
          BY <1>0, <2>1, <4>1, <4>2, <4>3
      <3> QED
        BY <1>0, <2>1, <2>3, <3>1 DEF ObservationInv, ChainInv, ScanType, ScanInv, Scanning, Places,
                        ConfirmationsNotOverstated, DepthIn, OnChain, HeightIn
    <2> QED
      BY <1>5, <2>2, <2>3 DEF fetchBlockWithTransactions
  <1>6. CASE transactionSucceeded
    <2>1. PICK t \in todo :
            /\ found' = IF t \in OnChain(chain) THEN found \cup {Evidence(t, height, tip, TRUE)} ELSE found
            /\ todo' = todo \ {t}
            /\ IF todo = {t} THEN at' = "block" /\ height' = height + 1 ELSE UNCHANGED <<at, height>>
      BY <1>6 DEF transactionSucceeded
    <2>2. /\ UNCHANGED <<chain, sent, dropped, tip, deepest>> /\ at = "receipt"
          /\ 1 <= height /\ height <= tip /\ t \in Transfers /\ tip - height + 1 <= deepest[t]
      BY <1>6, <2>1 DEF transactionSucceeded, chainVars, historyVars, ObservationInv, ScanInv, ScanType
    <2>3. /\ Evidence(t, height, tip, TRUE) \in Found
          /\ Evidence(t, height, tip, TRUE).ref = t
          /\ Evidence(t, height, tip, TRUE).confirmations <= deepest[t]
      <3>1. confirmationCount(tip, height) <= deepest[t]
        BY <1>0, <2>2 DEF confirmationCount
      <3> QED
        BY <1>0, <2>2, <3>1, EvidenceType
    <2>4. found' \subseteq Found /\ \A e \in found' : e.canonical => e.confirmations <= deepest'[e.ref]
      BY <2>1, <2>2, <2>3 DEF ObservationInv, ScanType, ScanInv, ConfirmationsNotOverstated
    <2>5. ChainInv'
      BY <2>2 DEF ObservationInv, ChainInv
    <2>6. Scanning /\ UNCHANGED <<tip, chain, deepest>> /\ \A u \in Transfers : DepthIn(chain, u)' = DepthIn(chain, u)
      BY <2>2 DEF Scanning, DepthIn, OnChain, HeightIn
    <2>7. CASE todo = {t}
      <3>1. at' = "block" /\ height' = height + 1 /\ todo' = {} /\ height' \in Nat /\ height' >= 1
        BY <1>0, <2>1, <2>2, <2>7
      <3>2. ScanType'
        BY <2>2, <2>4, <3>1 DEF ObservationInv, ScanType, Places
      <3>3. ScanInv'
        BY <2>4, <2>6, <3>1 DEF ObservationInv, ScanInv, Scanning, ConfirmationsNotOverstated
      <3> QED
        BY <2>5, <3>2, <3>3 DEF ObservationInv
    <2>8. CASE todo # {t}
      BY <1>0, <2>1, <2>2, <2>4, <2>5, <2>6, <2>8
         DEF ObservationInv, ScanType, ScanInv, Scanning, Places, ConfirmationsNotOverstated
    <2> QED
      BY <2>7, <2>8
  <1>7. CASE ScanEnds
    <2>1. Finish(found, Sum(AtDepth(found, 0))) /\ height' = 0 /\ todo = {} /\ found \in SUBSET Found
      BY <1>7 DEF ScanEnds, ObservationInv, ScanType
    <2> QED
      BY <2>1, FinishInv DEF ObservationInv, ScanInv, ConfirmationsNotOverstated
  <1> QED
    BY <1>1, <1>2, <1>3, <1>4, <1>5, <1>6, <1>7 DEF Call

LEMMA BeginInv == ASSUME ObservationInv, Begin PROVE ObservationInv'
  <1>1. /\ UNCHANGED <<chain, sent, dropped, todo, height>> /\ tip' = 0 /\ found' = {}
        /\ at' \in {"stats", "tip"} /\ at # "receipt"
        /\ deepest' = [t \in Transfers |-> DepthIn(chain, t)]
    BY DEF Begin, FirstCall, chainVars, Scanning
  <1>2. chain \in Seq(SUBSET Transfers) /\ Len(chain) \in Nat
    BY DEF ObservationInv, ChainInv
  <1>3. \A t \in Transfers : DepthIn(chain, t) \in Nat
    BY <1>2, DepthType
  <1>4. deepest' \in [Transfers -> Nat] /\ \A t \in Transfers : DepthIn(chain, t)' <= deepest'[t]
    <2>1. \A t \in Transfers : DepthIn(chain, t)' = DepthIn(chain, t)
      BY <1>1 DEF DepthIn, OnChain, HeightIn
    <2> QED
      BY <1>1, <1>3, <2>1
  <1>5. ChainInv'
    BY <1>1 DEF ObservationInv, ChainInv
  <1>6. ScanType'
    BY <1>1, <1>4 DEF ObservationInv, ScanType, Places
  <1>7. ScanInv'
    BY <1>1, <1>2, <1>4 DEF ScanInv, ConfirmationsNotOverstated
  <1> QED
    BY <1>5, <1>6, <1>7 DEF ObservationInv

LEMMA CallFailsInv == ASSUME ObservationInv, CallFails PROVE ObservationInv'
  BY DEF CallFails, ObservationInv, ChainInv, ScanType, ScanInv, chainVars, historyVars, Scanning, Places,
         ConfirmationsNotOverstated

LEMMA ObservationHolds == Spec => []ObservationInv
  <1>1. ObservationInv /\ [Next]_vars => ObservationInv'
    <2>1. ObservationInv /\ UNCHANGED vars => ObservationInv'
      BY DEF vars, chainVars, scanVars, historyVars, ObservationInv, ChainInv, ScanType, ScanInv, Scanning,
             ConfirmationsNotOverstated, DepthIn, OnChain, HeightIn
    <2> QED
      BY <2>1, ChainStepInv, BeginInv, CallInv, CallFailsInv DEF Next
  <1> QED
    BY <1>1, InitInv, PTL DEF Spec

(* No settlement is reported deeper than its transfer has been since the   *)
(* observation began: the tip is read before anything is counted from it,  *)
(* and the chain never gets shorter than it was then.                      *)
THEOREM ConfirmationsHold == Spec => []ConfirmationsNotOverstated
  <1>1. ObservationInv => ConfirmationsNotOverstated
    BY DEF ObservationInv, ScanInv
  <1> QED
    BY <1>1, ObservationHolds, PTL

-----------------------------------------------------------------------------
(* Type correctness                                                        *)

(* What the type invariant adds to ObservationInv: the transfers on the    *)
(* chain were sent, nothing else can be spent, what was dropped is on the  *)
(* chain no more, all heights are bounded, and there is an answer only     *)
(* when the observer is done.                                              *)
ChainType ==
    /\ Len(chain) <= MaxHeight /\ reorgs \in Nat
    /\ OnChain(chain) \subseteq sent /\ spent \subseteq OnChain(chain)
    /\ dropped \subseteq sent \ OnChain(chain)

Answers == [confirmed : BOOLEAN, detected : BOOLEAN, finality : BOOLEAN]

AnswerType ==
    /\ rail \in Rails /\ config \in Configs
    /\ tip <= MaxHeight /\ height <= MaxHeight + 1 /\ funded \in Nat /\ faults \in Nat
    /\ at = "receipt" => todo # {}
    /\ found \subseteq Settlements /\ IsFiniteSet(found)
    /\ outcome \in Answers \cup {NULL} /\ (outcome # NULL => at = "done")
    /\ throughout \subseteq Transfers

TypeInv == ChainType /\ AnswerType

LEMMA TypeParts == ObservationInv /\ TypeInv /\ disturbed \in BOOLEAN => TypeOK
  <1> SUFFICES ASSUME ObservationInv, TypeInv, disturbed \in BOOLEAN PROVE TypeOK
    OBVIOUS
  <1>1. /\ chain \in Seq(SUBSET Transfers) /\ Len(chain) \in Nat /\ MaxHeight \in Nat
        /\ tip \in Nat /\ height \in Nat
    BY ObservationAssumption DEF ObservationInv, ChainInv, ScanType
  <1>2. Len(chain) \in Heights /\ tip \in Heights /\ height \in 0 .. MaxHeight + 1
    BY <1>1 DEF TypeInv, ChainType, AnswerType, Heights
  <1> QED
    BY <1>2 DEF TypeOK, ObservationInv, TypeInv, ChainInv, ScanType, ChainType, AnswerType, Places, Answers

LEMMA InitTyped == Init => TypeInv
  <1> SUFFICES ASSUME Init PROVE TypeInv
    OBVIOUS
  <1>1. OnChain(<<>>) = {}
    BY DEF OnChain
  <1>2. ChainType
    BY <1>1, ObservationAssumption DEF Init, ChainType
  <1>3. AnswerType
    BY ObservationAssumption, FS_EmptySet DEF Init, AnswerType
  <1> QED
    BY <1>2, <1>3 DEF TypeInv

LEMMA ChainStepTyped == ASSUME ObservationInv, TypeInv, ChainStep PROVE TypeInv'
  <1>0. Len(chain) \in Nat /\ MaxHeight \in Nat /\ sent \subseteq Transfers
    BY ObservationAssumption DEF ObservationInv, ChainInv
  <1>1. UNCHANGED <<rail, config, scanVars>> /\ throughout' \subseteq Transfers
    BY DEF ChainStep, Broadcast, Mine, Reorganise, Spend, Remember, historyVars, TypeInv, AnswerType
  <1>2. AnswerType'
    BY <1>1 DEF TypeInv, AnswerType, scanVars
  <1>3. ChainType'
    <2>1. CASE Broadcast
      BY <2>1 DEF Broadcast, TypeInv, ChainType, OnChain
    <2>2. CASE Spend
      BY <2>2 DEF Spend, TypeInv, ChainType, OnChain
    <2>3. CASE Mine
      <3>1. PICK block \in SUBSET (sent \ OnChain(chain)) :
              dropped' = dropped \ block /\ OnChain(chain') = OnChain(chain) \cup block
        BY <2>3, MineShape
      <3>2. Len(chain') = Len(chain) + 1 /\ Len(chain) < MaxHeight /\ UNCHANGED <<sent, spent, reorgs>>
        BY <2>3, MineShape DEF Mine
      <3>3. OnChain(chain)' = OnChain(chain')
        BY DEF OnChain
      <3> QED
        BY <1>0, <3>1, <3>2, <3>3 DEF TypeInv, ChainType
    <2>4. CASE Reorganise
      <3>1. OnChain(chain') \subseteq OnChain(chain) \cup sent /\ Len(chain') <= MaxHeight
        BY <2>4, ReorganiseShape
      <3>2. /\ UNCHANGED sent /\ spent' = spent \cap OnChain(chain') /\ reorgs' = reorgs + 1
            /\ dropped' = (dropped \cup OnChain(chain)) \ OnChain(chain')
        BY <2>4 DEF Reorganise
      <3>3. OnChain(chain)' = OnChain(chain')
        BY DEF OnChain
      <3> QED
        BY <3>1, <3>2, <3>3 DEF TypeInv, ChainType
    <2> QED
      BY <2>1, <2>2, <2>3, <2>4 DEF ChainStep
  <1> QED
    BY <1>2, <1>3 DEF TypeInv

(* One settlement per transfer of S, counted from the tip that was read.   *)
LEMMA ImageFinite == ASSUME NEW S, IsFiniteSet(S), NEW f PROVE IsFiniteSet({f[x] : x \in S})
  <1> DEFINE T == {f[x] : x \in S}
             g == [x \in S |-> f[x]]
  <1>1. g \in Surjection(S, T)
    BY DEF Surjection
  <1> QED
    BY <1>1, FS_Surjection

Settled(S, h) == {Evidence(t, h[t], tip, TRUE) : t \in S}

(* No transfer has two settlements that count.                             *)
OneEach(E) == \A d, e \in E : d.canonical /\ e.canonical /\ d.ref = e.ref => d = e

LEMMA SettledFacts ==
    ASSUME tip \in Nat, NEW S \in SUBSET Transfers, NEW h, \A t \in S : h[t] \in Heights
    PROVE  /\ Settled(S, h) \subseteq Settlements /\ IsFiniteSet(Settled(S, h))
           /\ OneEach(Settled(S, h))
           /\ \A t \in S : /\ Evidence(t, h[t], tip, TRUE) \in AtDepth(Settled(S, h), 0)
                           /\ Evidence(t, h[t], tip, TRUE).ref = t
  <1>1. \A t \in S : h[t] \in Nat
    BY ObservationAssumption DEF Heights
  <1>2. \A t \in S : /\ Evidence(t, h[t], tip, TRUE) \in Found /\ Evidence(t, h[t], tip, TRUE).ref = t
                     /\ Evidence(t, h[t], tip, TRUE).canonical
                     /\ Evidence(t, h[t], tip, TRUE).height = h[t]
                     /\ Evidence(t, h[t], tip, TRUE).confirmations \in Nat
    BY <1>1, EvidenceType DEF Found, Evidence
  <1>3. \A t \in S : Evidence(t, h[t], tip, TRUE) \in Settlements
    BY <1>2 DEF Found, Settlements
  <1>4. IsFiniteSet(Settled(S, h))
    <2> DEFINE f == [t \in S |-> Evidence(t, h[t], tip, TRUE)]
    <2>1. Settled(S, h) = {f[t] : t \in S}
      BY DEF Settled
    <2>2. IsFiniteSet(S)
      BY ObservationAssumption, FS_Subset
    <2> HIDE DEF f
    <2> QED
      BY <2>1, <2>2, ImageFinite
  <1>5. OneEach(Settled(S, h))
    <2> SUFFICES ASSUME NEW d \in Settled(S, h), NEW e \in Settled(S, h), d.ref = e.ref PROVE d = e
      BY DEF OneEach
    <2>1. PICK t \in S, u \in S : d = Evidence(t, h[t], tip, TRUE) /\ e = Evidence(u, h[u], tip, TRUE)
      BY DEF Settled
    <2>2. t = d.ref /\ u = e.ref
      BY <1>2, <2>1
    <2> QED
      BY <2>1, <2>2
  <1>6. \A t \in S : Evidence(t, h[t], tip, TRUE) \in AtDepth(Settled(S, h), 0)
    <2> SUFFICES ASSUME NEW t \in S PROVE Evidence(t, h[t], tip, TRUE) \in AtDepth(Settled(S, h), 0)
      OBVIOUS
    <2> DEFINE e == Evidence(t, h[t], tip, TRUE)
    <2>1. e \in Settled(S, h) /\ e.canonical /\ e.confirmations \in Nat
      BY <1>2 DEF Settled
    <2> HIDE DEF e
    <2>2. e \in AtDepth(Settled(S, h), 0)
      BY <2>1 DEF AtDepth
    <2> QED
      BY <2>2 DEF e
  <1>7. Settled(S, h) \subseteq Settlements
    BY <1>3 DEF Settled
  <1> QED
    BY <1>2, <1>4, <1>5, <1>6, <1>7

LEMMA HeightsOnChain ==
    ASSUME ObservationInv, TypeInv
    PROVE  /\ tip \in Nat /\ tip \in Heights /\ OnChain(chain) \subseteq Transfers
           /\ \A t \in OnChain(chain) : HeightIn(chain, t) \in Heights
  <1>1. /\ chain \in Seq(SUBSET Transfers) /\ Len(chain) \in Nat /\ Len(chain) <= MaxHeight /\ MaxHeight \in Nat
        /\ tip \in Nat /\ tip <= MaxHeight
    BY ObservationAssumption DEF ObservationInv, ChainInv, ScanType, TypeInv, ChainType, AnswerType
  <1>2. \A t \in OnChain(chain) : /\ t \in Transfers /\ HeightIn(chain, t) \in Nat
                                  /\ HeightIn(chain, t) <= Len(chain)
    BY <1>1, HeightType
  <1> QED
    BY <1>1, <1>2 DEF Heights

(* What the two rails that read all settlements in one call find.          *)
LEMMA UtxosFound ==
    ASSUME ObservationInv, TypeInv, fetchAddressUTXOs
    PROVE  \E E \in SUBSET Settlements : Finish(E, funded) /\ IsFiniteSet(E) /\ OneEach(E)
  <1> DEFINE h == [t \in Transfers |-> IF t \in OnChain(chain) THEN HeightIn(chain, t) ELSE 0]
             E == {Evidence(t, IF t \in OnChain(chain) THEN HeightIn(chain, t) ELSE 0, tip, TRUE) :
                      t \in sent \ spent}
  <1>1. sent \ spent \in SUBSET Transfers /\ tip \in Nat /\ 0 \in Heights
    BY HeightsOnChain, ObservationAssumption DEF ObservationInv, ChainInv, Heights
  <1>2. /\ E = Settled(sent \ spent, h)
        /\ \A t \in sent \ spent : h[t] = IF t \in OnChain(chain) THEN HeightIn(chain, t) ELSE 0
    BY <1>1 DEF Settled
  <1>3. \A t \in sent \ spent : h[t] \in Heights
    BY <1>1, <1>2, HeightsOnChain
  <1>4. Finish(E, funded)
    BY DEF fetchAddressUTXOs
  <1> HIDE DEF E, h
  <1> QED
    BY <1>1, <1>2, <1>3, <1>4, SettledFacts

LEMMA LogsFound ==
    ASSUME ObservationInv, TypeInv, fetchERC20TransferLogs
    PROVE  \E E \in SUBSET Settlements :
              /\ Finish(E, Sum(AtDepth(E, 0))) /\ IsFiniteSet(E) /\ OneEach(E)
              /\ OnChain(chain) \subseteq RefsOf(AtDepth(E, 0))
  <1> DEFINE h == [t \in Transfers |-> HeightIn(chain, t)]
             C == {Evidence(t, HeightIn(chain, t), tip, TRUE) : t \in OnChain(chain)}
             R(removed) == {Evidence(t, tip, tip, FALSE) : t \in removed}
  <1>1. PICK removed \in SUBSET dropped : Finish(C \cup R(removed), Sum(AtDepth(C \cup R(removed), 0)))
    BY DEF fetchERC20TransferLogs
  <1>2. OnChain(chain) \in SUBSET Transfers /\ tip \in Nat /\ tip \in Heights
    BY HeightsOnChain
  <1>3. C = Settled(OnChain(chain), h) /\ \A t \in OnChain(chain) : h[t] \in Heights
    BY <1>2, HeightsOnChain DEF Settled
  <1>4. /\ C \subseteq Settlements /\ IsFiniteSet(C) /\ OneEach(C)
        /\ \A t \in OnChain(chain) : \E e \in AtDepth(C, 0) : e.ref = t
    <2> HIDE DEF C, h
    <2> QED
      BY <1>2, <1>3, SettledFacts
  <1>5. R(removed) \subseteq Settlements /\ IsFiniteSet(R(removed)) /\ \A e \in R(removed) : ~e.canonical
    <2>1. removed \subseteq Transfers /\ IsFiniteSet(removed)
      BY ObservationAssumption, FS_Subset DEF ObservationInv, ChainInv
    <2>2. \A t \in removed : /\ Evidence(t, tip, tip, FALSE) \in Settlements
                             /\ ~Evidence(t, tip, tip, FALSE).canonical
      BY <1>2, <2>1, CountType DEF Evidence, Settlements
    <2> DEFINE f == [t \in removed |-> Evidence(t, tip, tip, FALSE)]
    <2>3. R(removed) = {f[t] : t \in removed}
      OBVIOUS
    <2>4. IsFiniteSet({f[t] : t \in removed})
      <3> HIDE DEF f
      <3> QED
        BY <2>1, ImageFinite
    <2> QED
      BY <2>2, <2>3, <2>4
  <1>6. IsFiniteSet(C \cup R(removed))
    BY <1>4, <1>5, FS_Union
  <1> HIDE DEF C, R
  <1>7. OneEach(C \cup R(removed))
    BY <1>4, <1>5 DEF OneEach
  <1>8. OnChain(chain) \subseteq RefsOf(AtDepth(C \cup R(removed), 0))
    BY <1>4 DEF AtDepth, RefsOf
  <1> QED
    BY <1>1, <1>4, <1>5, <1>6, <1>7, <1>8

LEMMA FinishTyped ==
    ASSUME ObservationInv, TypeInv, NEW E \in SUBSET Settlements, IsFiniteSet(E), NEW amount,
           Finish(E, amount), height' = 0, at # "receipt"
    PROVE  TypeInv'
  <1>1. Answer(E, amount) \in Answers
    BY DEF Answer, Answers
  <1>2. /\ UNCHANGED <<rail, config, chain, sent, spent, dropped, reorgs, tip, funded, faults, throughout>>
        /\ found' = E /\ outcome' = Answer(E, amount) /\ at' = "done"
    BY DEF Finish, chainVars, historyVars
  <1>3. ChainType'
    BY <1>2 DEF TypeInv, ChainType, OnChain
  <1>4. 0 <= MaxHeight + 1
    BY ObservationAssumption
  <1>5. AnswerType'
    BY <1>1, <1>2, <1>4 DEF TypeInv, AnswerType
  <1> QED
    BY <1>3, <1>5 DEF TypeInv

LEMMA CallTyped == ASSUME ObservationInv, TypeInv, Call PROVE TypeInv'
  <1>0. /\ Len(chain) \in Nat /\ MaxHeight \in Nat /\ tip \in Nat /\ height \in Nat /\ Len(chain) <= MaxHeight
        /\ tip <= MaxHeight /\ sent \in SUBSET Transfers /\ chain \in Seq(SUBSET Transfers)
        /\ DOMAIN chain = 1 .. Len(chain)
    BY ObservationAssumption DEF ObservationInv, ChainInv, ScanType, TypeInv, ChainType, AnswerType
  <1>1. CASE fetchAddressStats
    <2>1. /\ funded' \in Nat /\ at = "stats" /\ at' = "tip"
          /\ UNCHANGED <<rail, config, chain, sent, spent, dropped, reorgs, tip, height, todo, found, outcome, faults,
                         throughout>>
      BY <1>0, <1>1, TotalFacts DEF fetchAddressStats, chainVars, historyVars
    <2> QED
      BY <2>1 DEF TypeInv, ChainType, AnswerType, OnChain
  <1>2. CASE fetchTipHeight
    <2>1. /\ tip' = Len(chain) /\ height' = 1 /\ at = "tip" /\ at' \in {"utxos", "logs", "block"}
          /\ UNCHANGED <<rail, config, chain, sent, spent, dropped, reorgs, funded, todo, found, outcome, faults,
                         throughout>>
      BY <1>2 DEF fetchTipHeight, chainVars, historyVars
    <2> QED
      BY <1>0, <2>1 DEF TypeInv, ChainType, AnswerType, OnChain
  <1>3. CASE fetchAddressUTXOs
    <2>1. height' = 0 /\ at # "receipt"
      BY <1>3 DEF fetchAddressUTXOs
    <2> QED
      BY <1>3, <2>1, UtxosFound, FinishTyped
  <1>4. CASE fetchERC20TransferLogs
    <2>1. height' = 0 /\ at # "receipt"
      BY <1>4 DEF fetchERC20TransferLogs
    <2> QED
      BY <1>4, <2>1, LogsFound, FinishTyped
  <1>5. CASE fetchBlockWithTransactions
    <2>1. /\ at = "block" /\ height <= tip
          /\ UNCHANGED <<rail, config, chain, sent, spent, dropped, reorgs, tip, funded, found, outcome, faults,
                         throughout>>
          /\ \/ height' = height + 1 /\ UNCHANGED <<at, todo>>
             \/ todo' = chain[height] /\ chain[height] # {} /\ at' = "receipt" /\ UNCHANGED height
      BY <1>5 DEF fetchBlockWithTransactions, chainVars, historyVars
    <2>2. height + 1 <= MaxHeight + 1
      BY <1>0, <2>1
    <2> QED
      BY <2>1, <2>2 DEF TypeInv, ChainType, AnswerType, OnChain
  <1>6. CASE transactionSucceeded
    <2>1. PICK t \in todo :
            /\ found' = IF t \in OnChain(chain) THEN found \cup {Evidence(t, height, tip, TRUE)} ELSE found
            /\ todo' = todo \ {t}
            /\ IF todo = {t} THEN at' = "block" /\ height' = height + 1 ELSE UNCHANGED <<at, height>>
      BY <1>6 DEF transactionSucceeded
    <2>2. /\ at = "receipt" /\ 1 <= height /\ height <= tip /\ t \in Transfers
          /\ UNCHANGED <<rail, config, chain, sent, spent, dropped, reorgs, tip, funded, outcome, faults,
                         throughout>>
      BY <1>6, <2>1 DEF transactionSucceeded, chainVars, historyVars, ObservationInv, ScanInv, ScanType
    <2>3. Evidence(t, height, tip, TRUE) \in Settlements
      <3>1. height \in Heights
        BY <1>0, <2>2 DEF Heights
      <3> QED
        BY <1>0, <2>2, <3>1, CountType DEF Evidence, Settlements
    <2>4. found' \subseteq Settlements /\ IsFiniteSet(found')
      BY <2>1, <2>3, FS_AddElement DEF TypeInv, AnswerType
    <2>5. height' <= MaxHeight + 1 /\ (at' = "receipt" => todo' # {})
      BY <1>0, <2>1, <2>2
    <2>6. at' # "done" /\ outcome = NULL
      BY <2>1, <2>2 DEF TypeInv, AnswerType
    <2> QED
      BY <2>2, <2>4, <2>5, <2>6 DEF TypeInv, ChainType, AnswerType, OnChain
  <1>7. CASE ScanEnds
    <2>1. height' = 0 /\ at # "receipt" /\ Finish(found, Sum(AtDepth(found, 0)))
      BY <1>7 DEF ScanEnds
    <2> QED
      BY <2>1, FinishTyped DEF TypeInv, AnswerType
  <1> QED
    BY <1>1, <1>2, <1>3, <1>4, <1>5, <1>6, <1>7 DEF Call

LEMMA StepTyped == ObservationInv /\ TypeInv /\ [Next]_vars => TypeInv'
  <1> SUFFICES ASSUME ObservationInv, TypeInv, [Next]_vars PROVE TypeInv'
    OBVIOUS
  <1>0. MaxHeight \in Nat /\ OnChain(chain) \subseteq Transfers /\ IsFiniteSet({})
    BY ObservationAssumption, HeightsOnChain, FS_EmptySet
  <1>1. CASE UNCHANGED vars
    BY <1>1 DEF vars, chainVars, scanVars, historyVars, TypeInv, ChainType, AnswerType, OnChain
  <1>2. CASE Begin
    <2>1. /\ UNCHANGED <<rail, config, chain, sent, spent, dropped, reorgs, height, todo, faults>>
          /\ at' \in {"stats", "tip"} /\ found' = {} /\ outcome' = NULL /\ funded' = 0 /\ tip' = 0
          /\ throughout' = OnChain(chain)
      BY <1>2 DEF Begin, FirstCall, chainVars
    <2> QED
      BY <1>0, <2>1 DEF TypeInv, ChainType, AnswerType, OnChain
  <1>3. CASE CallFails
    <2>1. /\ UNCHANGED <<rail, config, chain, sent, spent, dropped, reorgs, outcome, throughout>>
          /\ at' = "idle" /\ found' = {} /\ height' = 0 /\ funded' = 0 /\ tip' = 0 /\ faults' = faults + 1
          /\ at # "done"
      BY <1>3 DEF CallFails, chainVars, historyVars, Scanning
    <2> QED
      BY <1>0, <2>1 DEF TypeInv, ChainType, AnswerType, OnChain
  <1> QED
    BY <1>1, <1>2, <1>3, ChainStepTyped, CallTyped DEF Next

LEMMA TypeInvHolds == Spec => []TypeInv
  BY InitTyped, StepTyped, ObservationHolds, PTL DEF Spec

LEMMA DisturbedTyped == Spec => [](disturbed \in BOOLEAN)
  <1>1. Init => disturbed \in BOOLEAN
    BY DEF Init
  <1>2. disturbed \in BOOLEAN /\ [Next]_vars => (disturbed \in BOOLEAN)'
    <2> SUFFICES ASSUME disturbed \in BOOLEAN, [Next]_vars PROVE (disturbed \in BOOLEAN)'
      OBVIOUS
    <2>1. CASE Mine \/ Reorganise
      BY <2>1 DEF Mine, Reorganise, Remember, historyVars
    <2>2. CASE UNCHANGED historyVars
      BY <2>2 DEF historyVars
    <2>3. CASE Begin
      BY <2>3 DEF Begin
    <2> QED
      BY <2>1, <2>2, <2>3
         DEF Next, ChainStep, Call, Broadcast, Spend, CallFails, fetchAddressStats, fetchTipHeight, fetchAddressUTXOs,
             fetchERC20TransferLogs, fetchBlockWithTransactions, transactionSucceeded, ScanEnds, Finish, vars
  <1> QED
    BY <1>1, <1>2, PTL DEF Spec

(* The blocks, the broadcast, spent and dropped transfers, and what an     *)
(* observer has read of them stay within their types whatever             *)
(* reorganisations and failed calls come between its calls.                *)
THEOREM TypeCorrect == Spec => []TypeOK
  BY TypeParts, TypeInvHolds, DisturbedTyped, ObservationHolds, PTL

-----------------------------------------------------------------------------
(* What the answers rest on                                                *)

(* A lower threshold asks for no more, whatever is rounded up.             *)
LEMMA AmountMonotone ==
    ASSUME NEW x \in Nat, NEW a \in Nat, NEW b \in Nat, a <= b
    PROVE  /\ thresholdBPSAmount(x, a) \in Nat /\ thresholdBPSAmount(x, b) \in Nat
           /\ thresholdBPSAmount(x, a) <= thresholdBPSAmount(x, b)
  <1> DEFINE Up(p) == p \div 10000 + (IF p % 10000 > 0 THEN 1 ELSE 0)
  <1>1. x * a \in Nat /\ x * b \in Nat /\ x * a <= x * b
    <2>1. PICK d \in Nat : b = a + d
      <3>1. b - a \in Nat /\ b = a + (b - a)
        OBVIOUS
      <3> QED
        BY <3>1
    <2>2. x * b = x * a + x * d /\ x * a \in Nat /\ x * d \in Nat
      BY <2>1
    <2> QED
      BY <2>2
  <1>2. \A p, q \in Nat : p <= q => Up(p) \in Nat /\ Up(q) \in Nat /\ Up(p) <= Up(q)
    OBVIOUS
  <1>3. thresholdBPSAmount(x, a) = Up(x * a) /\ thresholdBPSAmount(x, b) = Up(x * b)
    BY DEF thresholdBPSAmount, thresholdDenominatorBPS
  <1> HIDE DEF Up
  <1> QED
    BY <1>1, <1>2, <1>3

LEMMA Required ==
    ASSUME config \in Configs
    PROVE  /\ detectedRequired \in Nat /\ confirmedRequired \in Nat /\ detectedRequired <= confirmedRequired
           /\ confirmations.businessMin \in Nat /\ confirmations.finalityMin \in Nat
           /\ confirmations.businessMin <= confirmations.finalityMin
  <1>1. config.detected \in Int /\ config.confirmed \in Int /\ config.business \in Int /\ config.finality \in Int
    BY ObservationAssumption
  <1>2. expected \in Nat
    BY ObservationAssumption DEF expected
  <1>3. /\ thresholds.detectedBPS \in Nat /\ thresholds.confirmedBPS \in Nat
        /\ thresholds.detectedBPS <= thresholds.confirmedBPS
    BY <1>1 DEF thresholds, newThresholdPolicy, OrDefault, AtMost, thresholdDenominatorBPS, defaultBPS
  <1>4. /\ confirmations.businessMin \in Nat /\ confirmations.finalityMin \in Nat
        /\ confirmations.businessMin <= confirmations.finalityMin
    BY <1>1 DEF confirmations, newConfirmationPolicy, OrDefault, defaultMinConf
  <1> QED
    BY <1>2, <1>3, <1>4, AmountMonotone DEF detectedRequired, confirmedRequired

(* An answer computed from settlements of which none is counted twice.     *)
LEMMA AnswerBacked ==
    ASSUME ObservationInv, NEW E \in SUBSET Found, IsFiniteSet(E), OneEach(E), NEW n \in Nat,
           \A e \in E : e.canonical => e.confirmations <= deepest[e.ref],
           config \in Configs, Sum(AtDepth(E, n)) >= confirmedRequired
    PROVE  Backed(n)
  <1> DEFINE D == AtDepth(E, n)
             S == {t \in Transfers : deepest[t] >= n}
  <1>1. D \in SUBSET Found /\ IsFiniteSet(D) /\ \A d, e \in D : d.ref = e.ref => d = e
    BY FS_Subset DEF AtDepth, OneEach
  <1>2. Sum(D) = Total(RefsOf(D))
    BY <1>1, SumOfRefs
  <1>3. RefsOf(D) \subseteq S
    <2> SUFFICES ASSUME NEW e \in D PROVE e.ref \in Transfers /\ deepest[e.ref] >= n
      BY DEF RefsOf
    <2>1. e.ref \in Transfers /\ e.confirmations \in Nat /\ deepest[e.ref] \in Nat
      BY <1>1 DEF Found, ObservationInv, ScanType
    <2>2. e.confirmations >= n /\ e.confirmations <= deepest[e.ref]
      BY DEF AtDepth
    <2> QED
      BY <2>1, <2>2
  <1>4. Total(RefsOf(D)) <= Total(S) /\ Total(S) \in Nat /\ Total(RefsOf(D)) \in Nat
    <2>1. S \in SUBSET Transfers /\ RefsOf(D) \in SUBSET Transfers
      BY <1>3
    <2> HIDE DEF S, D
    <2> QED
      BY <1>3, <2>1, TotalFacts
  <1>5. Total(S) >= confirmedRequired
    <2> HIDE DEF S
    <2> QED
      BY <1>2, <1>4, Required
  <1> QED
    BY <1>5 DEF Backed

LEMMA AmountNoticed ==
    ASSUME NEW E \in SUBSET Found, IsFiniteSet(E), OneEach(E), NEW n \in Nat,
           NEW S \in SUBSET RefsOf(AtDepth(E, n))
    PROVE  Sum(AtDepth(E, n)) \in Nat /\ Total(S) \in Nat /\ Sum(AtDepth(E, n)) >= Total(S)
  <1> DEFINE D == AtDepth(E, n)
  <1>1. D \in SUBSET Found /\ IsFiniteSet(D) /\ \A d, e \in D : d.ref = e.ref => d = e
    BY FS_Subset DEF AtDepth, OneEach
  <1>2. RefsOf(D) \in SUBSET Transfers
    BY <1>1 DEF RefsOf, Found
  <1> HIDE DEF D
  <1>3. Sum(D) = Total(RefsOf(D)) /\ Total(RefsOf(D)) \in Nat /\ Total(S) <= Total(RefsOf(D))
    BY <1>1, <1>2, SumOfRefs, TotalFacts DEF D
  <1>4. Total(S) \in Nat
    BY <1>2, TotalFacts DEF D
  <1> QED
    BY <1>3, <1>4 DEF D

(* The observer's answer, when it is given: it is as good as the           *)
(* settlements it is computed from.                                        *)
LEMMA FinishBacked ==
    ASSUME ObservationInv, ObservationInv', TypeInv,
           NEW E \in SUBSET Settlements, IsFiniteSet(E), NEW amount, Finish(E, amount),
           Undisturbed => /\ OneEach(E)
                          /\ amount \in Nat /\ amount >= Total(throughout)
    PROVE  ConfirmedIsBacked' /\ PaymentNoticed'
  <1> DEFINE b == confirmations.businessMin
             f == confirmations.finalityMin
  <1>0. E \in SUBSET Found
    <2>1. Heights \subseteq Nat
      BY DEF Heights
    <2> QED
      BY <2>1 DEF Settlements, Found
  <1>1. /\ outcome' = Answer(E, amount) /\ found' = E
        /\ UNCHANGED <<rail, config, deepest, throughout, disturbed>>
    BY DEF Finish, chainVars, historyVars
  <1>2. /\ confirmedRequired' = confirmedRequired
        /\ (confirmations.businessMin)' = b /\ (confirmations.finalityMin)' = f
        /\ Undisturbed' <=> Undisturbed
    BY <1>1 DEF confirmedRequired, confirmations, thresholds, expected, Undisturbed
  <1>3. /\ outcome'.confirmed <=> Sum(AtDepth(E, b)) >= confirmedRequired
        /\ outcome'.finality <=> Sum(AtDepth(E, f)) >= confirmedRequired
        /\ outcome'.detected <=> ~outcome'.confirmed /\ amount >= detectedRequired
    BY <1>1 DEF Answer
  <1>4. /\ detectedRequired \in Nat /\ confirmedRequired \in Nat /\ detectedRequired <= confirmedRequired
        /\ b \in Nat /\ f \in Nat /\ b <= f /\ config \in Configs
    BY Required DEF TypeInv, AnswerType
  <1> HIDE DEF b, f
  <1>5. \A e \in E : e.canonical => e.confirmations <= deepest[e.ref]
    BY <1>1 DEF ObservationInv, ScanInv, ConfirmationsNotOverstated
  <1>6. ASSUME Undisturbed, NEW n \in Nat, Sum(AtDepth(E, n)) >= confirmedRequired
        PROVE  Total({t \in Transfers : deepest[t] >= n}) >= confirmedRequired
    BY <1>0, <1>4, <1>5, <1>6, AnswerBacked DEF Backed
  <1>7. Sum(AtDepth(E, f)) >= confirmedRequired => Sum(AtDepth(E, b)) >= confirmedRequired
    <2>1. AtDepth(E, b) \in SUBSET Found /\ IsFiniteSet(AtDepth(E, b))
      BY <1>0, FS_Subset DEF AtDepth
    <2>2. AtDepth(E, f) \subseteq AtDepth(E, b)
      <3>1. \A e \in E : e.confirmations \in Nat
        BY <1>0 DEF Found
      <3> QED
        BY <1>4, <3>1 DEF AtDepth
    <2>3. Sum(AtDepth(E, f)) <= Sum(AtDepth(E, b)) /\ Sum(AtDepth(E, b)) \in Nat
      BY <2>1, <2>2, SumFacts
    <2>4. Sum(AtDepth(E, f)) \in Nat
      <3>1. AtDepth(E, f) \in SUBSET Found /\ IsFiniteSet(AtDepth(E, f))
        BY <2>1, <2>2, FS_Subset
      <3> QED
        BY <3>1, SumFacts
    <2> QED
      BY <1>4, <2>3, <2>4
  <1>8. ConfirmedIsBacked'
    <2>1. /\ Undisturbed' /\ outcome'.confirmed => Backed(confirmations.businessMin)'
          /\ Undisturbed' /\ outcome'.finality => Backed(confirmations.finalityMin)'
      BY <1>1, <1>2, <1>3, <1>4, <1>6 DEF Backed
    <2> QED
      BY <1>3, <1>7, <2>1 DEF ConfirmedIsBacked
  <1>9. PaymentNoticed'
    <2>1. ASSUME Undisturbed, Total(throughout) >= confirmedRequired PROVE amount >= detectedRequired
      <3>1. Total(throughout) \in Nat
        BY TotalFacts DEF TypeInv, AnswerType
      <3> QED
        BY <1>4, <2>1, <3>1
    <2> QED
      BY <1>1, <1>2, <1>3, <2>1 DEF PaymentNoticed
  <1> QED
    BY <1>8, <1>9

(* Once given, an answer stays as good as it was.                          *)
LEMMA QuietKeepsAnswer ==
    ASSUME ConfirmedIsBacked, PaymentNoticed, UNCHANGED <<rail, config, outcome>>,
           outcome # NULL => UNCHANGED <<deepest, throughout, disturbed>>
    PROVE  ConfirmedIsBacked' /\ PaymentNoticed'
  <1>1. /\ confirmedRequired' = confirmedRequired
        /\ (confirmations.businessMin)' = confirmations.businessMin
        /\ (confirmations.finalityMin)' = confirmations.finalityMin
        /\ outcome # NULL => (Undisturbed' <=> Undisturbed)
    BY DEF confirmedRequired, confirmations, thresholds, expected, Undisturbed
  <1>2. CASE outcome = NULL
    BY <1>2 DEF ConfirmedIsBacked, PaymentNoticed
  <1>3. CASE outcome # NULL
    <2>1. /\ Backed(confirmations.businessMin)' <=> Backed(confirmations.businessMin)
          /\ Backed(confirmations.finalityMin)' <=> Backed(confirmations.finalityMin)
      BY <1>1, <1>3 DEF Backed
    <2> QED
      BY <1>1, <1>3, <2>1 DEF ConfirmedIsBacked, PaymentNoticed
  <1> QED
    BY <1>2, <1>3

-----------------------------------------------------------------------------
(* A scan of blocks                                                        *)

(* The transfers of chain c that a scan has been through when it is at     *)
(* call place of block h, with left still to check.                        *)
ScannedBy(c, place, h, left) ==
    {t \in OnChain(c) : \/ HeightIn(c, t) < h
                        \/ place = "receipt" /\ HeightIn(c, t) = h /\ t \notin left}

FoundBy(c, S, latest) == {Evidence(t, HeightIn(c, t), latest, TRUE) : t \in S}

RailFits ==
    /\ at \in {"stats", "utxos"} => rail = "btc"
    /\ at = "logs" => rail = "erc20"
    /\ at \in {"block", "receipt"} => rail = "eth"

(* As long as no block is replaced, a scan has found exactly the transfers *)
(* it has been through, and a transfer that was on the chain all along is  *)
(* in a block that the scan reaches.                                       *)
ScanExact ==
    /\ at \in {"stats", "tip"} => found = {}
    /\ at \in {"block", "receipt"} => height <= tip + 1
    /\ at \in {"block", "receipt"} /\ ~disturbed =>
          /\ found = FoundBy(chain, ScannedBy(chain, at, height, todo), tip)
          /\ at = "receipt" => todo \subseteq chain[height]
          /\ \A t \in throughout : HeightIn(chain, t) <= tip

(* On bitcoin the statistics, read first, count whatever is on the chain   *)
(* from beginning to end.                                                  *)
AllCounted ==
    /\ Scanning => throughout \subseteq OnChain(chain)
    /\ rail = "btc" /\ at \in {"tip", "utxos"} => funded >= Total(throughout)

AnswerInv == RailFits /\ ScanExact /\ AllCounted

LEMMA PlaceOf ==
    ASSUME ObservationInv, NEW h \in 1 .. Len(chain)
    PROVE  \A t : t \in chain[h] <=> t \in OnChain(chain) /\ HeightIn(chain, t) = h
  <1>1. chain \in Seq(SUBSET Transfers) /\ DOMAIN chain = 1 .. Len(chain)
    BY DEF ObservationInv, ChainInv
  <1> QED
    BY <1>1, HeightOf, HeightType DEF ObservationInv, ChainInv

LEMMA MineKeepsHeights ==
    ASSUME ObservationInv, Mine
    PROVE  /\ OnChain(chain) \subseteq OnChain(chain')
           /\ \A t \in OnChain(chain) : HeightIn(chain', t) = HeightIn(chain, t)
           /\ \A t \in OnChain(chain') \ OnChain(chain) : HeightIn(chain', t) = Len(chain) + 1
  <1>1. /\ chain \in Seq(SUBSET Transfers) /\ DOMAIN chain = 1 .. Len(chain) /\ Len(chain) \in Nat
        /\ chain' \in Seq(SUBSET Transfers) /\ Len(chain') = Len(chain) + 1
        /\ DOMAIN chain' = 1 .. Len(chain) + 1
        /\ \A h \in 1 .. Len(chain) : chain'[h] = chain[h]
        /\ \A g, h \in DOMAIN chain' : g # h => chain'[g] \cap chain'[h] = {}
    BY MineShape DEF ObservationInv, ChainInv
  <1>2. ASSUME NEW t \in OnChain(chain)
        PROVE  t \in OnChain(chain') /\ HeightIn(chain', t) = HeightIn(chain, t)
    <2>1. HeightIn(chain, t) \in 1 .. Len(chain) /\ t \in chain[HeightIn(chain, t)]
      BY <1>1, HeightType
    <2>2. HeightIn(chain, t) \in DOMAIN chain' /\ t \in chain'[HeightIn(chain, t)]
      BY <1>1, <2>1
    <2> QED
      BY <1>1, <2>2, HeightOf
  <1>3. ASSUME NEW t \in OnChain(chain'), t \notin OnChain(chain)
        PROVE  HeightIn(chain', t) = Len(chain) + 1
    <2>1. HeightIn(chain', t) \in 1 .. Len(chain) + 1 /\ t \in chain'[HeightIn(chain', t)]
      BY <1>1, HeightType
    <2>2. HeightIn(chain', t) \notin 1 .. Len(chain)
      BY <1>1, <1>3, <2>1 DEF OnChain
    <2> QED
      BY <1>1, <2>1, <2>2
  <1> QED
    BY <1>2, <1>3

LEMMA ChainStepAnswers ==
    ASSUME ObservationInv, ObservationInv', TypeInv, AnswerInv, ChainStep
    PROVE  AnswerInv'
  <1>0. /\ chain \in Seq(SUBSET Transfers) /\ Len(chain) \in Nat /\ DOMAIN chain = 1 .. Len(chain)
        /\ tip \in Nat /\ height \in Nat
        /\ OnChain(chain) \subseteq Transfers /\ throughout \subseteq Transfers
    BY HeightsOnChain DEF ObservationInv, ChainInv, ScanType, TypeInv, AnswerType
  <1>1. UNCHANGED <<rail, scanVars>> /\ UNCHANGED <<at, tip, funded, height, todo, found>>
    BY DEF ChainStep, Broadcast, Mine, Reorganise, Spend, scanVars
  <1>2. RailFits'
    BY <1>1 DEF AnswerInv, RailFits
  <1>3. CASE Broadcast \/ Spend
    <2>1. UNCHANGED <<chain, disturbed, throughout>>
      BY <1>3 DEF Broadcast, Spend, historyVars
    <2> QED
      BY <1>1, <1>2, <2>1 DEF AnswerInv, ScanExact, AllCounted, Scanning
  <1>4. CASE Mine \/ Reorganise
    <2>1. /\ Scanning => throughout' = throughout \cap OnChain(chain')
          /\ ~Scanning => throughout' = throughout
      BY <1>4 DEF Mine, Reorganise, Remember, historyVars
    <2>2. throughout' \subseteq throughout
      BY <2>1
    <2>3. OnChain(chain)' = OnChain(chain') /\ (Scanning' <=> Scanning)
      BY <1>1 DEF OnChain, Scanning
    <2>4. AllCounted'
      <3>1. Total(throughout') <= Total(throughout) /\ Total(throughout) \in Nat /\ Total(throughout') \in Nat
        BY <1>0, <2>2, TotalFacts
      <3>2. Total(throughout)' = Total(throughout')
        OBVIOUS
      <3>3. funded \in Nat
        BY DEF TypeInv, AnswerType
      <3> QED
        BY <1>1, <2>1, <2>3, <3>1, <3>2, <3>3 DEF AnswerInv, AllCounted
    <2>5. CASE Reorganise
      <3>1. Scanning => disturbed'
        BY <2>5 DEF Reorganise, Remember
      <3> QED
        BY <1>1, <1>2, <2>4, <3>1 DEF AnswerInv, ScanExact, Scanning
    <2>6. CASE Mine
      <3>1. Scanning => (disturbed' <=> disturbed)
        BY <2>6 DEF Mine, Remember
      <3>2. ASSUME at \in {"block", "receipt"}, ~disturbed
            PROVE  /\ found = FoundBy(chain', ScannedBy(chain', at, height, todo), tip)
                   /\ at = "receipt" => todo \subseteq chain'[height]
                   /\ \A t \in throughout' : HeightIn(chain', t) <= tip
        <4>1. /\ found = FoundBy(chain, ScannedBy(chain, at, height, todo), tip)
              /\ at = "receipt" => todo \subseteq chain[height]
              /\ \A t \in throughout : HeightIn(chain, t) <= tip
              /\ height <= Len(chain) + 1 /\ (at = "receipt" => height \in 1 .. Len(chain))
              /\ throughout \subseteq OnChain(chain) /\ Scanning
          BY <1>0, <3>2 DEF AnswerInv, ScanExact, AllCounted, Scanning, ObservationInv, ScanInv
        <4>2. ScannedBy(chain', at, height, todo) = ScannedBy(chain, at, height, todo)
          <5>1. \A t \in OnChain(chain') \ OnChain(chain) :
                   ~(HeightIn(chain', t) < height) /\ ~(at = "receipt" /\ HeightIn(chain', t) = height)
            BY <1>0, <2>6, <4>1, MineKeepsHeights
          <5> QED
            BY <2>6, <5>1, MineKeepsHeights DEF ScannedBy
        <4>3. FoundBy(chain', ScannedBy(chain, at, height, todo), tip)
                 = FoundBy(chain, ScannedBy(chain, at, height, todo), tip)
          BY <2>6, MineKeepsHeights DEF FoundBy, ScannedBy
        <4>4. at = "receipt" => chain'[height] = chain[height]
          BY <2>6, <4>1, MineShape
        <4>5. \A t \in throughout' : HeightIn(chain', t) <= tip
          BY <2>2, <2>6, <4>1, MineKeepsHeights
        <4> QED
          BY <4>1, <4>2, <4>3, <4>4, <4>5
      <3>3. ScanExact'
        BY <1>1, <3>1, <3>2 DEF AnswerInv, ScanExact, Scanning
      <3> QED
        BY <1>2, <2>4, <3>3 DEF AnswerInv
    <2> QED
      BY <1>4, <2>5, <2>6
  <1> QED
    BY <1>3, <1>4 DEF ChainStep

LEMMA BeginAnswers == ASSUME AnswerInv, Begin PROVE AnswerInv'
  <1>1. /\ UNCHANGED <<rail, chain>> /\ at' = FirstCall /\ found' = {} /\ throughout' = OnChain(chain)
    BY DEF Begin, chainVars
  <1>2. OnChain(chain)' = OnChain(chain)
    BY <1>1 DEF OnChain
  <1>3. at' \in {"stats", "tip"} /\ (at' = "stats" <=> rail = "btc")
    BY <1>1 DEF FirstCall
  <1> QED
    BY <1>1, <1>2, <1>3 DEF AnswerInv, RailFits, ScanExact, AllCounted

LEMMA StatsAnswers ==
    ASSUME ObservationInv, TypeInv, AnswerInv, fetchAddressStats
    PROVE  AnswerInv'
  <1>1. /\ UNCHANGED <<rail, chain, found, throughout>> /\ at = "stats" /\ at' = "tip" /\ funded' = Total(sent)
    BY DEF fetchAddressStats, chainVars, historyVars
  <1>2. throughout \subseteq OnChain(chain)
    BY <1>1 DEF AnswerInv, AllCounted, Scanning
  <1>3. Total(throughout) <= Total(sent) /\ Total(throughout) \in Nat /\ Total(sent) \in Nat
    BY <1>2, TotalFacts DEF ObservationInv, ChainInv, TypeInv, ChainType
  <1>4. OnChain(chain)' = OnChain(chain) /\ Total(throughout)' = Total(throughout)
    BY <1>1 DEF OnChain
  <1> QED
    BY <1>1, <1>2, <1>3, <1>4 DEF AnswerInv, RailFits, ScanExact, AllCounted, Scanning

LEMMA TipAnswers ==
    ASSUME ObservationInv, TypeInv, AnswerInv, fetchTipHeight
    PROVE  AnswerInv'
  <1>1. /\ UNCHANGED <<rail, chain, found, throughout, todo, funded, disturbed>>
        /\ at = "tip" /\ tip' = Len(chain) /\ height' = 1
        /\ at' = CASE rail = "btc" -> "utxos" [] rail = "erc20" -> "logs" [] OTHER -> "block"
    BY DEF fetchTipHeight, chainVars, historyVars
  <1>2. rail \in {"btc", "erc20", "eth"}
    BY ObservationAssumption DEF TypeInv, AnswerType
  <1>3. /\ rail = "btc" => at' = "utxos"
        /\ rail = "erc20" => at' = "logs"
        /\ rail = "eth" => at' = "block"
    BY <1>1, <1>2
  <1>4. RailFits'
    BY <1>1, <1>2, <1>3 DEF RailFits
  <1>5. throughout \subseteq OnChain(chain) /\ found = {}
    BY <1>1 DEF AnswerInv, AllCounted, ScanExact, Scanning
  <1>6. chain \in Seq(SUBSET Transfers) /\ Len(chain) \in Nat
    BY DEF ObservationInv, ChainInv
  <1>7. \A t \in OnChain(chain) : HeightIn(chain, t) \in Nat /\ 1 <= HeightIn(chain, t) /\ HeightIn(chain, t) <= Len(chain)
    BY <1>6, HeightType
  <1>8. FoundBy(chain, ScannedBy(chain, "block", 1, todo), Len(chain)) = {}
    <2>1. ScannedBy(chain, "block", 1, todo) = {}
      BY <1>7 DEF ScannedBy
    <2> QED
      BY <2>1 DEF FoundBy
  <1>9. ScanExact'
    <2>1. at' \notin {"stats", "tip", "receipt"} /\ height' <= tip' + 1
      BY <1>1, <1>2, <1>3, <1>6
    <2>2. \A t \in throughout' : HeightIn(chain', t) <= tip'
      BY <1>1, <1>5, <1>7
    <2>3. at' = "block" => found' = FoundBy(chain', ScannedBy(chain', at', height', todo'), tip')
      BY <1>1, <1>5, <1>8
    <2> QED
      BY <2>1, <2>2, <2>3 DEF ScanExact
  <1>10. AllCounted'
    <2>1. OnChain(chain') = OnChain(chain)
      BY <1>1
    <2>2. rail = "btc" => funded >= Total(throughout)
      BY <1>1 DEF AnswerInv, AllCounted
    <2> QED
      BY <1>1, <1>5, <2>1, <2>2 DEF AllCounted
  <1> QED
    BY <1>4, <1>9, <1>10 DEF AnswerInv

(* A block is read: its transfers are all still to check, or it has none.  *)
LEMMA BlockAnswers ==
    ASSUME ObservationInv, TypeInv, AnswerInv, fetchBlockWithTransactions
    PROVE  AnswerInv'
  <1>0. /\ tip \in Nat /\ height \in Nat /\ Len(chain) \in Nat /\ at = "block" /\ height <= tip /\ 1 <= height
        /\ tip <= Len(chain) /\ todo = {} /\ chain \in Seq(SUBSET Transfers)
    BY DEF fetchBlockWithTransactions, ObservationInv, ChainInv, ScanType, ScanInv, Scanning
  <1>1. /\ UNCHANGED <<rail, chain, found, throughout, tip, disturbed>>
        /\ \/ height' = height + 1 /\ at' = "block" /\ todo' = {} /\ chain[height] = {}
           \/ height' = height /\ at' = "receipt" /\ todo' = chain[height]
    BY <1>0 DEF fetchBlockWithTransactions, chainVars, historyVars
  <1>2. \A t : t \in chain[height] <=> t \in OnChain(chain) /\ HeightIn(chain, t) = height
    BY <1>0, PlaceOf
  <1>3. \A t \in OnChain(chain) : HeightIn(chain, t) \in Nat
    BY <1>0, HeightType
  <1>4. ScannedBy(chain, at', height', todo') = ScannedBy(chain, "block", height, {})
    <2>1. CASE height' = height + 1 /\ at' = "block" /\ todo' = {} /\ chain[height] = {}
      <3>1. \A t \in OnChain(chain) : HeightIn(chain, t) < height + 1 <=> HeightIn(chain, t) < height
        BY <1>0, <1>2, <1>3, <2>1
      <3> QED
        BY <2>1, <3>1 DEF ScannedBy
    <2>2. CASE height' = height /\ at' = "receipt" /\ todo' = chain[height]
      BY <1>2, <2>2 DEF ScannedBy
    <2> QED
      BY <1>1, <2>1, <2>2
  <1>5. RailFits'
    BY <1>0, <1>1 DEF AnswerInv, RailFits
  <1>6. height' <= tip + 1
    BY <1>0, <1>1
  <1>7. ASSUME ~disturbed
        PROVE  /\ found = FoundBy(chain, ScannedBy(chain, at', height', todo'), tip)
               /\ at' = "receipt" => todo' \subseteq chain[height']
               /\ \A t \in throughout : HeightIn(chain, t) <= tip
    <2>1. /\ found = FoundBy(chain, ScannedBy(chain, "block", height, {}), tip)
          /\ \A t \in throughout : HeightIn(chain, t) <= tip
      BY <1>0, <1>7 DEF AnswerInv, ScanExact
    <2>2. at' = "receipt" => todo' \subseteq chain[height']
      BY <1>1
    <2> QED
      BY <1>4, <2>1, <2>2
  <1>8. ScanExact'
    BY <1>1, <1>6, <1>7 DEF ScanExact
  <1>9. AllCounted'
    BY <1>0, <1>1 DEF AnswerInv, AllCounted, Scanning
  <1> QED
    BY <1>5, <1>8, <1>9 DEF AnswerInv


(* A transfer is checked: it joins what the scan has been through, and it  *)
(* is found, for it is still where its block was.                          *)
LEMMA ReceiptAnswers ==
    ASSUME ObservationInv, TypeInv, AnswerInv, transactionSucceeded
    PROVE  AnswerInv'
  <1>1. PICK t \in todo :
          /\ found' = IF t \in OnChain(chain) THEN found \cup {Evidence(t, height, tip, TRUE)} ELSE found
          /\ todo' = todo \ {t}
          /\ IF todo = {t} THEN at' = "block" /\ height' = height + 1 ELSE UNCHANGED <<at, height>>
    BY DEF transactionSucceeded
  <1>2. /\ tip \in Nat /\ height \in Nat /\ at = "receipt" /\ 1 <= height /\ height <= tip /\ tip <= Len(chain)
        /\ chain \in Seq(SUBSET Transfers) /\ Len(chain) \in Nat
        /\ UNCHANGED <<rail, chain, tip, disturbed, throughout>>
    BY DEF transactionSucceeded, chainVars, historyVars, ObservationInv, ChainInv, ScanType, ScanInv, Scanning
  <1>3. \A u : u \in chain[height] <=> u \in OnChain(chain) /\ HeightIn(chain, u) = height
    BY <1>2, PlaceOf
  <1>4. \A u \in OnChain(chain) : HeightIn(chain, u) \in Nat
    BY <1>2, HeightType
  <1>5. RailFits'
    BY <1>1, <1>2 DEF AnswerInv, RailFits
  <1>6. AllCounted'
    BY <1>1, <1>2 DEF AnswerInv, AllCounted, Scanning
  <1>7. height' <= tip + 1 /\ at' \in {"block", "receipt"}
    BY <1>1, <1>2
  <1>8. ASSUME ~disturbed
        PROVE  /\ found' = FoundBy(chain, ScannedBy(chain, at', height', todo'), tip)
               /\ at' = "receipt" => todo' \subseteq chain[height']
               /\ \A u \in throughout : HeightIn(chain, u) <= tip
    <2>1. /\ found = FoundBy(chain, ScannedBy(chain, "receipt", height, todo), tip)
          /\ todo \subseteq chain[height]
          /\ \A u \in throughout : HeightIn(chain, u) <= tip
      BY <1>2, <1>8 DEF AnswerInv, ScanExact
    <2>2. t \in OnChain(chain) /\ HeightIn(chain, t) = height
      BY <1>3, <2>1
    <2>3. ScannedBy(chain, at', height', todo') = ScannedBy(chain, "receipt", height, todo) \cup {t}
      <3>1. CASE todo = {t}
        <4>1. at' = "block" /\ height' = height + 1
          BY <1>1, <3>1
        <4>2. \A u \in OnChain(chain) :
                 HeightIn(chain, u) < height + 1 <=> HeightIn(chain, u) < height \/ HeightIn(chain, u) = height
          BY <1>2, <1>4
        <4> QED
          BY <2>2, <3>1, <4>1, <4>2 DEF ScannedBy
      <3>2. CASE todo # {t}
        <4>1. at' = "receipt" /\ height' = height /\ todo' = todo \ {t}
          BY <1>1, <1>2, <3>2
        <4> QED
          BY <2>2, <4>1 DEF ScannedBy
      <3> QED
        BY <3>1, <3>2
    <2>4. FoundBy(chain, ScannedBy(chain, "receipt", height, todo) \cup {t}, tip)
             = found \cup {Evidence(t, height, tip, TRUE)}
      BY <2>1, <2>2 DEF FoundBy
    <2>5. at' = "receipt" => todo' \subseteq chain[height']
      BY <1>1, <1>2, <2>1
    <2> QED
      BY <1>1, <2>1, <2>2, <2>3, <2>4, <2>5
  <1>9. ScanExact'
    BY <1>2, <1>7, <1>8 DEF ScanExact
  <1> QED
    BY <1>5, <1>6, <1>9 DEF AnswerInv

(* What a scan that met no reorganisation has found when it ends.          *)
LEMMA ScanFound ==
    ASSUME ObservationInv, TypeInv, AnswerInv, at = "block", height > tip, ~disturbed
    PROVE  OneEach(found) /\ throughout \subseteq RefsOf(AtDepth(found, 0))
  <1> DEFINE S == ScannedBy(chain, "block", height, todo)
             h == [t \in Transfers |-> HeightIn(chain, t)]
  <1>1. /\ tip \in Nat /\ height \in Nat /\ chain \in Seq(SUBSET Transfers)
        /\ OnChain(chain) \subseteq Transfers
        /\ \A t \in OnChain(chain) : HeightIn(chain, t) \in Heights /\ HeightIn(chain, t) \in Nat
    BY HeightsOnChain, HeightType DEF ObservationInv, ChainInv, ScanType
  <1>2. S \in SUBSET Transfers /\ S \subseteq OnChain(chain)
    BY <1>1 DEF ScannedBy
  <1>3. found = Settled(S, h)
    <2>1. found = FoundBy(chain, S, tip)
      BY DEF AnswerInv, ScanExact
    <2>2. \A t \in S : h[t] = HeightIn(chain, t)
      BY <1>2
    <2> HIDE DEF S, h
    <2> QED
      BY <2>1, <2>2 DEF FoundBy, Settled
  <1>4. \A t \in S : h[t] \in Heights
    BY <1>1, <1>2
  <1>5. throughout \subseteq S
    <2>1. /\ throughout \subseteq OnChain(chain)
          /\ \A t \in throughout : HeightIn(chain, t) <= tip
      BY DEF AnswerInv, ScanExact, AllCounted, Scanning
    <2>2. \A t \in throughout : HeightIn(chain, t) < height
      BY <1>1, <2>1
    <2> QED
      BY <2>1, <2>2 DEF ScannedBy
  <1> HIDE DEF S, h
  <1>6. OneEach(found) /\ \A t \in S : \E e \in AtDepth(found, 0) : e.ref = t
    BY <1>1, <1>2, <1>3, <1>4, SettledFacts
  <1> QED
    BY <1>5, <1>6 DEF RefsOf

LEMMA StepAnswers == ObservationInv /\ ObservationInv' /\ TypeInv /\ AnswerInv /\ [Next]_vars => AnswerInv'
  <1> SUFFICES ASSUME ObservationInv, ObservationInv', TypeInv, AnswerInv, [Next]_vars PROVE AnswerInv'
    OBVIOUS
  <1>1. CASE UNCHANGED vars
    BY <1>1 DEF vars, chainVars, scanVars, historyVars, AnswerInv, RailFits, ScanExact, AllCounted, Scanning
  <1>2. CASE CallFails
    BY <1>2 DEF CallFails, AnswerInv, RailFits, ScanExact, AllCounted, Scanning
  <1>3. CASE fetchAddressUTXOs \/ fetchERC20TransferLogs \/ ScanEnds
    <2>1. at' = "done"
      BY <1>3 DEF fetchAddressUTXOs, fetchERC20TransferLogs, ScanEnds, Finish
    <2> QED
      BY <2>1 DEF AnswerInv, RailFits, ScanExact, AllCounted, Scanning
  <1> QED
    BY <1>1, <1>2, <1>3, ChainStepAnswers, BeginAnswers, StatsAnswers, TipAnswers, BlockAnswers, ReceiptAnswers
       DEF Next, Call

LEMMA AnswerInvHolds == Spec => []AnswerInv
  <1>1. Init => AnswerInv
    BY DEF Init, AnswerInv, RailFits, ScanExact, AllCounted, Scanning
  <1> QED
    BY <1>1, StepAnswers, ObservationHolds, TypeInvHolds, PTL DEF Spec

-----------------------------------------------------------------------------
(* The answers                                                             *)

LEMMA CallBacked ==
    ASSUME ObservationInv, ObservationInv', TypeInv, AnswerInv, ConfirmedIsBacked, PaymentNoticed, Call
    PROVE  ConfirmedIsBacked' /\ PaymentNoticed'
  <1>1. CASE fetchAddressUTXOs
    <2>1. PICK E \in SUBSET Settlements : Finish(E, funded) /\ IsFiniteSet(E) /\ OneEach(E)
      BY <1>1, UtxosFound
    <2>2. funded \in Nat /\ funded >= Total(throughout)
      BY <1>1 DEF fetchAddressUTXOs, AnswerInv, RailFits, AllCounted, TypeInv, AnswerType
    <2> QED
      BY <2>1, <2>2, FinishBacked
  <1>2. CASE fetchERC20TransferLogs
    <2>1. PICK E \in SUBSET Settlements :
            /\ Finish(E, Sum(AtDepth(E, 0))) /\ IsFiniteSet(E) /\ OneEach(E)
            /\ OnChain(chain) \subseteq RefsOf(AtDepth(E, 0))
      BY <1>2, LogsFound
    <2>2. throughout \subseteq RefsOf(AtDepth(E, 0))
      BY <1>2, <2>1 DEF fetchERC20TransferLogs, AnswerInv, AllCounted, Scanning
    <2>3. E \in SUBSET Found
      BY DEF Settlements, Found, Heights
    <2>4. Sum(AtDepth(E, 0)) \in Nat /\ Sum(AtDepth(E, 0)) >= Total(throughout)
      BY <2>1, <2>2, <2>3, AmountNoticed
    <2> QED
      BY <2>1, <2>4, FinishBacked
  <1>3. CASE ScanEnds
    <2>1. /\ at = "block" /\ height > tip /\ rail = "eth" /\ Finish(found, Sum(AtDepth(found, 0)))
          /\ found \in SUBSET Settlements /\ found \in SUBSET Found /\ IsFiniteSet(found)
      BY <1>3 DEF ScanEnds, AnswerInv, RailFits, ObservationInv, ScanType, TypeInv, AnswerType
    <2>2. ASSUME Undisturbed
          PROVE  /\ OneEach(found)
                 /\ Sum(AtDepth(found, 0)) \in Nat /\ Sum(AtDepth(found, 0)) >= Total(throughout)
      <3>1. OneEach(found) /\ throughout \subseteq RefsOf(AtDepth(found, 0))
        BY <2>1, <2>2, ScanFound DEF Undisturbed
      <3> QED
        BY <2>1, <3>1, AmountNoticed
    <2> QED
      BY <2>1, <2>2, FinishBacked
  <1>4. CASE fetchAddressStats \/ fetchTipHeight \/ fetchBlockWithTransactions \/ transactionSucceeded
    <2>1. UNCHANGED <<rail, config, outcome, deepest, throughout, disturbed>>
      BY <1>4 DEF fetchAddressStats, fetchTipHeight, fetchBlockWithTransactions, transactionSucceeded, chainVars,
                  historyVars
    <2> QED
      BY <2>1, QuietKeepsAnswer
  <1> QED
    BY <1>1, <1>2, <1>3, <1>4 DEF Call

LEMMA StepBacked ==
    ObservationInv /\ ObservationInv' /\ TypeInv /\ AnswerInv /\ ConfirmedIsBacked /\ PaymentNoticed /\ [Next]_vars
      => ConfirmedIsBacked' /\ PaymentNoticed'
  <1> SUFFICES ASSUME ObservationInv, ObservationInv', TypeInv, AnswerInv, ConfirmedIsBacked, PaymentNoticed,
                      [Next]_vars
               PROVE  ConfirmedIsBacked' /\ PaymentNoticed'
    OBVIOUS
  <1>1. CASE UNCHANGED vars
    BY <1>1, QuietKeepsAnswer DEF vars, chainVars, scanVars, historyVars
  <1>2. CASE ChainStep
    <2>1. UNCHANGED <<rail, config, outcome>>
      BY <1>2 DEF ChainStep, Broadcast, Mine, Reorganise, Spend, scanVars
    <2>2. outcome # NULL => UNCHANGED <<deepest, throughout, disturbed>>
      <3>1. outcome # NULL => ~Scanning
        BY DEF TypeInv, AnswerType, Scanning
      <3> QED
        BY <1>2, <3>1 DEF ChainStep, Broadcast, Mine, Reorganise, Spend, Remember, historyVars
    <2> QED
      BY <2>1, <2>2, QuietKeepsAnswer
  <1>3. CASE Begin
    BY <1>3 DEF Begin, ConfirmedIsBacked, PaymentNoticed
  <1>4. CASE CallFails
    BY <1>4, QuietKeepsAnswer DEF CallFails, chainVars, historyVars
  <1> QED
    BY <1>1, <1>2, <1>3, <1>4, CallBacked DEF Next

LEMMA AnswersHold == Spec => [](ConfirmedIsBacked /\ PaymentNoticed)
  <1>1. Init => ConfirmedIsBacked /\ PaymentNoticed
    BY DEF Init, ConfirmedIsBacked, PaymentNoticed
  <1> QED
    BY <1>1, StepBacked, ObservationHolds, TypeInvHolds, AnswerInvHolds, PTL DEF Spec

(* An observer that reports a payment as confirmed, or as final, has       *)
(* counted transfers that are worth the required amount and that did reach *)
(* the configured depth while it looked, although tip and settlements come *)
(* from different calls.  For ether this supposes that no block was        *)
(* replaced while it looked.                                               *)
THEOREM ConfirmedIsBackedHolds == Spec => []ConfirmedIsBacked
  BY AnswersHold, PTL

(* An observer reports a payment that was on the chain all the while, as   *)
(* confirmed or as detected, although outputs are spent and blocks are     *)
(* added between its calls.  For ether this supposes that no block was     *)
(* replaced meanwhile.                                                     *)
THEOREM PaymentNoticedHolds == Spec => []PaymentNoticed
  BY AnswersHold, PTL
=============================================================================
