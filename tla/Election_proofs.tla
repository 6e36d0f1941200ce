-------------------------- MODULE Election_proofs --------------------------
(***************************************************************************)
(* Lemmas about the operators of Election, and the theorem that an         *)
(* election has exactly one winner, who has weight.                        *)
(***************************************************************************)
EXTENDS Election, Validators_proofs

\* Among validators that are not none, one beats all the others: it has the
\* highest value, and the lowest index of those that have it.
LEMMA BestExists ==
    ASSUME NEW r \in [Nodes -> Int], NEW W \in SUBSET Nodes, W # {}
    PROVE  \E m \in W : \A u \in W : r[u] < r[m] \/ (r[u] = r[m] /\ m <= u)
<1> DEFINE Best(m, k) ==
              /\ m \in W /\ m <= k
              /\ \A u \in W : u <= k => r[u] < r[m] \/ (r[u] = r[m] /\ m <= u)
           B == {k \in 0..N : (\E u \in W : u <= k) => \E m \in W : Best(m, k)}
<1>1. N \in Nat /\ \A u \in W : u \in 1..N /\ r[u] \in Int
  BY NAssumption DEF Nodes
<1>2. 0 \in B
  BY <1>1
<1>3. ASSUME NEW k \in 1..N, k-1 \in B PROVE k \in B
  <2>1. k \in Int /\ k-1 \in 0..N /\ k \in 0..N
    BY <1>1
  <2>2. \A u \in W : u <= k => u <= k-1 \/ u = k
    BY <1>1, <2>1
  <2>3. CASE k \notin W
    <3>1. \A u \in W : u <= k <=> u <= k-1
      BY <1>1, <2>1, <2>2, <2>3
    <3>2. \A m \in W : Best(m, k-1) => Best(m, k)
      BY <3>1
    <3> QED
      BY <1>3, <2>1, <3>1, <3>2
  <2>4. CASE k \in W /\ ~ \E u \in W : u <= k-1
    <3>1. \A u \in W : u <= k => u = k
      BY <2>2, <2>4
    <3>2. Best(k, k)
      BY <2>1, <2>4, <3>1, <1>1
    <3> QED
      BY <2>1, <2>4, <3>2
  <2>5. CASE k \in W /\ \E u \in W : u <= k-1
    <3>1. PICK m \in W : Best(m, k-1)
      BY <1>3, <2>5
    <3>2. CASE r[k] > r[m]
      <4>1. ASSUME NEW u \in W, u <= k PROVE r[u] < r[k] \/ (r[u] = r[k] /\ k <= u)
        BY <4>1, <1>1, <2>1, <2>2, <3>1, <3>2, <2>5
      <4>2. Best(k, k)
        BY <4>1, <2>5, <2>1
      <4> QED
        BY <2>1, <2>5, <4>2
    <3>3. CASE ~(r[k] > r[m])
      <4>1. ASSUME NEW u \in W, u <= k PROVE r[u] < r[m] \/ (r[u] = r[m] /\ m <= u)
        BY <4>1, <1>1, <2>1, <2>2, <3>1, <3>3, <2>5
      <4>2. Best(m, k)
        BY <4>1, <3>1, <2>1, <1>1
      <4> QED
        BY <2>1, <4>2
    <3> QED
      BY <3>2, <3>3
  <2> QED
    BY <2>3, <2>4, <2>5
<1>4. N \in B
  <2> HIDE DEF B
  <2> QED
    BY <1>1, <1>2, <1>3, IndexInduction
<1>5. \E u \in W : u <= N
  BY <1>1
<1> QED
  BY <1>1, <1>4, <1>5

LEMMA EffectiveType ==
    ASSUME NEW excl, NEW bonded \in [Nodes -> Nat]
    PROVE  Effective(excl, bonded) \in [Nodes -> Nat]
  BY StakeAssumption DEF Effective

\* Whoever the accumulator elects has weight: a validator that is slashed in a
\* node's view never proposes for it (README.md, "skipped for proposer
\* selection"), and there is one whenever anybody has weight.
THEOREM WinnerHasWeight ==
    ASSUME NEW prio \in [Nodes -> Int], NEW w \in [Nodes -> Nat], Electable(w)
    PROVE  /\ Winner(prio, w) \in Nodes
           /\ w[Winner(prio, w)] > 0
           /\ \A u \in Weighted(w) : Raised(prio, w)[u] <= Raised(prio, w)[Winner(prio, w)]
<1> DEFINE r == Raised(prio, w)
           W == Weighted(w)
<1>1. r \in [Nodes -> Int]
  BY DEF Raised
<1>2. W \in SUBSET Nodes /\ W # {}
  BY DEF Weighted, Electable
<1>3. \E m \in W : \A u \in W : r[u] < r[m] \/ (r[u] = r[m] /\ m <= u)
  <2> HIDE DEF r, W
  <2> QED
    BY <1>1, <1>2, BestExists
<1>4. /\ Winner(prio, w) \in W
      /\ \A u \in W : \/ r[u] < r[Winner(prio, w)]
                      \/ r[u] = r[Winner(prio, w)] /\ Winner(prio, w) <= u
  BY <1>3 DEF Winner
<1>5. Winner(prio, w) \in Nodes /\ w[Winner(prio, w)] > 0
  BY <1>4 DEF Weighted
<1>6. \A u \in W : r[u] <= r[Winner(prio, w)]
  <2> HIDE DEF r
  <2> QED
    BY <1>1, <1>2, <1>4, <1>5
<1> QED
  BY <1>5, <1>6

LEMMA AdvanceType ==
    ASSUME NEW prio \in [Nodes -> Int], NEW w \in [Nodes -> Nat]
    PROVE  Advance(prio, w) \in [Nodes -> Int]
<1>1. Total(w) \in Nat
  BY PowerNat DEF Total
<1>2. Raised(prio, w) \in [Nodes -> Int]
  BY DEF Raised
<1> DEFINE r == Raised(prio, w)
           t == Total(w)
           x == Winner(prio, w)
<1>3. [r EXCEPT ![x] = @ - t] \in [Nodes -> Int]
  <2>1. r \in [Nodes -> Int] /\ t \in Int
    BY <1>1, <1>2
  <2>2. \A y \in Nodes : r[y] \in Int /\ r[y] - t \in Int
    <3> HIDE DEF r, t
    <3> QED
      BY <2>1
  <2>3. \A y \in Nodes : [r EXCEPT ![x] = @ - t][y] \in Int
    <3> HIDE DEF r, t, x
    <3>1. SUFFICES ASSUME NEW y \in Nodes PROVE [r EXCEPT ![x] = @ - t][y] \in Int
      OBVIOUS
    <3>2. CASE y = x
      <4>1. [r EXCEPT ![x] = r[x] - t][y] = r[y] - t
        BY <2>1, <3>2, Zenon
      <4> QED
        BY <4>1, <2>2
    <3>3. CASE y # x
      BY <2>1, <2>2, <3>3
    <3> QED
      BY <3>2, <3>3
  <2> HIDE DEF r, t, x
  <2> QED
    BY <2>1, <2>3, Zenon
<1> QED
  BY <1>3, Zenon DEF Advance

\* A validator that rejoins starts level with the last of the others, or at
\* zero when nobody else has weight.
LEMMA RejoinedLevel ==
    ASSUME NEW prio \in [Nodes -> Int], NEW w \in [Nodes -> Nat], NEW R
    PROVE  \E low \in Int :
              /\ Rejoined(prio, w, R) = [v \in Nodes |-> IF v \in R THEN low ELSE prio[v]]
              /\ Weighted(w) \ R = {} => low = 0
              /\ Weighted(w) \ R # {} =>
                    /\ \E m \in Weighted(w) \ R : prio[m] = low
                    /\ \A u \in Weighted(w) \ R : low <= prio[u]
<1> DEFINE W == Weighted(w) \ R
           others == {prio[v] : v \in W}
           low == IF others = {} THEN 0
                  ELSE CHOOSE x \in others : \A y \in others : x <= y
<1>1. W \in SUBSET Nodes
  BY DEF Weighted
<1>2. low \in Int /\ (W = {} => low = 0)
      /\ (W # {} => (\E m \in W : prio[m] = low) /\ \A u \in W : low <= prio[u])
  <2>1. CASE others = {}
    <3>1. W = {}
      BY <2>1
    <3> QED
      BY <2>1, <3>1
  <2>2. CASE others # {}
    <3> DEFINE r == [v \in Nodes |-> 0 - prio[v]]
    <3>1. r \in [Nodes -> Int] /\ W # {}
      BY <2>2
    <3>2. \E m \in W : \A u \in W : r[u] < r[m] \/ (r[u] = r[m] /\ m <= u)
      <4> HIDE DEF r, W
      <4> QED
        BY <1>1, <3>1, BestExists
    <3>3. PICK m \in W : \A u \in W : prio[m] <= prio[u]
      <4>1. \A m \in W : r[m] = 0 - prio[m] /\ prio[m] \in Int
        BY <1>1
      <4> HIDE DEF r, W
      <4> QED
        BY <3>2, <4>1
    <3>4. \E x \in others : \A y \in others : x <= y
      BY <3>3
    <3>5. low \in others /\ \A y \in others : low <= y
      BY <2>2, <3>4
    <3>6. others \subseteq Int
      BY <1>1
    <3> QED
      BY <3>1, <3>5, <3>6
  <2> QED
    BY <2>1, <2>2
<1>3. Rejoined(prio, w, R) = [v \in Nodes |-> IF v \in R THEN low ELSE prio[v]]
  BY Zenon DEF Rejoined
<1> HIDE DEF low
<1> QED
  BY <1>2, <1>3

LEMMA RejoinedType ==
    ASSUME NEW prio \in [Nodes -> Int], NEW w \in [Nodes -> Nat], NEW R
    PROVE  Rejoined(prio, w, R) \in [Nodes -> Int]
<1>1. PICK low \in Int :
        Rejoined(prio, w, R) = [v \in Nodes |-> IF v \in R THEN low ELSE prio[v]]
  BY RejoinedLevel
<1> QED
  BY <1>1
=============================================================================
