-------------------------- MODULE Rotation_proofs --------------------------
(***************************************************************************)
(* Theorems about the election over any number of heights, with slashes,   *)
(* heals and delegations at any of them, for every set of validators that  *)
(* all have a stake of their own.                                          *)
(*                                                                         *)
(* A height gives the validators that take part the total weight between   *)
(* them and takes it from one of them, so the sum of their priorities does *)
(* not change.  The elected one is above the mean before it pays; and when *)
(* it falls below all others by paying, they are within one payment of it. *)
(***************************************************************************)
EXTENDS Rotation, Election_proofs, FiniteSetTheorems

\* The smallest generated stake is floorStake (chain/generate.go).
AllHaveStake == \A v \in Nodes : Stake[v] > 0

\* Those that take part.
Members(out) == {v \in Nodes : ~out[v]}

Above(p, low) == [v \in Nodes |-> p[v] - low]

\* The priorities of M lie above a common floor, by no more than D together.
Within(p, M, D) ==
    \E low \in Int : (\A u \in M : low <= p[u]) /\ Power(Above(p, low), M) <= D

-----------------------------------------------------------------------------
(* Arithmetic *)

LEMMA ProductMonotone ==
    ASSUME NEW a \in Nat, NEW x \in Int, NEW y \in Int, x <= y
    PROVE  a * x <= a * y
<1>1. PICK d \in Nat : y = x + d
  <2>1. y - x \in Nat /\ y = x + (y - x)
    OBVIOUS
  <2> QED
    BY <2>1
<1>2. a * y = a * x + a * d /\ a * d >= 0 /\ a * x \in Int /\ a * d \in Int
  BY <1>1
<1> QED
  BY <1>2

LEMMA AboveInt ==
    ASSUME NEW p \in [Nodes -> Int], NEW low \in Int
    PROVE  /\ \A v \in Nodes : Above(p, low)[v] = p[v] - low /\ Above(p, low)[v] \in Int
           /\ \A M : Power(Above(p, low), M) \in Int
<1>1. \A v \in Nodes : Above(p, low)[v] = p[v] - low /\ Above(p, low)[v] \in Int
  BY DEF Above
<1> QED
  BY <1>1, PowerInt

LEMMA WeightedMembers ==
    ASSUME AllHaveStake, NEW out, NEW b \in [Nodes -> Nat]
    PROVE  Weighted(Effective(out, b)) = Members(out)
  BY StakeAssumption DEF AllHaveStake, Weighted, Effective, Members

\* A finite set of tallies has one that makes the most of the total weight.
LEMMA HeaviestExists ==
    \E b \in Bondings : \A c \in Bondings :
        Total(Effective([v \in Nodes |-> FALSE], c)) <= Total(Effective([v \in Nodes |-> FALSE], b))
<1> DEFINE T(b) == Total(Effective([v \in Nodes |-> FALSE], b))
<1>1. \A b \in Bondings : T(b) \in Nat
  <2>1. \A b \in Bondings : Effective([v \in Nodes |-> FALSE], b) \in [Nodes -> Nat]
    BY BondingsAssumption, EffectiveType
  <2> QED
    BY <2>1, PowerNat DEF Total
<1>2. PICK n \in Nat : ExistsSurjection(1..n, Bondings)
  BY FS_NatSurjection, BondingsAssumption
<1>3. PICK f \in [1..n -> Bondings] : \A b \in Bondings : \E i \in 1..n : f[i] = b
  BY <1>2 DEF ExistsSurjection, Surjection
<1> HIDE DEF T
<1> DEFINE Best(i, k) == i \in 1..k /\ \A j \in 1..k : T(f[j]) <= T(f[i])
           B == {k \in Nat : k \in 1..n /\ ~ \E i \in 1..n : Best(i, k)}
<1>4. B = {}
  <2>1. SUFFICES ASSUME B # {} PROVE FALSE
    OBVIOUS
  <2>2. PICK k \in B : \A y \in B : k <= y
    <3>1. B \subseteq Nat
      OBVIOUS
    <3> HIDE DEF B
    <3> QED
      BY <2>1, <3>1, LeastElement
  <2>3. k \in 1..n /\ ~ \E i \in 1..n : Best(i, k)
    BY <2>2
  <2>4. \A i \in 1..n : T(f[i]) \in Nat
    BY <1>1
  <2>5. CASE k = 1
    <3>1. Best(1, 1)
      BY <2>3, <2>4, <2>5
    <3> QED
      BY <2>3, <2>5, <3>1
  <2>6. CASE k # 1
    <3>1. k-1 \in Nat /\ k-1 \in 1..n /\ k-1 \notin B
      <4>1. k-1 \in Nat /\ k-1 \in 1..n /\ ~(k <= k-1)
        BY <2>3, <2>6
      <4> HIDE DEF B
      <4> QED
        BY <4>1, <2>2
    <3>2. PICK i \in 1..n : Best(i, k-1)
      BY <3>1
    <3>3. i \in 1..k /\ k \in 1..k /\ \A j \in 1..k : j \in 1..(k-1) \/ j = k
      BY <3>2, <2>3
    <3>4. CASE T(f[k]) <= T(f[i])
      <4>1. Best(i, k)
        BY <3>2, <3>3, <3>4
      <4> QED
        BY <4>1, <2>3
    <3>5. CASE ~(T(f[k]) <= T(f[i]))
      <4>1. \A j \in 1..k : j \in 1..n
        BY <2>3
      <4>2. \A j \in 1..k : T(f[j]) <= T(f[k])
        BY <3>2, <3>3, <3>5, <2>4, <4>1
      <4> QED
        BY <4>2, <3>3, <2>3
    <3> QED
      BY <3>4, <3>5
  <2> QED
    BY <2>5, <2>6
<1>5. n \in 1..n
  <2>1. Bondings # {}
    BY BondingsAssumption
  <2>2. \E i \in 1..n : TRUE
    BY <1>3, <2>1
  <2> QED
    BY <2>2
<1>6. PICK i \in 1..n : Best(i, n)
  BY <1>4, <1>5
<1>7. \A c \in Bondings : T(c) <= T(f[i])
  BY <1>3, <1>6
<1> QED
  BY <1>7 DEF T

LEMMA LargestBounds ==
    /\ Largest \in Nat
    /\ \A out : \A b \in Bondings : Total(Effective(out, b)) <= Largest
<1> DEFINE none == [v \in Nodes |-> FALSE]
           totals == {Total(Effective(none, b)) : b \in Bondings}
<1>1. \E t \in totals : \A u \in totals : u <= t
  BY HeaviestExists
<1>2. Largest = CHOOSE t \in totals : \A u \in totals : u <= t
  BY DEF Largest
<1>3. Largest \in totals /\ \A u \in totals : u <= Largest
  <2> HIDE DEF totals
  <2> QED
    BY <1>1, <1>2
<1>4. \A out : \A b \in Bondings :
        Total(Effective(out, b)) \in Nat /\ Total(Effective(out, b)) <= Total(Effective(none, b))
  <2> SUFFICES ASSUME NEW out, NEW b \in Bondings
               PROVE  /\ Total(Effective(out, b)) \in Nat
                      /\ Total(Effective(out, b)) <= Total(Effective(none, b))
    OBVIOUS
  <2>1. /\ b \in [Nodes -> Nat]
        /\ Effective(out, b) \in [Nodes -> Nat] /\ Effective(none, b) \in [Nodes -> Nat]
    BY BondingsAssumption, EffectiveType
  <2>2. \A v \in Nodes : Effective(out, b)[v] <= Effective(none, b)[v]
    BY <2>1, StakeAssumption DEF Effective
  <2>3. Total(Effective(out, b)) <= Total(Effective(none, b))
    <3> DEFINE w == Effective(out, b)
               u == Effective(none, b)
    <3>1. /\ w \in [Nodes -> Nat] /\ u \in [Nodes -> Nat]
          /\ \A v \in Nodes : w[v] <= u[v]
      BY <2>1, <2>2
    <3> HIDE DEF w, u
    <3>2. Total(w) <= Total(u)
      <4>1. /\ \A v \in Nodes : w[v] \in Int /\ u[v] \in Int
            /\ \A v \in Nodes : (IF v \in Nodes THEN w[v] ELSE 0)
                                  <= (IF v \in Nodes THEN u[v] ELSE 0)
        BY <3>1
      <4> QED
        BY <4>1, PowerAtMost DEF Total
    <3> QED
      BY <3>2 DEF w, u
  <2> QED
    BY <2>1, <2>3, PowerNat DEF Total
<1>5. \A b \in Bondings : Total(Effective(none, b)) \in totals
  OBVIOUS
<1>6. totals \subseteq Nat
  BY <1>4
<1> HIDE DEF totals, none
<1>7. Largest \in Nat
  BY <1>3, <1>6
<1> QED
  BY <1>3, <1>4, <1>5, <1>7

-----------------------------------------------------------------------------
(* One height: everybody rises by its weight, the elected one pays *)

\* The sum over those that take part stays what it was.
LEMMA AdvanceSum ==
    ASSUME NEW p \in [Nodes -> Int], NEW w \in [Nodes -> Nat], Electable(w), NEW c \in Int
    PROVE  Power(Above(Advance(p, w), c), Weighted(w)) = Power(Above(p, c), Weighted(w))
<1> DEFINE x == Winner(p, w)
           t == Total(w)
           d == [v \in Nodes |-> IF v = x THEN 0 - t ELSE 0]
           M == Weighted(w)
           e == [v \in Nodes |-> w[v] + d[v]]
           q == Advance(p, w)
<1>1. x \in Nodes /\ x \in M /\ t \in Nat
  BY WinnerHasWeight, PowerNat DEF Total, Weighted
<1>2. q \in [Nodes -> Int]
  BY AdvanceType
<1>3. \A v \in Nodes : q[v] = p[v] + (w[v] + (IF v = x THEN 0 - t ELSE 0))
  <2>1. q = [Raised(p, w) EXCEPT ![x] = @ - t]
    BY Zenon DEF Advance
  <2> HIDE DEF q, x, t
  <2> QED
    BY <1>1, <2>1 DEF Raised
<1> HIDE DEF x, t, q
<1>4. \A v \in Nodes : d[v] \in Int /\ w[v] \in Int /\ e[v] \in Int /\ e[v] = w[v] + d[v]
  BY <1>1
<1>5. Power(w, M) = t
  <2>1. \A v \in Nodes : (IF v \in M THEN w[v] ELSE 0) = (IF v \in Nodes THEN w[v] ELSE 0)
    BY DEF Weighted
  <2> HIDE DEF M, d, e
  <2>2. Power(w, M) = Power(w, Nodes)
    BY <1>4, <2>1, PowerSame
  <2> QED
    BY <2>2 DEF t, Total
<1>6. Power(d, M) = 0 - t
  <2>1. \A v \in Nodes : (IF v \in M THEN d[v] ELSE 0) = (IF v \in {x} THEN d[v] ELSE 0)
    BY <1>1
  <2>2. d[x] = 0 - t /\ d[x] \in Int
    BY <1>1, <1>4
  <2> HIDE DEF M, d, e
  <2>3. Power(d, M) = Power(d, {x})
    BY <1>4, <2>1, PowerSame
  <2>4. Power(d, {x}) = d[x]
    BY <1>1, <2>2, PowerOne
  <2> QED
    BY <2>2, <2>3, <2>4
<1> HIDE DEF M, d, e
<1>7. Power(e, M) = Power(w, M) + Power(d, M)
  BY <1>4, PowerOfSum
<1>8. Power(Above(q, c), M) = Power(Above(p, c), M) + Power(e, M)
  <2>1. \A v \in Nodes : /\ Above(p, c)[v] \in Int
                         /\ Above(q, c)[v] = Above(p, c)[v] + e[v]
    BY <1>1, <1>2, <1>3, <1>4 DEF Above, d
  <2> DEFINE f == Above(p, c)
             g == Above(q, c)
  <2>2. \A v \in Nodes : f[v] \in Int /\ e[v] \in Int
    BY <1>4, <2>1
  <2>3. \A v \in Nodes : v \in M => g[v] = f[v] + e[v]
    BY <2>1
  <2> HIDE DEF f, g
  <2>4. Power(g, M) = Power(f, M) + Power(e, M)
    BY <2>2, <2>3, PowerOfSum
  <2> QED
    BY <2>4 DEF f, g
<1>9. Power(Above(p, c), M) \in Int
  BY AboveInt
<1>10. Power(Above(q, c), M) = Power(Above(p, c), M)
  BY <1>1, <1>5, <1>6, <1>7, <1>8, <1>9
<1> QED
  BY <1>10 DEF q, M

\* What one height does to the single priorities.
LEMMA AdvanceEach ==
    ASSUME NEW p \in [Nodes -> Int], NEW w \in [Nodes -> Nat], Electable(w)
    PROVE  /\ Total(w) \in Nat
           /\ \A v \in Nodes : Advance(p, w)[v] =
                p[v] + (w[v] - (IF v = Winner(p, w) THEN Total(w) ELSE 0))
<1> DEFINE x == Winner(p, w)
           t == Total(w)
<1>1. t \in Nat
  BY PowerNat DEF Total
<1>2. Advance(p, w) = [Raised(p, w) EXCEPT ![x] = @ - t]
  BY Zenon DEF Advance
<1> HIDE DEF x, t
<1>3. \A v \in Nodes : Advance(p, w)[v] = p[v] + (w[v] - (IF v = x THEN t ELSE 0))
  BY <1>1, <1>2 DEF Raised
<1> QED
  BY <1>1, <1>3 DEF x, t

\* When the mean of those that take part is not below c, the elected one rises
\* above c before it pays.
LEMMA WinnerAbove ==
    ASSUME NEW p \in [Nodes -> Int], NEW w \in [Nodes -> Nat], Electable(w), NEW c \in Int,
           Power(Above(p, c), Weighted(w)) >= 0
    PROVE  p[Winner(p, w)] + w[Winner(p, w)] > c
<1> DEFINE x == Winner(p, w)
           M == Weighted(w)
           f == Above(p, c)
           r == [v \in Nodes |-> f[v] + w[v]]
           zero == [v \in Nodes |-> 0]
<1>1. x \in Nodes /\ x \in M /\ w[x] > 0
  BY WinnerHasWeight DEF Weighted
<1>2. \A u \in M : p[u] + w[u] <= p[x] + w[x]
  BY <1>1, WinnerHasWeight DEF Raised, Weighted
<1>3. \A v \in Nodes : f[v] \in Int /\ f[v] = p[v] - c
  BY DEF Above
<1>4. \A v \in Nodes : w[v] \in Int /\ r[v] \in Int /\ zero[v] = 0 /\ zero[v] \in Int
  BY <1>3
<1> HIDE DEF x
<1>5. SUFFICES ASSUME ~(p[x] + w[x] > c) PROVE FALSE
  BY DEF x
<1>6. \A v \in Nodes : (IF v \in M THEN r[v] ELSE 0) <= (IF v \in {} THEN zero[v] ELSE 0)
  BY <1>1, <1>2, <1>3, <1>5 DEF Weighted
<1>7. \A v \in Nodes : (IF v \in {x} THEN w[v] ELSE 0) <= (IF v \in M THEN w[v] ELSE 0)
  BY <1>1
<1>8. \A v \in Nodes : v \in M => r[v] = f[v] + w[v]
  OBVIOUS
<1>9. zero \in [Nodes -> Nat]
  OBVIOUS
<1> HIDE DEF M, f, r, zero
<1>10. Power(r, M) <= Power(zero, {}) /\ Power(zero, {}) = 0
  BY <1>4, <1>6, <1>9, PowerAtMost, PowerEmpty
<1>11. Power(w, {x}) <= Power(w, M) /\ Power(w, {x}) = w[x]
  BY <1>1, <1>4, <1>7, PowerAtMost, PowerOne
<1>12. Power(r, M) = Power(f, M) + Power(w, M)
  BY <1>3, <1>4, <1>8, PowerOfSum
<1>13. Power(f, M) >= 0
  BY DEF f, M
<1>14. Power(r, M) \in Int /\ Power(f, M) \in Int /\ Power(w, M) \in Int
  BY <1>3, <1>4, PowerInt
<1> QED
  BY <1>1, <1>4, <1>10, <1>11, <1>12, <1>13, <1>14

\* One payment less for everybody but one.
LEMMA OthersPay ==
    ASSUME NEW t \in Nat, NEW x \in Nodes
    PROVE  Power([v \in Nodes |-> t - (IF v = x THEN t ELSE 0)], Nodes) = (N - 1) * t
<1> DEFINE a == [v \in Nodes |-> t]
           b == [v \in Nodes |-> IF v = x THEN 0 - t ELSE 0]
           e == [v \in Nodes |-> t - (IF v = x THEN t ELSE 0)]
<1>1. \A v \in Nodes : a[v] = t /\ a[v] \in Int /\ b[v] \in Int /\ e[v] = a[v] + b[v]
  OBVIOUS
<1>2. b[x] = 0 - t /\ \A v \in Nodes : (IF v \in Nodes THEN b[v] ELSE 0) = (IF v \in {x} THEN b[v] ELSE 0)
  OBVIOUS
<1> HIDE DEF a, b, e
<1>3. Power(a, Nodes) = N * t
  BY <1>1, PowerConstant
<1>4. Power(b, Nodes) = Power(b, {x}) /\ Power(b, {x}) = b[x]
  BY <1>1, <1>2, PowerSame, PowerOne
<1>5. Power(e, Nodes) = Power(a, Nodes) + Power(b, Nodes)
  BY <1>1, PowerOfSum
<1>6. N * t + (0 - t) = (N - 1) * t
  BY NAssumption
<1>7. Power(e, Nodes) = (N - 1) * t
  BY <1>2, <1>3, <1>4, <1>5, <1>6
<1> QED
  BY <1>7 DEF e

\* A height leaves the priorities within N - 1 payments of their floor: either
\* the floor holds, and the sum above it is what it was, or the elected one is
\* the new floor, and nobody is more than one payment above it.
LEMMA AdvanceWithin ==
    ASSUME NEW p \in [Nodes -> Int], NEW w \in [Nodes -> Nat], Electable(w),
           NEW L \in Nat, Total(w) <= L, Within(p, Weighted(w), (N - 1) * L)
    PROVE  Within(Advance(p, w), Weighted(w), (N - 1) * L)
<1> DEFINE x == Winner(p, w)
           t == Total(w)
           M == Weighted(w)
           q == Advance(p, w)
<1>1. PICK low \in Int : (\A u \in M : low <= p[u]) /\ Power(Above(p, low), M) <= (N - 1) * L
  BY DEF Within
<1>2. /\ t \in Nat /\ x \in Nodes /\ x \in M /\ M \subseteq Nodes /\ q \in [Nodes -> Int]
      /\ \A u \in M : p[u] + w[u] <= p[x] + w[x]
      /\ \A v \in Nodes : q[v] = p[v] + (w[v] - (IF v = x THEN t ELSE 0))
  BY AdvanceEach, AdvanceType, WinnerHasWeight DEF Raised, Weighted
<1>3. CASE q[x] >= low
  <2>1. Power(Above(q, low), M) = Power(Above(p, low), M)
    BY AdvanceSum
  <2> HIDE DEF x, t, M, q
  <2>2. \A u \in M : low <= q[u]
    <3>1. ASSUME NEW u \in M, u # x PROVE low <= q[u]
      <4>1. u \in Nodes /\ q[u] = p[u] + w[u] /\ p[u] \in Int /\ w[u] \in Nat
        BY <1>2, <3>1
      <4> QED
        BY <1>1, <4>1
    <3> QED
      BY <1>3, <3>1
  <2>3. Within(q, M, (N - 1) * L)
    BY <1>1, <2>1, <2>2 DEF Within
  <2> QED
    BY <2>3 DEF q, M
<1>4. CASE ~(q[x] >= low)
  <2> DEFINE f == Above(q, q[x])
             e == [v \in Nodes |-> t - (IF v = x THEN t ELSE 0)]
  <2>1. q[x] = p[x] + w[x] - t
    BY <1>2
  <2>2. ASSUME NEW u \in M, u # x
        PROVE  q[x] <= q[u] /\ q[u] - q[x] <= t
    <3>1. u \in Nodes /\ q[u] = p[u] + w[u] /\ p[u] + w[u] <= p[x] + w[x] /\ low <= p[u]
          /\ p[u] \in Int /\ w[u] \in Nat
      BY <1>1, <1>2, <2>2
    <3>2. q[x] \in Int /\ q[u] \in Int /\ ~(q[x] >= low) /\ p[x] \in Int /\ w[x] \in Nat
      BY <1>2, <1>4
    <3> HIDE DEF x, t, M, q
    <3>3. q[u] <= q[x] + t
      BY <1>2, <2>1, <3>1, <3>2
    <3> QED
      BY <1>2, <3>1, <3>2, <3>3
  <2>3. \A v \in Nodes : f[v] = q[v] - q[x] /\ f[v] \in Int /\ q[v] \in Int
    BY <1>2, AboveInt
  <2>4. \A v \in Nodes : e[v] = t - (IF v = x THEN t ELSE 0) /\ e[v] \in Int /\ e[v] >= 0
    BY <1>2
  <2> HIDE DEF f, e, x, t, M, q
  <2>5. \A v \in Nodes : (IF v \in M THEN f[v] ELSE 0) <= (IF v \in Nodes THEN e[v] ELSE 0)
    <3> SUFFICES ASSUME NEW v \in Nodes
                 PROVE  (IF v \in M THEN f[v] ELSE 0) <= e[v]
      OBVIOUS
    <3>1. CASE v \notin M
      BY <2>4, <3>1
    <3>2. CASE v \in M /\ v = x
      BY <2>3, <2>4, <3>2
    <3>3. CASE v \in M /\ v # x
      <4>1. f[v] <= t /\ e[v] = t
        BY <1>2, <2>2, <2>3, <2>4, <3>3
      <4> QED
        BY <3>3, <4>1
    <3> QED
      BY <3>1, <3>2, <3>3
  <2>6. Power(f, M) <= Power(e, Nodes)
    BY <2>3, <2>4, <2>5, PowerAtMost
  <2>7. Power(e, Nodes) = (N - 1) * t
    BY <1>2, OthersPay DEF e
  <2>8. (N - 1) * t <= (N - 1) * L
    <3>1. N - 1 \in Nat /\ t \in Int /\ L \in Int /\ t <= L
      BY <1>2, NAssumption DEF t
    <3> QED
      BY <3>1, ProductMonotone
  <2>9. Power(f, M) \in Int /\ (N - 1) * t \in Int /\ (N - 1) * L \in Int
    BY <1>2, <2>3, NAssumption, PowerInt
  <2>10. Power(f, M) <= (N - 1) * L
    BY <2>6, <2>7, <2>8, <2>9
  <2>11. \A u \in M : q[x] <= q[u]
    BY <1>2, <2>2, <2>3
  <2>12. Within(q, M, (N - 1) * L)
    BY <1>2, <2>10, <2>11 DEF Within, f
  <2> QED
    BY <2>12 DEF q, M
<1> QED
  BY <1>3, <1>4

\* Nobody is further from another than all are from the floor together.
LEMMA WithinSpread ==
    ASSUME NEW p \in [Nodes -> Int], NEW M \in SUBSET Nodes, NEW D \in Int, Within(p, M, D),
           NEW u \in M, NEW v \in M
    PROVE  p[u] - p[v] <= D
<1>1. PICK low \in Int : (\A z \in M : low <= p[z]) /\ Power(Above(p, low), M) <= D
  BY DEF Within
<1> DEFINE f == Above(p, low)
<1>2. \A z \in Nodes : f[z] = p[z] - low /\ f[z] \in Int /\ p[z] \in Int
  BY AboveInt
<1>3. \A z \in Nodes : (IF z \in {u} THEN f[z] ELSE 0) <= (IF z \in M THEN f[z] ELSE 0)
  BY <1>1, <1>2
<1> HIDE DEF f
<1>4. Power(f, {u}) <= Power(f, M) /\ Power(f, {u}) = f[u] /\ Power(f, M) \in Int
  BY <1>2, <1>3, PowerAtMost, PowerOne, PowerInt
<1>5. Power(f, M) <= D
  BY <1>1 DEF f
<1>6. u \in Nodes /\ v \in Nodes /\ low <= p[v]
  BY <1>1
<1> QED
  BY <1>2, <1>4, <1>5, <1>6

-----------------------------------------------------------------------------
(* Those that are slashed leave, those that heal join at the floor *)

\* O are those who stay, H those who rejoin at the level of the last of them.
LEMMA RejoinWithin ==
    ASSUME NEW p \in [Nodes -> Int], NEW M \in SUBSET Nodes, NEW D \in Nat, Within(p, M, D),
           NEW O \in SUBSET M, NEW H \in SUBSET Nodes, O \cap H = {},
           NEW low \in Int, O = {} => low = 0,
           O # {} => (\E m \in O : p[m] = low) /\ \A u \in O : low <= p[u]
    PROVE  LET q == [v \in Nodes |-> IF v \in H THEN low ELSE p[v]]
           IN  Within(q, O \cup H, D) /\ Power(Above(q, low), O \cup H) >= 0
<1> DEFINE q == [v \in Nodes |-> IF v \in H THEN low ELSE p[v]]
           f == Above(q, low)
           zero == [v \in Nodes |-> 0]
<1>1. q \in [Nodes -> Int]
  OBVIOUS
<1>2. \A v \in Nodes : f[v] \in Int /\ f[v] = q[v] - low /\ zero[v] = 0 /\ zero[v] \in Int
  BY <1>1, AboveInt
<1>3. \A v \in O \cup H : v \in Nodes /\ low <= q[v]
  OBVIOUS
<1>4. Power(zero, {}) = 0
  <2>1. zero \in [Nodes -> Nat]
    OBVIOUS
  <2> QED
    BY <2>1, PowerEmpty
<1>5. \A v \in H : q[v] = low
  OBVIOUS
<1>6. \A v \in O : q[v] = p[v]
  OBVIOUS
<1> HIDE DEF q, f, zero
<1>7. Power(f, O \cup H) >= 0
  <2>1. \A v \in Nodes : (IF v \in {} THEN zero[v] ELSE 0) <= (IF v \in O \cup H THEN f[v] ELSE 0)
    BY <1>1, <1>2, <1>3
  <2>2. Power(zero, {}) <= Power(f, O \cup H)
    BY <1>2, <2>1, PowerAtMost
  <2> QED
    BY <1>4, <2>2
<1>8. Power(f, O \cup H) <= D
  <2>1. CASE O = {}
    <3>1. \A v \in Nodes : (IF v \in O \cup H THEN f[v] ELSE 0) <= (IF v \in {} THEN zero[v] ELSE 0)
      BY <1>1, <1>2, <1>5, <2>1
    <3>2. Power(f, O \cup H) <= Power(zero, {})
      BY <1>2, <3>1, PowerAtMost
    <3>3. Power(f, O \cup H) \in Int
      BY <1>2, PowerInt
    <3> QED
      BY <1>4, <3>2, <3>3
  <2>2. CASE O # {}
    <3>1. PICK floor \in Int : (\A u \in M : floor <= p[u]) /\ Power(Above(p, floor), M) <= D
      BY DEF Within
    <3>2. floor <= low
      BY <2>2, <3>1
    <3> DEFINE g == Above(p, floor)
    <3>3. \A v \in Nodes : g[v] \in Int /\ g[v] = p[v] - floor /\ p[v] \in Int
      BY <3>1, AboveInt
    <3> HIDE DEF g
    <3>4. \A v \in Nodes : (IF v \in O \cup H THEN f[v] ELSE 0) <= (IF v \in M THEN g[v] ELSE 0)
      <4> SUFFICES ASSUME NEW v \in Nodes
                   PROVE  (IF v \in O \cup H THEN f[v] ELSE 0) <= (IF v \in M THEN g[v] ELSE 0)
        OBVIOUS
      <4>1. CASE v \in O
        BY <1>2, <1>6, <3>2, <3>3, <4>1
      <4>2. CASE v \notin O
        <5>1. (IF v \in O \cup H THEN f[v] ELSE 0) = 0
          BY <1>1, <1>2, <1>5, <4>2
        <5>2. (IF v \in M THEN g[v] ELSE 0) >= 0
          BY <3>1, <3>3
        <5> QED
          BY <5>1, <5>2
      <4> QED
        BY <4>1, <4>2
    <3>5. Power(f, O \cup H) <= Power(g, M)
      BY <1>2, <3>3, <3>4, PowerAtMost
    <3>6. Power(g, M) <= D /\ Power(g, M) \in Int /\ Power(f, O \cup H) \in Int
      BY <1>2, <3>1, <3>3, PowerInt DEF g
    <3> QED
      BY <3>5, <3>6
  <2> QED
    BY <2>1, <2>2
<1>9. Within(q, O \cup H, D)
  BY <1>3, <1>8 DEF Within, f
<1> QED
  BY <1>7, <1>9 DEF q, f

-----------------------------------------------------------------------------
(* The invariant *)

Shape ==
    /\ excluded \in [Nodes -> BOOLEAN]
    /\ bonded \in Bondings
    /\ priority \in [Nodes -> Int]
    /\ owed \in [Nodes -> Int]
    /\ atBack \subseteq Members(excluded)

\* All that take part are close to their floor together.
Close == Within(priority, Members(excluded), (N - 1) * Largest)

\* Those that started with the last change of members started at one level,
\* which is at most the mean of all, and what they are owed is what they have
\* above it.
Level ==
    \E c \in Int :
        /\ Power(Above(priority, c), Members(excluded)) >= 0
        /\ \A v \in atBack : owed[v] = priority[v] - c /\ owed[v] > -Largest

RotationInv == Shape /\ Close /\ Level

LEMMA RotationInit ==
    ASSUME AllHaveStake, Init
    PROVE  RotationInv
<1> DEFINE M == Members(excluded)
           zero == [v \in Nodes |-> 0]
<1>1. /\ excluded = [v \in Nodes |-> FALSE] /\ bonded = NoBond /\ priority = zero
      /\ atBack = Nodes /\ owed = zero
  BY DEF Init
<1>2. Shape
  BY <1>1, BondingsAssumption DEF Shape, Members
<1>3. Largest > 0
  <2> DEFINE w == Effective(excluded, bonded)
  <2>1. w \in [Nodes -> Nat] /\ Total(w) <= Largest /\ Largest \in Nat
    BY <1>2, EffectiveType, LargestBounds, BondingsAssumption DEF Shape
  <2>2. N \in Nodes /\ \A v \in Nodes : w[v] > 0
    BY <1>1, NAssumption, StakeAssumption DEF Effective, AllHaveStake, NoBond, Nodes
  <2>3. \A v \in Nodes : /\ (IF v \in {N} THEN w[v] ELSE 0) <= (IF v \in Nodes THEN w[v] ELSE 0)
                         /\ w[v] \in Int
    BY <2>1
  <2> HIDE DEF w
  <2>4. Power(w, {N}) <= Total(w) /\ Power(w, {N}) = w[N] /\ Total(w) \in Nat
    BY <2>1, <2>2, <2>3, PowerAtMost, PowerOne, PowerNat DEF Total
  <2> QED
    BY <2>1, <2>2, <2>3, <2>4
<1>4. Power(Above(priority, 0), M) = 0
  <2> DEFINE f == Above(priority, 0)
  <2>1. /\ \A v \in Nodes : f[v] \in Int /\ zero[v] \in Int
        /\ \A v \in Nodes : (IF v \in M THEN f[v] ELSE 0) = (IF v \in {} THEN zero[v] ELSE 0)
        /\ zero \in [Nodes -> Nat]
    BY <1>1 DEF Above
  <2> HIDE DEF f, zero, M
  <2> QED
    BY <2>1, PowerSame, PowerEmpty DEF f
<1>5. 0 <= (N - 1) * Largest
  <2>1. N - 1 \in Nat /\ Largest \in Nat
    BY NAssumption, LargestBounds
  <2> QED
    BY <2>1
<1>6. \A u \in M : 0 <= priority[u]
  BY <1>1 DEF Members
<1>7. Close
  BY <1>4, <1>5, <1>6 DEF Close, Within
<1>8. Level
  <2>1. \A v \in atBack : owed[v] = priority[v] - 0 /\ owed[v] > -Largest
    BY <1>1, <1>3, LargestBounds
  <2> QED
    BY <1>4, <2>1 DEF Level
<1> QED
  BY <1>2, <1>7, <1>8 DEF RotationInv

\* The members after a height, and the level at which they started.
LEMMA MembersAfter ==
    ASSUME AllHaveStake, RotationInv,
           NEW S \in SUBSET {v \in Nodes : ~excluded[v]},
           NEW H \in SUBSET {v \in Nodes : excluded[v] \/ v \in S}
    PROVE  LET out  == [v \in Nodes |-> excluded[v] \/ v \in S]
               back == [v \in Nodes |-> out[v] /\ v \notin H]
               q    == Rejoined(priority, Effective(out, bonded), H)
           IN  /\ q \in [Nodes -> Int]
               /\ Within(q, Members(back), (N - 1) * Largest)
               /\ S \cup H = {} => q = priority /\ Members(back) = Members(excluded)
               /\ S \cup H # {} =>
                    \E c \in Int : /\ Power(Above(q, c), Members(back)) >= 0
                                   /\ \A v \in H : q[v] = c
               /\ H \subseteq Members(back)
<1> DEFINE out  == [v \in Nodes |-> excluded[v] \/ v \in S]
           back == [v \in Nodes |-> out[v] /\ v \notin H]
           w    == Effective(out, bonded)
           q    == Rejoined(priority, w, H)
           M    == Members(excluded)
           O    == Members(out)
           D    == (N - 1) * Largest
<1>1. Shape /\ Close
  BY DEF RotationInv
<1>2. /\ priority \in [Nodes -> Int] /\ bonded \in [Nodes -> Nat]
      /\ w \in [Nodes -> Nat]
  BY <1>1, BondingsAssumption, EffectiveType DEF Shape
<1>3. Weighted(w) = O
  BY <1>2, WeightedMembers
<1>4. O \subseteq M /\ M \subseteq Nodes /\ O \cap H = {} /\ H \subseteq Nodes /\ O \ H = O
  BY DEF Members
<1>5. Members(back) = O \cup H /\ (S \cup H = {} => O = M)
  BY DEF Members
<1>6. PICK low \in Int :
        /\ q = [v \in Nodes |-> IF v \in H THEN low ELSE priority[v]]
        /\ O = {} => low = 0
        /\ O # {} => (\E m \in O : priority[m] = low) /\ \A u \in O : low <= priority[u]
  <2> HIDE DEF w
  <2> DEFINE At(X, low) == /\ q = [v \in Nodes |-> IF v \in H THEN low ELSE priority[v]]
                           /\ X \ H = {} => low = 0
                           /\ X \ H # {} =>
                                /\ \E m \in X \ H : priority[m] = low
                                /\ \A u \in X \ H : low <= priority[u]
  <2>1. \E low \in Int : At(Weighted(w), low)
    BY <1>2, RejoinedLevel
  <2>2. \E low \in Int : At(O, low)
    <3> HIDE DEF At, O
    <3> QED
      BY <1>3, <2>1, Zenon
  <2> QED
    BY <1>4, <2>2
<1>7. Within(priority, M, D) /\ D \in Nat
  <2>1. N - 1 \in Nat /\ Largest \in Nat
    BY NAssumption, LargestBounds
  <2> QED
    BY <1>1, <2>1 DEF Close
<1>8. q \in [Nodes -> Int] /\ \A v \in H : q[v] = low
  BY <1>2, <1>4, <1>6
<1> HIDE DEF O, M, D, w
<1>9. Within(q, O \cup H, D) /\ Power(Above(q, low), O \cup H) >= 0
  <2> HIDE DEF q, out, back
  <2> DEFINE r == [v \in Nodes |-> IF v \in H THEN low ELSE priority[v]]
  <2>1. Within(r, O \cup H, D) /\ Power(Above(r, low), O \cup H) >= 0
    BY <1>2, <1>4, <1>6, <1>7, RejoinWithin
  <2>2. q = r
    BY <1>6
  <2> QED
    BY <2>1, <2>2, Zenon
<1>10. S \cup H = {} => q = priority
  BY <1>2, <1>6
<1> HIDE DEF q
<1>11. Members(back) = O \cup H
  BY <1>5
<1>12. H \subseteq Members(back) /\ (S \cup H = {} => Members(back) = M)
  BY <1>5
<1> HIDE DEF back
<1>13. Within(q, Members(back), D) /\ Power(Above(q, low), Members(back)) >= 0
  BY <1>9, <1>11, Zenon
<1> QED
  BY <1>8, <1>10, <1>12, <1>13 DEF q, back, w, M, D

LEMMA HeightStep ==
    ASSUME AllHaveStake, RotationInv,
           NEW S \in SUBSET {v \in Nodes : ~excluded[v]},
           NEW H \in SUBSET {v \in Nodes : excluded[v] \/ v \in S},
           NEW b \in Bondings, NextHeight(S, H, b)
    PROVE  RotationInv'
<1> DEFINE out  == [v \in Nodes |-> excluded[v] \/ v \in S]
           back == [v \in Nodes |-> out[v] /\ v \notin H]
           q    == Rejoined(priority, Effective(out, bonded), H)
           w    == Effective(back, b)
           x    == Winner(q, w)
           t    == Total(w)
           M    == Members(back)
           kept == [v \in Nodes |-> IF v \in H THEN 0 ELSE owed[v]]
<1>1. /\ q \in [Nodes -> Int]
      /\ Within(q, M, (N - 1) * Largest)
      /\ S \cup H = {} => q = priority /\ M = Members(excluded)
      /\ S \cup H # {} =>
           \E c \in Int : Power(Above(q, c), M) >= 0 /\ \A v \in H : q[v] = c
      /\ H \subseteq M
  BY MembersAfter
<1>2. w \in [Nodes -> Nat] /\ Weighted(w) = M /\ t <= Largest /\ Largest \in Nat
  BY BondingsAssumption, EffectiveType, LargestBounds, WeightedMembers
<1>3. /\ Electable(w)
      /\ excluded' = back /\ bonded' = b /\ priority' = Advance(q, w)
      /\ atBack' = IF S \cup H = {} THEN atBack ELSE H
      /\ owed' = [v \in Nodes |->
                    IF v \notin atBack' THEN 0
                    ELSE kept[v] + w[v] - (IF v = x THEN t ELSE 0)]
  <2> HIDE DEF out, q, w
  <2> USE DEF out, q, w
  <2> QED
    BY DEF NextHeight
<1>4. /\ t \in Nat /\ x \in Nodes
      /\ \A v \in Nodes : priority'[v] = q[v] + (w[v] - (IF v = x THEN t ELSE 0))
      /\ priority' \in [Nodes -> Int]
  BY <1>1, <1>2, <1>3, AdvanceEach, AdvanceType, WinnerHasWeight
<1>5. back \in [Nodes -> BOOLEAN] /\ M \subseteq Nodes /\ kept \in [Nodes -> Int]
  <2>1. excluded \in [Nodes -> BOOLEAN] /\ owed \in [Nodes -> Int]
    BY DEF RotationInv, Shape
  <2> QED
    BY <2>1 DEF Members
<1>6. atBack' \subseteq M
  <2>1. atBack \subseteq Members(excluded)
    BY DEF RotationInv, Shape
  <2> QED
    BY <1>1, <1>3, <2>1
<1>7. PICK c \in Int :
        /\ Power(Above(q, c), M) >= 0
        /\ \A v \in atBack' : kept[v] = q[v] - c /\ kept[v] > -Largest
  <2>1. CASE S \cup H = {}
    <3>1. PICK c \in Int :
            /\ Power(Above(priority, c), Members(excluded)) >= 0
            /\ \A v \in atBack : owed[v] = priority[v] - c /\ owed[v] > -Largest
      BY DEF RotationInv, Level
    <3>2. q = priority /\ M = Members(excluded) /\ atBack' = atBack /\ H = {}
      BY <1>1, <1>3, <2>1
    <3>3. \A v \in atBack' : kept[v] = owed[v]
      BY <1>5, <1>6, <3>2
    <3> HIDE DEF q, M, kept
    <3>4. Power(Above(q, c), M) >= 0
      BY <3>1, <3>2
    <3>5. \A v \in atBack' : kept[v] = q[v] - c /\ kept[v] > -Largest
      BY <3>1, <3>2, <3>3
    <3> QED
      BY <3>4, <3>5
  <2>2. CASE S \cup H # {}
    <3>1. PICK c \in Int : Power(Above(q, c), M) >= 0 /\ \A v \in H : q[v] = c
      BY <1>1, <2>2
    <3>2. atBack' = H
      BY <1>3, <2>2
    <3>3. Largest > 0
      <4>1. w[x] > 0 /\ \A v \in Nodes : (IF v \in {x} THEN w[v] ELSE 0) <= (IF v \in Nodes THEN w[v] ELSE 0)
        BY <1>1, <1>2, <1>3, WinnerHasWeight
      <4> HIDE DEF w, x, t
      <4>2. Power(w, {x}) <= Total(w) /\ Power(w, {x}) = w[x]
        BY <1>2, <1>4, <4>1, PowerAtMost, PowerOne DEF Total
      <4>3. w[x] \in Int /\ Total(w) <= Largest /\ Total(w) \in Nat
        BY <1>2, <1>4 DEF t
      <4> QED
        BY <1>2, <4>1, <4>2, <4>3
    <3>4. \A v \in H : kept[v] = 0
      BY <1>1, <1>5
    <3> HIDE DEF q, M, kept
    <3>5. \A v \in atBack' : kept[v] = q[v] - c /\ kept[v] > -Largest
      BY <1>2, <3>1, <3>2, <3>3, <3>4
    <3> QED
      BY <3>1, <3>5
  <2> QED
    BY <2>1, <2>2
<1>8. Shape'
  <2>1. owed' \in [Nodes -> Int]
    <3> HIDE DEF kept, w, x, t
    <3> QED
      BY <1>2, <1>3, <1>4, <1>5
  <2> QED
    BY <1>3, <1>4, <1>5, <1>6, <2>1 DEF Shape
<1>9. Within(Advance(q, w), M, (N - 1) * Largest)
  <2> HIDE DEF q, w, M
  <2> QED
    BY <1>1, <1>2, <1>3, AdvanceWithin DEF t
<1>10. Close'
  BY <1>3, <1>9 DEF Close
<1>11. Power(Above(Advance(q, w), c), M) >= 0 /\ q[x] + w[x] > c
  <2> HIDE DEF q, w, M
  <2>1. Power(Above(Advance(q, w), c), M) = Power(Above(q, c), M)
    BY <1>1, <1>2, <1>3, AdvanceSum
  <2> QED
    BY <1>1, <1>2, <1>3, <1>7, <2>1, WinnerAbove DEF x
<1>12. ASSUME NEW v \in atBack'
       PROVE  owed'[v] = priority'[v] - c /\ owed'[v] > -Largest
  <2>1. v \in Nodes /\ kept[v] = q[v] - c /\ kept[v] > -Largest
    BY <1>5, <1>6, <1>7, <1>12
  <2>2. /\ owed'[v] = kept[v] + w[v] - (IF v = x THEN t ELSE 0)
        /\ priority'[v] = q[v] + (w[v] - (IF v = x THEN t ELSE 0))
    BY <1>3, <1>4, <1>12, <2>1
  <2>3. /\ q[v] \in Int /\ w[v] \in Nat /\ kept[v] \in Int /\ t \in Nat /\ t <= Largest
        /\ Largest \in Nat
    BY <1>1, <1>2, <1>4, <1>5, <2>1
  <2> HIDE DEF q, w, x, t, kept
  <2>4. CASE v = x
    <3>1. q[v] + w[v] > c
      BY <1>11, <2>4
    <3> QED
      BY <2>1, <2>2, <2>3, <2>4, <3>1
  <2>5. CASE v # x
    BY <2>1, <2>2, <2>3, <2>5
  <2> QED
    BY <2>4, <2>5
<1>13. Level'
  <2> HIDE DEF q, w, M, back
  <2>1. Power(Above(priority', c), Members(excluded')) >= 0
    BY <1>3, <1>11 DEF M
  <2> QED
    BY <1>12, <2>1 DEF Level
<1> QED
  BY <1>8, <1>10, <1>13 DEF RotationInv

\* Every step is a height, with the weights as they were or with a change.
LEMMA RotationStep ==
    ASSUME AllHaveStake, RotationInv, [Next]_vars
    PROVE  RotationInv'
<1>1. CASE Unchanged
  <2>1. bonded \in Bondings /\ NextHeight({}, {}, bonded)
    BY <1>1 DEF RotationInv, Shape, Unchanged
  <2> QED
    BY <2>1, HeightStep
<1>2. CASE Changed
  <2>1. PICK S \in SUBSET {v \in Nodes : ~excluded[v]} :
           \E H \in SUBSET {v \in Nodes : excluded[v] \/ v \in S}, b \in Bondings :
              NextHeight(S, H, b)
    BY <1>2 DEF Changed
  <2>2. PICK H \in SUBSET {v \in Nodes : excluded[v] \/ v \in S}, b \in Bondings :
              NextHeight(S, H, b)
    BY <2>1
  <2> QED
    BY <2>2, HeightStep
<1>3. CASE UNCHANGED vars
  BY <1>3 DEF RotationInv, Shape, Close, Level, vars
<1> QED
  BY <1>1, <1>2, <1>3 DEF Next

\* The invariant of the rotation: those that take part stay within N - 1
\* payments of their floor together, and none of those that started level at the
\* last change of members is a payment below the mean.
THEOREM RotationInvariant ==
    ASSUME AllHaveStake
    PROVE  Spec => []RotationInv
<1>1. Init => RotationInv
  BY RotationInit
<1>2. RotationInv /\ [Next]_vars => RotationInv'
  BY RotationStep
<1> QED
  BY <1>1, <1>2, PTL DEF Spec

\* However many heights have passed, and whoever was slashed, healed and bonded
\* to meanwhile, no priority runs away: the accumulator of proposer.go needs no
\* centering.
THEOREM SpreadBoundedHolds ==
    ASSUME AllHaveStake
    PROVE  Spec => []SpreadBounded
<1>1. RotationInv => SpreadBounded
  <2> SUFFICES ASSUME RotationInv, NEW u \in Weighted(W), NEW v \in Weighted(W)
               PROVE  priority[u] - priority[v] <= (N - 1) * Largest
    BY DEF SpreadBounded
  <2>1. bonded \in [Nodes -> Nat] /\ priority \in [Nodes -> Int] /\ (N - 1) * Largest \in Int
    BY BondingsAssumption, LargestBounds, NAssumption DEF RotationInv, Shape
  <2>2. Weighted(W) = Members(excluded) /\ Members(excluded) \in SUBSET Nodes
    BY <2>1, WeightedMembers DEF W, Members
  <2>3. Within(priority, Members(excluded), (N - 1) * Largest)
    BY DEF RotationInv, Close
  <2> QED
    BY <2>1, <2>2, <2>3, WithinSpread
<1> QED
  BY <1>1, RotationInvariant, PTL

\* A validator that rejoins proposes less than one block more than its share of
\* the weight since, as restore in proposer.go promises.
THEOREM NoCatchingUpHolds ==
    ASSUME AllHaveStake
    PROVE  Spec => []NoCatchingUp
<1>1. RotationInv => NoCatchingUp
  BY DEF RotationInv, Level, NoCatchingUp
<1> QED
  BY <1>1, RotationInvariant, PTL

-----------------------------------------------------------------------------
(* The reference, which recomputes the priorities from the first height *)

Zero == [v \in Nodes |-> 0]

\* f holds the priorities of an undisturbed election after 0, 1, ..., h heights.
IsElection(f, h) ==
    /\ f[0] = Zero
    /\ \A i \in 1..h : f[i] = Advance(f[i-1], Stake)

\* The search of the reference for the highest, as a definition of its own.
Highest(p) == CHOOSE v \in Weighted(Stake) :
                \A u \in Weighted(Stake) : p[u] <= p[v] /\ (p[u] = p[v] => v <= u)

\* It finds whom the election finds.
LEMMA HighestIsWinner ==
    ASSUME NEW prio \in [Nodes -> Int], Electable(Stake)
    PROVE  Highest(Raised(prio, Stake)) = Winner(prio, Stake)
<1> DEFINE r == Raised(prio, Stake)
           W0 == Weighted(Stake)
           Beats(v) == \A u \in W0 : r[u] < r[v] \/ (r[u] = r[v] /\ v <= u)
           Tops(v) == \A u \in W0 : r[u] <= r[v] /\ (r[u] = r[v] => v <= u)
<1>1. r \in [Nodes -> Int] /\ W0 \in SUBSET Nodes /\ W0 # {}
  BY StakeAssumption DEF Raised, Weighted, Electable
<1> HIDE DEF r, W0
<1>2. \A v \in W0 : v \in Int /\ r[v] \in Int
  BY <1>1, NAssumption DEF Nodes
<1>3. \E v \in W0 : Beats(v)
  BY <1>1, BestExists
<1>4. \A v \in W0 : Beats(v) <=> Tops(v)
  BY <1>2
<1> DEFINE x == CHOOSE v \in W0 : Beats(v)
           y == CHOOSE v \in W0 : Tops(v)
<1>5. x \in W0 /\ Beats(x)
  <2> HIDE DEF Beats
  <2> QED
    BY <1>3
<1>6. y \in W0 /\ Tops(y)
  <2>1. \E v \in W0 : Tops(v)
    BY <1>3, <1>4
  <2> HIDE DEF Tops
  <2> QED
    BY <2>1
<1>7. x = y
  <2> HIDE DEF x, y
  <2> QED
    BY <1>2, <1>5, <1>6
<1>8. Winner(prio, Stake) = x /\ Highest(r) = y
  BY DEF Winner, Highest, r, W0
<1> QED
  BY <1>7, <1>8 DEF r

\* Two elections of the same validators agree at every height.
LEMMA ElectionsAgree ==
    ASSUME NEW f, NEW g, NEW h \in Nat, IsElection(f, h), IsElection(g, h)
    PROVE  \A i \in 0..h : f[i] = g[i] /\ f[i] \in [Nodes -> Int]
<1> DEFINE T == {i \in Nat : i <= h /\ ~(f[i] = g[i] /\ f[i] \in [Nodes -> Int])}
<1>1. SUFFICES ASSUME T # {} PROVE FALSE
  OBVIOUS
<1>2. PICK i \in T : \A j \in T : i <= j
  <2>1. T \subseteq Nat
    OBVIOUS
  <2> HIDE DEF T
  <2> QED
    BY <1>1, <2>1, LeastElement
<1>3. i # 0
  BY DEF IsElection, Zero
<1>4. i \in 1..h /\ i-1 \in Nat /\ i-1 <= h
  BY <1>2, <1>3
<1>5. i-1 \notin T
  <2> HIDE DEF T
  <2> QED
    BY <1>2, <1>4
<1>6. f[i-1] = g[i-1] /\ f[i-1] \in [Nodes -> Int]
  BY <1>4, <1>5
<1>7. f[i] = Advance(f[i-1], Stake) /\ g[i] = Advance(g[i-1], Stake)
  BY <1>4 DEF IsElection
<1>8. f[i] = g[i]
  BY <1>6, <1>7, Zenon
<1>9. f[i] \in [Nodes -> Int]
  BY <1>6, <1>7, StakeAssumption, AdvanceType
<1> QED
  BY <1>2, <1>8, <1>9

\* What the reference recurses over is such an election.
LEMMA ReferenceElects ==
    ASSUME NEW h \in Nat, h > 0, NEW f, IsElection(f, h), Electable(Stake)
    PROVE  ProposerForHeight(h) = Winner(f[h-1], Stake)
<1> DEFINE Step(p) == [p EXCEPT ![Highest(p)] = @ - Total(Stake)]
           Recursion(g) == g = [i \in 0..h |->
                IF i = 0 THEN Zero
                ELSE LET p == [v \in Nodes |-> g[i-1][v] + Stake[v]] IN Step(p)]
           fh == [i \in 0..h |-> f[i]]
           prio == CHOOSE g : Recursion(g)
<1>1. \A i \in 0..h : f[i] \in [Nodes -> Int]
  BY ElectionsAgree
<1>2. \A p \in [Nodes -> Int] :
        Step([v \in Nodes |-> p[v] + Stake[v]]) = Advance(p, Stake)
  <2> SUFFICES ASSUME NEW p \in [Nodes -> Int]
               PROVE  Step([v \in Nodes |-> p[v] + Stake[v]]) = Advance(p, Stake)
    OBVIOUS
  <2>1. Raised(p, Stake) = [v \in Nodes |-> p[v] + Stake[v]]
    BY DEF Raised
  <2>2. Highest(Raised(p, Stake)) = Winner(p, Stake)
    BY HighestIsWinner
  <2>3. Step(Raised(p, Stake)) = Advance(p, Stake)
    BY <2>2, Zenon DEF Advance
  <2> QED
    BY <2>1, <2>3, Zenon
<1> HIDE DEF Step
<1>3. Recursion(fh)
  <2>1. ASSUME NEW i \in 0..h
        PROVE  f[i] = IF i = 0 THEN Zero
                      ELSE LET p == [v \in Nodes |-> fh[i-1][v] + Stake[v]] IN Step(p)
    <3>1. CASE i = 0
      BY <3>1 DEF IsElection
    <3>2. CASE i # 0
      <4>1. i \in 1..h /\ i-1 \in 0..h
        BY <3>2
      <4>2. f[i] = Advance(f[i-1], Stake) /\ f[i-1] \in [Nodes -> Int] /\ fh[i-1] = f[i-1]
        BY <1>1, <4>1 DEF IsElection
      <4>3. f[i] = Step([v \in Nodes |-> f[i-1][v] + Stake[v]])
        BY <1>2, <4>2
      <4> HIDE DEF fh
      <4>4. f[i] = Step([v \in Nodes |-> fh[i-1][v] + Stake[v]])
        BY <4>2, <4>3
      <4> QED
        BY <3>2, <4>4
    <3> QED
      BY <3>1, <3>2
  <2> QED
    BY <2>1
<1>4. Recursion(prio)
  <2> HIDE DEF Recursion, fh
  <2> QED
    BY <1>3
<1>5. \A i \in 0..h : prio[i] =
            IF i = 0 THEN Zero
            ELSE LET p == [v \in Nodes |-> prio[i-1][v] + Stake[v]] IN Step(p)
  <2> HIDE DEF prio
  <2> QED
    BY <1>4
<1>6. prio[h-1] = f[h-1]
  <2> HIDE DEF prio
  <2> DEFINE T == {i \in Nat : i <= h /\ prio[i] # f[i]}
  <2>1. SUFFICES ASSUME T # {} PROVE FALSE
    OBVIOUS
  <2>2. PICK i \in T : \A j \in T : i <= j
    <3>1. T \subseteq Nat
      OBVIOUS
    <3> HIDE DEF T
    <3> QED
      BY <2>1, <3>1, LeastElement
  <2>3. i # 0
    <3> HIDE DEF Zero
    <3>1. prio[0] = Zero /\ f[0] = Zero
      <4>1. 0 \in 0..h /\ f[0] = Zero
        BY DEF IsElection
      <4> QED
        BY <1>5, <4>1, Zenon
    <3> QED
      BY <2>2, <3>1
  <2>4. i \in 1..h /\ i \in 0..h /\ i-1 \in 0..h /\ i-1 \in Nat /\ i-1 <= h
    BY <2>2, <2>3
  <2>5. i-1 \notin T
    <3> HIDE DEF T
    <3> QED
      BY <2>2, <2>4
  <2>6. prio[i-1] = f[i-1] /\ f[i-1] \in [Nodes -> Int]
    BY <1>1, <2>4, <2>5
  <2>7. prio[i] = Step([v \in Nodes |-> prio[i-1][v] + Stake[v]])
    BY <1>5, <2>3, <2>4
  <2>8. Step([v \in Nodes |-> f[i-1][v] + Stake[v]]) = Advance(f[i-1], Stake)
    BY <1>2, <2>6
  <2>9. f[i] = Advance(f[i-1], Stake)
    BY <2>4 DEF IsElection
  <2>10. prio[i] = f[i]
    BY <2>6, <2>7, <2>8, <2>9, Zenon
  <2> QED
    BY <2>2, <2>10
<1>7. f[h-1] \in [Nodes -> Int]
  BY <1>1
<1>8. ProposerForHeight(h) = Highest([v \in Nodes |-> prio[h-1][v] + Stake[v]])
  BY Zenon DEF ProposerForHeight, Highest, Zero, Step
<1>9. Raised(f[h-1], Stake) = [v \in Nodes |-> f[h-1][v] + Stake[v]]
  BY DEF Raised
<1> HIDE DEF prio
<1>10. ProposerForHeight(h) = Highest(Raised(f[h-1], Stake))
  BY <1>6, <1>8, <1>9, Zenon
<1> QED
  BY <1>7, <1>10, HighestIsWinner

\* While nothing changes, what is carried from height to height is such an
\* election, as far as heights are counted.
Undisturbed ==
    /\ height \in 0..MaxCounted /\ changes \in Nat
    /\ changes = 0 =>
        /\ excluded = [v \in Nodes |-> FALSE] /\ bonded = NoBond
        /\ height < MaxCounted => \E f :
            /\ IsElection(f, height)
            /\ priority = f[height]
            /\ height > 0 => Electable(Stake) /\ proposer = Winner(f[height-1], Stake)

LEMMA UndisturbedHeight ==
    ASSUME Undisturbed, changes = 0, NextHeight({}, {}, bonded), changes' = changes
    PROVE  Undisturbed'
<1> DEFINE out  == [v \in Nodes |-> excluded[v] \/ v \in {}]
           back == [v \in Nodes |-> out[v] /\ v \notin {}]
           w    == Effective(back, bonded)
           q    == Rejoined(priority, Effective(out, bonded), {})
<1>1. /\ Electable(w) /\ excluded' = back /\ bonded' = bonded
      /\ priority' = Advance(q, w) /\ proposer' = Winner(q, w)
      /\ height' = IF height < MaxCounted THEN height + 1 ELSE height
  BY DEF NextHeight
<1>2. /\ excluded = [v \in Nodes |-> FALSE] /\ bonded = NoBond
      /\ height \in 0..MaxCounted /\ MaxCounted \in Nat
  BY BoundsAssumption DEF Undisturbed
<1>3. back = [v \in Nodes |-> FALSE]
  BY <1>2
<1>4. w = Stake
  <2> HIDE DEF back
  <2>1. \A v \in Nodes : ~back[v] /\ bonded[v] = 0 /\ Stake[v] \in Nat
    BY <1>2, <1>3, StakeAssumption DEF NoBond
  <2>2. w = [v \in Nodes |-> Stake[v]]
    BY <2>1 DEF Effective
  <2> QED
    BY <2>2, StakeAssumption
<1>5. height' \in 0..MaxCounted /\ (height' < MaxCounted => height < MaxCounted /\ height' = height + 1)
  BY <1>1, <1>2
<1>6. Effective(out, bonded) \in [Nodes -> Nat]
  <2>1. bonded \in [Nodes -> Nat]
    BY <1>2 DEF NoBond
  <2> QED
    BY <2>1, EffectiveType
<1> HIDE DEF out, back, w
<1>7. ASSUME height' < MaxCounted
      PROVE  \E f : /\ IsElection(f, height')
                    /\ priority' = f[height']
                    /\ height' > 0 => Electable(Stake) /\ proposer' = Winner(f[height'-1], Stake)
  <2>1. PICK f : IsElection(f, height) /\ priority = f[height]
    BY <1>5, <1>7 DEF Undisturbed
  <2>2. height \in Nat /\ height' = height + 1
    BY <1>2, <1>5, <1>7
  <2>3. priority \in [Nodes -> Int]
    BY <2>1, <2>2, ElectionsAgree
  <2>4. q = priority
    <3>1. PICK low \in Int : q = [v \in Nodes |-> IF v \in {} THEN low ELSE priority[v]]
      BY <1>6, <2>3, RejoinedLevel
    <3> HIDE DEF q
    <3> QED
      BY <2>3, <3>1
  <2> HIDE DEF q
  <2> DEFINE k == height
             g == [i \in 0..(k+1) |-> IF i <= k THEN f[i] ELSE Advance(f[k], Stake)]
  <2>5. k \in Nat /\ g[k+1] = Advance(f[k], Stake) /\ \A i \in 0..k : g[i] = f[i]
    BY <2>2
  <2> HIDE DEF g, k
  <2>6. IsElection(g, k+1)
    <3>1. g[0] = Zero
      BY <2>1, <2>5 DEF IsElection, k
    <3>2. ASSUME NEW i \in 1..(k+1) PROVE g[i] = Advance(g[i-1], Stake)
      <4>1. i-1 \in 0..k /\ g[i-1] = f[i-1]
        BY <2>5, <3>2
      <4>2. CASE i = k+1
        <5>1. i-1 = k
          BY <2>5, <4>2
        <5> QED
          BY <2>5, <4>1, <4>2, <5>1
      <4>3. CASE i # k+1
        <5>1. i \in 1..k /\ i \in 0..k
          BY <2>5, <3>2, <4>3
        <5>2. f[i] = Advance(f[i-1], Stake)
          BY <2>1, <5>1 DEF IsElection, k
        <5> QED
          BY <2>5, <4>1, <5>1, <5>2
      <4> QED
        BY <4>2, <4>3
    <3> QED
      BY <3>1, <3>2 DEF IsElection
  <2>7. priority' = g[k+1]
    BY <1>1, <1>4, <2>1, <2>4, <2>5 DEF k
  <2>8. g[(k+1)-1] = f[k]
    <3>1. (k+1)-1 = k /\ k \in 0..k
      BY <2>5
    <3> QED
      BY <2>5, <3>1
  <2>9. Electable(Stake) /\ proposer' = Winner(g[(k+1)-1], Stake)
    BY <1>1, <1>4, <2>1, <2>4, <2>8, Zenon DEF k
  <2> HIDE DEF k
  <2>10. height' = k + 1
    BY <2>2 DEF k
  <2> QED
    BY <2>6, <2>7, <2>9, <2>10, Zenon
<1>8. changes' \in Nat /\ excluded' = [v \in Nodes |-> FALSE] /\ bonded' = NoBond
  BY <1>1, <1>2, <1>3
<1> QED
  BY <1>5, <1>7, <1>8 DEF Undisturbed

\* As long as nobody is slashed and nothing is bonded, the election that
\* proposer.go carries from height to height elects whom ProposerForHeight of
\* validator.go computes anew for every height.
THEOREM FollowsReferenceHolds == Spec => []FollowsReference
<1>1. Init => Undisturbed
  <2> SUFFICES ASSUME Init PROVE Undisturbed
    OBVIOUS
  <2>1. height = 0 /\ changes = 0 /\ priority = Zero /\ bonded = NoBond
        /\ excluded = [v \in Nodes |-> FALSE]
    BY DEF Init, Zero
  <2>2. IsElection([i \in 0..0 |-> Zero], 0) /\ [i \in 0..0 |-> Zero][0] = Zero
    BY DEF IsElection
  <2> QED
    BY <2>1, <2>2, BoundsAssumption DEF Undisturbed
<1>2. Undisturbed /\ [Next]_vars => Undisturbed'
  <2> SUFFICES ASSUME Undisturbed, [Next]_vars PROVE Undisturbed'
    OBVIOUS
  <2>1. CASE Unchanged /\ changes = 0
    BY <2>1, UndisturbedHeight DEF Unchanged
  <2>2. CASE (Unchanged /\ changes # 0) \/ Changed
    <3>1. height \in 0..MaxCounted /\ changes \in Nat /\ MaxCounted \in Nat
      BY BoundsAssumption DEF Undisturbed
    <3>2. changes' \in Nat /\ changes' # 0
      BY <2>2, <3>1 DEF Unchanged, Changed
    <3>3. height' = IF height < MaxCounted THEN height + 1 ELSE height
      BY <2>2 DEF Unchanged, Changed, NextHeight
    <3> QED
      BY <3>1, <3>2, <3>3 DEF Undisturbed
  <2>3. CASE UNCHANGED vars
    BY <2>3 DEF Undisturbed, vars
  <2> QED
    BY <2>1, <2>2, <2>3 DEF Next
<1>3. Undisturbed => FollowsReference
  <2> SUFFICES ASSUME Undisturbed, height \in 1..(MaxCounted - 1), changes = 0
               PROVE  proposer = ProposerForHeight(height)
    BY DEF FollowsReference
  <2>1. height \in Nat /\ height > 0 /\ height < MaxCounted
    BY BoundsAssumption
  <2>2. PICK f : /\ IsElection(f, height)
                 /\ Electable(Stake) /\ proposer = Winner(f[height-1], Stake)
    BY <2>1 DEF Undisturbed
  <2> QED
    BY <2>1, <2>2, ReferenceElects
<1> QED
  BY <1>1, <1>2, <1>3, PTL DEF Spec
=============================================================================
