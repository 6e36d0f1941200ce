------------------------- MODULE Validators_proofs -------------------------
(***************************************************************************)
(* Lemmas about Power, the weight of a set of validators, and the theorem  *)
(* that quorums meet even when the nodes that count them disagree on who   *)
(* is slashed.  Induction over the indices goes through the least index at *)
(* which a statement fails.                                                *)
(***************************************************************************)
EXTENDS Validators, TLAPS, WellFoundedInduction

\* A set of naturals that is not empty has a least element.
LEMMA LeastElement ==
    ASSUME NEW T, T \subseteq Nat, T # {}
    PROVE  \E m \in T : \A y \in T : m <= y
<1>1. IsWellFoundedOn(OpToRel(<, Nat), Nat)
  BY NatLessThanWellFounded
<1>2. \E x \in T : \A y \in T : ~(<<y, x>> \in OpToRel(<, Nat))
  BY <1>1, WFMin
<1>3. PICK m \in T : \A y \in T : ~(<<y, m>> \in OpToRel(<, Nat))
  BY <1>2
<1>4. \A y \in T : ~(y < m)
  BY <1>3 DEF OpToRel
<1>5. m \in Nat /\ \A y \in T : y \in Nat
  OBVIOUS
<1>6. \A y \in T : m <= y
  BY <1>4, <1>5
<1> QED
  BY <1>6

-----------------------------------------------------------------------------
\* f is the accumulator of Power(w, S) over the indices 0..m.
IsAcc(w, S, m, f) ==
    f = [k \in 0..m |-> IF k = 0 THEN 0
                        ELSE f[k-1] + (IF k \in S THEN w[k] ELSE 0)]

\* The recursion of Power is well defined over any range of indices.
LEMMA AccExists ==
    ASSUME NEW w, NEW S, NEW m \in Nat
    PROVE  \E f : IsAcc(w, S, m, f)
<1> DEFINE T == {k \in Nat : ~ \E f : IsAcc(w, S, k, f)}
<1>1. SUFFICES ASSUME T # {} PROVE FALSE
  OBVIOUS
<1>2. PICK k \in T : \A y \in T : k <= y
  <2>1. T \subseteq Nat
    OBVIOUS
  <2> HIDE DEF T
  <2> QED
    BY <1>1, <2>1, LeastElement
<1>3. k # 0
  <2>1. IsAcc(w, S, 0, [j \in 0..0 |-> 0])
    BY DEF IsAcc
  <2> QED
    BY <2>1
<1>4. k \in Nat /\ k-1 \in Nat /\ ~(k-1 \in T)
  BY <1>2, <1>3
<1>5. PICK f : IsAcc(w, S, k-1, f)
  BY <1>4
<1> DEFINE g == [j \in 0..k |-> IF j = k THEN f[k-1] + (IF k \in S THEN w[k] ELSE 0)
                                ELSE f[j]]
<1>6. IsAcc(w, S, k, g)
  <2>1. ASSUME NEW j \in 0..k
        PROVE  g[j] = IF j = 0 THEN 0 ELSE g[j-1] + (IF j \in S THEN w[j] ELSE 0)
    <3>1. CASE j = k
      BY <3>1, <1>4, <1>3
    <3>2. CASE j # k
      <4>1. /\ j \in 0..(k-1)
            /\ j # 0 => j-1 \in 0..(k-1) /\ j-1 \in 0..k /\ j-1 # k
        BY <3>2, <1>4
      <4>2. f[j] = IF j = 0 THEN 0 ELSE f[j-1] + (IF j \in S THEN w[j] ELSE 0)
        BY <4>1, <1>5 DEF IsAcc
      <4> QED
        BY <4>1, <4>2, <3>2
    <3> QED
      BY <3>1, <3>2
  <2> QED
    BY <2>1, Zenon DEF IsAcc
<1> QED
  BY <1>2, <1>6

\* Power(w, S) is the last value of such an accumulator.
LEMMA PowerAcc ==
    ASSUME NEW w, NEW S
    PROVE  \E f : /\ f[0] = 0
                  /\ \A k \in 1..N : f[k] = f[k-1] + (IF k \in S THEN w[k] ELSE 0)
                  /\ Power(w, S) = f[N]
<1> DEFINE f == CHOOSE f : IsAcc(w, S, N, f)
<1>1. N \in Nat
  BY NAssumption
<1>2. IsAcc(w, S, N, f)
  BY <1>1, AccExists
<1>3. Power(w, S) = f[N]
  BY DEF Power, IsAcc
<1> HIDE DEF f
<1>4. f[0] = 0
  BY <1>1, <1>2 DEF IsAcc
<1>5. \A k \in 1..N : f[k] = f[k-1] + (IF k \in S THEN w[k] ELSE 0)
  BY <1>1, <1>2 DEF IsAcc
<1> QED
  BY <1>3, <1>4, <1>5

\* The same of all weights at once.
LEMMA PowerAccs ==
    \A w, S : \E f : /\ f[0] = 0
                     /\ \A k \in 1..N : f[k] = f[k-1] + (IF k \in S THEN w[k] ELSE 0)
                     /\ Power(w, S) = f[N]
  BY PowerAcc

-----------------------------------------------------------------------------
\* Induction over the indices, with a set in the place of the predicate.
LEMMA IndexInduction ==
    ASSUME NEW B, 0 \in B, \A k \in 1..N : k-1 \in B => k \in B
    PROVE  \A k \in 0..N : k \in B
<1> DEFINE T == {k \in 0..N : k \notin B}
<1>1. SUFFICES ASSUME T # {} PROVE FALSE
  OBVIOUS
<1>2. N \in Nat
  BY NAssumption
<1>3. PICK k \in T : \A y \in T : k <= y
  <2>1. T \subseteq Nat
    BY <1>2
  <2> HIDE DEF T
  <2> QED
    BY <1>1, <2>1, LeastElement
<1>4. k \in 1..N /\ k-1 \in 0..N /\ k-1 \notin T
  BY <1>2, <1>3
<1>5. k-1 \in B
  BY <1>4
<1> QED
  BY <1>3, <1>4, <1>5

LEMMA PowerNat ==
    ASSUME NEW w \in [Nodes -> Nat], NEW S
    PROVE  Power(w, S) \in Nat
<1>1. PICK f : /\ f[0] = 0
               /\ \A k \in 1..N : f[k] = f[k-1] + (IF k \in S THEN w[k] ELSE 0)
               /\ Power(w, S) = f[N]
  BY PowerAcc
<1> DEFINE B == {k \in 0..N : f[k] \in Nat}
<1>2. N \in Nat
  BY NAssumption
<1>3. 0 \in B
  BY <1>1, <1>2
<1>4. ASSUME NEW k \in 1..N, k-1 \in B PROVE k \in B
  <2>1. w[k] \in Nat /\ f[k-1] \in Nat
    BY <1>4 DEF Nodes
  <2>2. f[k] = f[k-1] + (IF k \in S THEN w[k] ELSE 0)
    BY <1>1
  <2>3. f[k] \in Nat
    BY <2>1, <2>2
  <2> QED
    BY <2>3, <1>2
<1>5. N \in B
  <2> HIDE DEF B
  <2> QED
    BY <1>2, <1>3, <1>4, IndexInduction
<1> QED
  BY <1>1, <1>5

\* Power adds up over disjoint sets.
LEMMA PowerUnion ==
    ASSUME NEW w \in [Nodes -> Nat], NEW S, NEW T, S \cap T = {}
    PROVE  Power(w, S \cup T) = Power(w, S) + Power(w, T)
<1>1. PICK f : /\ f[0] = 0
               /\ \A k \in 1..N : f[k] = f[k-1] + (IF k \in S THEN w[k] ELSE 0)
               /\ Power(w, S) = f[N]
  BY PowerAcc
<1>2. PICK g : /\ g[0] = 0
               /\ \A k \in 1..N : g[k] = g[k-1] + (IF k \in T THEN w[k] ELSE 0)
               /\ Power(w, T) = g[N]
  BY PowerAcc
<1>3. PICK h : /\ h[0] = 0
               /\ \A k \in 1..N : h[k] = h[k-1] + (IF k \in S \cup T THEN w[k] ELSE 0)
               /\ Power(w, S \cup T) = h[N]
  BY PowerAcc
<1> DEFINE B == {k \in 0..N : f[k] \in Nat /\ g[k] \in Nat /\ h[k] = f[k] + g[k]}
<1>4. N \in Nat
  BY NAssumption
<1>5. 0 \in B
  BY <1>1, <1>2, <1>3, <1>4
<1>6. ASSUME NEW k \in 1..N, k-1 \in B PROVE k \in B
  <2>1. w[k] \in Nat /\ f[k-1] \in Nat /\ g[k-1] \in Nat /\ h[k-1] = f[k-1] + g[k-1]
    BY <1>6 DEF Nodes
  <2>2. CASE k \in S
    <3>1. f[k] = f[k-1] + w[k] /\ g[k] = g[k-1] + 0 /\ h[k] = h[k-1] + w[k]
      BY <1>1, <1>2, <1>3, <2>2
    <3> QED
      BY <2>1, <3>1, <1>4
  <2>3. CASE k \in T
    <3>1. f[k] = f[k-1] + 0 /\ g[k] = g[k-1] + w[k] /\ h[k] = h[k-1] + w[k]
      BY <1>1, <1>2, <1>3, <2>3
    <3> QED
      BY <2>1, <3>1, <1>4
  <2>4. CASE k \notin S /\ k \notin T
    <3>1. f[k] = f[k-1] + 0 /\ g[k] = g[k-1] + 0 /\ h[k] = h[k-1] + 0
      BY <1>1, <1>2, <1>3, <2>4
    <3> QED
      BY <2>1, <3>1, <1>4
  <2> QED
    BY <2>2, <2>3, <2>4
<1>7. N \in B
  <2> HIDE DEF B
  <2> QED
    BY <1>4, <1>5, <1>6, IndexInduction
<1> QED
  BY <1>1, <1>2, <1>3, <1>7

LEMMA PowerEmpty ==
    ASSUME NEW w \in [Nodes -> Nat]
    PROVE  Power(w, {}) = 0
<1>1. Power(w, {} \cup {}) = Power(w, {}) + Power(w, {})
  BY PowerUnion
<1>2. {} \cup {} = {}
  OBVIOUS
<1>3. Power(w, {}) = Power(w, {}) + Power(w, {})
  BY <1>1, <1>2, Zenon
<1> DEFINE p == Power(w, {})
<1>4. p \in Nat /\ p = p + p
  BY <1>3, PowerNat
<1> HIDE DEF p
<1>5. p = 0
  BY <1>4
<1> QED
  BY <1>5 DEF p

LEMMA PowerMonotone ==
    ASSUME NEW w \in [Nodes -> Nat], NEW S, NEW T, S \subseteq T
    PROVE  Power(w, S) <= Power(w, T)
<1>1. T = S \cup (T \ S) /\ S \cap (T \ S) = {}
  OBVIOUS
<1>2. Power(w, T) = Power(w, S) + Power(w, T \ S)
  BY <1>1, PowerUnion
<1> QED
  BY <1>2, PowerNat

\* The weights w when the validators of S are slashed.
Without(w, S) == [v \in Nodes |-> IF v \in S THEN 0 ELSE w[v]]

LEMMA PowerWithout ==
    ASSUME NEW w \in [Nodes -> Nat], NEW S, NEW Q
    PROVE  Power(Without(w, S), Q) = Power(w, Q \ S)
<1>1. PICK f : /\ f[0] = 0
               /\ \A k \in 1..N : f[k] = f[k-1] +
                                    (IF k \in Q THEN Without(w, S)[k] ELSE 0)
               /\ Power(Without(w, S), Q) = f[N]
  BY PowerAcc
<1>2. PICK g : /\ g[0] = 0
               /\ \A k \in 1..N : g[k] = g[k-1] + (IF k \in Q \ S THEN w[k] ELSE 0)
               /\ Power(w, Q \ S) = g[N]
  BY PowerAcc
<1> DEFINE B == {k \in 0..N : f[k] = g[k]}
<1>3. N \in Nat
  BY NAssumption
<1>4. 0 \in B
  BY <1>1, <1>2, <1>3
<1>5. ASSUME NEW k \in 1..N, k-1 \in B PROVE k \in B
  <2>1. f[k-1] = g[k-1]
    BY <1>5
  <2>2. (IF k \in Q THEN Without(w, S)[k] ELSE 0) = (IF k \in Q \ S THEN w[k] ELSE 0)
    BY DEF Without, Nodes
  <2>3. f[k] = g[k]
    BY <1>1, <1>2, <2>1, <2>2
  <2> QED
    BY <2>3, <1>3
<1>6. N \in B
  <2> HIDE DEF B
  <2> QED
    BY <1>3, <1>4, <1>5, IndexInduction
<1> QED
  BY <1>1, <1>2, <1>6

-----------------------------------------------------------------------------
(* Sums of integers, which a priority or the change of a balance may be *)

LEMMA PowerInt ==
    ASSUME NEW w, NEW S, \A v \in Nodes : w[v] \in Int
    PROVE  Power(w, S) \in Int
<1>1. PICK f : /\ f[0] = 0
               /\ \A k \in 1..N : f[k] = f[k-1] + (IF k \in S THEN w[k] ELSE 0)
               /\ Power(w, S) = f[N]
  BY PowerAcc
<1> DEFINE B == {k \in 0..N : f[k] \in Int}
<1>2. N \in Nat
  BY NAssumption
<1>3. 0 \in B
  BY <1>1, <1>2
<1>4. ASSUME NEW k \in 1..N, k-1 \in B PROVE k \in B
  <2>1. w[k] \in Int /\ f[k-1] \in Int
    BY <1>4 DEF Nodes
  <2>2. f[k] = f[k-1] + (IF k \in S THEN w[k] ELSE 0)
    BY <1>1
  <2>3. f[k] \in Int
    BY <2>1, <2>2
  <2> QED
    BY <2>3, <1>2
<1>5. N \in B
  <2> HIDE DEF B
  <2> QED
    BY <1>2, <1>3, <1>4, IndexInduction
<1> QED
  BY <1>1, <1>5

\* Sums are taken index by index ...
LEMMA PowerOfSum ==
    ASSUME NEW w, NEW u, NEW x, NEW S,
           \A v \in Nodes : w[v] \in Int /\ u[v] \in Int,
           \A v \in Nodes : v \in S => x[v] = w[v] + u[v]
    PROVE  Power(x, S) = Power(w, S) + Power(u, S)
<1> DEFINE Sums(y, f) == /\ f[0] = 0
                         /\ \A k \in 1..N : f[k] = f[k-1] + (IF k \in S THEN y[k] ELSE 0)
                         /\ Power(y, S) = f[N]
<1>0. \A y : \E f : Sums(y, f)
  BY PowerAcc
<1>1. PICK f : /\ f[0] = 0
               /\ \A k \in 1..N : f[k] = f[k-1] + (IF k \in S THEN w[k] ELSE 0)
               /\ Power(w, S) = f[N]
  BY <1>0
<1>2. PICK g : /\ g[0] = 0
               /\ \A k \in 1..N : g[k] = g[k-1] + (IF k \in S THEN u[k] ELSE 0)
               /\ Power(u, S) = g[N]
  BY <1>0
<1>3. PICK h : /\ h[0] = 0
               /\ \A k \in 1..N : h[k] = h[k-1] + (IF k \in S THEN x[k] ELSE 0)
               /\ Power(x, S) = h[N]
  BY <1>0
<1> DEFINE B == {k \in 0..N : f[k] \in Int /\ g[k] \in Int /\ h[k] = f[k] + g[k]}
<1>4. N \in Nat
  BY NAssumption
<1>5. 0 \in B
  BY <1>1, <1>2, <1>3, <1>4
<1>6. ASSUME NEW k \in 1..N, k-1 \in B PROVE k \in B
  <2>1. /\ w[k] \in Int /\ u[k] \in Int /\ (k \in S => x[k] = w[k] + u[k])
        /\ f[k-1] \in Int /\ g[k-1] \in Int /\ h[k-1] = f[k-1] + g[k-1]
    BY <1>6 DEF Nodes
  <2>2. CASE k \in S
    <3>1. f[k] = f[k-1] + w[k] /\ g[k] = g[k-1] + u[k] /\ h[k] = h[k-1] + x[k]
      BY <1>1, <1>2, <1>3, <2>2
    <3> QED
      BY <2>1, <2>2, <3>1, <1>4
  <2>3. CASE k \notin S
    <3>1. f[k] = f[k-1] + 0 /\ g[k] = g[k-1] + 0 /\ h[k] = h[k-1] + 0
      BY <1>1, <1>2, <1>3, <2>3
    <3> QED
      BY <2>1, <3>1, <1>4
  <2> QED
    BY <2>2, <2>3
<1>7. N \in B
  <2> HIDE DEF B
  <2> QED
    BY <1>4, <1>5, <1>6, IndexInduction
<1> QED
  BY <1>1, <1>2, <1>3, <1>7

\* ... and compared index by index, where an index outside the set counts zero.
LEMMA PowerAtMost ==
    ASSUME NEW w, NEW u, NEW S, NEW T,
           \A v \in Nodes : w[v] \in Int /\ u[v] \in Int,
           \A v \in Nodes : (IF v \in S THEN w[v] ELSE 0) <= (IF v \in T THEN u[v] ELSE 0)
    PROVE  Power(w, S) <= Power(u, T)
<1>1. PICK f : /\ f[0] = 0
               /\ \A k \in 1..N : f[k] = f[k-1] + (IF k \in S THEN w[k] ELSE 0)
               /\ Power(w, S) = f[N]
  BY PowerAcc
<1>2. PICK g : /\ g[0] = 0
               /\ \A k \in 1..N : g[k] = g[k-1] + (IF k \in T THEN u[k] ELSE 0)
               /\ Power(u, T) = g[N]
  BY PowerAcc
<1> DEFINE B == {k \in 0..N : f[k] \in Int /\ g[k] \in Int /\ f[k] <= g[k]}
<1>4. N \in Nat
  BY NAssumption
<1>5. 0 \in B
  BY <1>1, <1>2, <1>4
<1>6. ASSUME NEW k \in 1..N, k-1 \in B PROVE k \in B
  <2> DEFINE a == IF k \in S THEN w[k] ELSE 0
             b == IF k \in T THEN u[k] ELSE 0
  <2>1. a \in Int /\ b \in Int /\ a <= b
    BY DEF Nodes
  <2>2. f[k-1] \in Int /\ g[k-1] \in Int /\ f[k-1] <= g[k-1]
    BY <1>6
  <2>3. f[k] = f[k-1] + a /\ g[k] = g[k-1] + b
    BY <1>1, <1>2
  <2> HIDE DEF a, b
  <2>4. f[k] \in Int /\ g[k] \in Int /\ f[k] <= g[k]
    BY <2>1, <2>2, <2>3
  <2> QED
    BY <2>4, <1>4
<1>7. N \in B
  <2> HIDE DEF B
  <2> QED
    BY <1>4, <1>5, <1>6, IndexInduction
<1> QED
  BY <1>1, <1>2, <1>7

LEMMA PowerSame ==
    ASSUME NEW w, NEW u, NEW S, NEW T,
           \A v \in Nodes : w[v] \in Int /\ u[v] \in Int,
           \A v \in Nodes : (IF v \in S THEN w[v] ELSE 0) = (IF v \in T THEN u[v] ELSE 0)
    PROVE  Power(w, S) = Power(u, T)
<1>1. /\ \A v \in Nodes : (IF v \in S THEN w[v] ELSE 0) <= (IF v \in T THEN u[v] ELSE 0)
      /\ \A v \in Nodes : (IF v \in T THEN u[v] ELSE 0) <= (IF v \in S THEN w[v] ELSE 0)
  OBVIOUS
<1>2. Power(w, S) <= Power(u, T) /\ Power(u, T) <= Power(w, S)
  BY <1>1, PowerAtMost
<1>3. Power(w, S) \in Int /\ Power(u, T) \in Int
  BY PowerInt
<1> QED
  BY <1>2, <1>3

\* A sum that is all in one place, and one that is the same everywhere.
LEMMA PowerOne ==
    ASSUME NEW w, NEW v \in Nodes, w[v] \in Int
    PROVE  Power(w, {v}) = w[v]
<1>1. PICK f : /\ f[0] = 0
               /\ \A k \in 1..N : f[k] = f[k-1] + (IF k \in {v} THEN w[k] ELSE 0)
               /\ Power(w, {v}) = f[N]
  BY PowerAcc
<1> DEFINE B == {k \in 0..N : f[k] = IF k < v THEN 0 ELSE w[v]}
<1>2. N \in Nat /\ v \in 1..N
  BY NAssumption DEF Nodes
<1>3. 0 \in B
  BY <1>1, <1>2
<1>4. ASSUME NEW k \in 1..N, k-1 \in B PROVE k \in B
  <2>1. /\ f[k-1] = IF k-1 < v THEN 0 ELSE w[v]
        /\ f[k] = f[k-1] + (IF k = v THEN w[v] ELSE 0)
    BY <1>1, <1>4
  <2>2. f[k] = IF k < v THEN 0 ELSE w[v]
    <3>1. CASE k < v
      BY <1>2, <2>1, <3>1
    <3>2. CASE k = v
      BY <1>2, <2>1, <3>2
    <3>3. CASE k > v
      BY <1>2, <2>1, <3>3
    <3> QED
      BY <1>2, <3>1, <3>2, <3>3
  <2> QED
    BY <2>2, <1>2
<1>5. N \in B
  <2> HIDE DEF B
  <2> QED
    BY <1>2, <1>3, <1>4, IndexInduction
<1> QED
  BY <1>1, <1>2, <1>5

LEMMA PowerConstant ==
    ASSUME NEW w, NEW c \in Int, \A v \in Nodes : w[v] = c
    PROVE  Power(w, Nodes) = N * c
<1>1. PICK f : /\ f[0] = 0
               /\ \A k \in 1..N : f[k] = f[k-1] + (IF k \in Nodes THEN w[k] ELSE 0)
               /\ Power(w, Nodes) = f[N]
  BY PowerAcc
<1> DEFINE B == {k \in 0..N : f[k] = k * c}
<1>2. N \in Nat
  BY NAssumption
<1>3. 0 \in B
  BY <1>1, <1>2
<1>4. ASSUME NEW k \in 1..N, k-1 \in B PROVE k \in B
  <2>1. f[k-1] = (k-1) * c /\ f[k] = f[k-1] + c
    BY <1>1, <1>4 DEF Nodes
  <2>2. k \in Int /\ (k-1) * c + c = k * c
    BY <1>2
  <2>3. f[k] = k * c
    BY <2>1, <2>2
  <2> QED
    BY <2>3, <1>2
<1>5. N \in B
  <2> HIDE DEF B
  <2> QED
    BY <1>2, <1>3, <1>4, IndexInduction
<1> QED
  BY <1>1, <1>5

-----------------------------------------------------------------------------
\* Two nodes count votes for the same height against different views of who is
\* slashed (S1 and S2).  As long as all who can be slashed hold at most half
\* of the stake, a quorum of one view and a quorum of the other share a voter.
THEOREM QuorumsMeet ==
    ASSUME NEW w \in [Nodes -> Nat],
           NEW F \in SUBSET Nodes, 2 * Power(w, F) <= Total(w),
           NEW S1 \in SUBSET F, NEW S2 \in SUBSET F,
           NEW Q1 \in SUBSET Nodes, NEW Q2 \in SUBSET Nodes,
           Quorum(Without(w, S1), Q1), Quorum(Without(w, S2), Q2)
    PROVE  Q1 \cap Q2 # {}
<1>1. SUFFICES ASSUME Q1 \cap Q2 = {} PROVE FALSE
  OBVIOUS
<1> DEFINE V  == Power(w, Nodes)
           A  == Power(w, Q1 \ S1)
           B  == Power(w, Q2 \ S2)
           p1 == Power(w, S1)
           p2 == Power(w, S2)
           u  == Power(w, S1 \cup S2)
           i  == Power(w, S1 \cap S2)
           d  == Power(w, S1 \ S2)
<1>2. /\ V \in Nat /\ A \in Nat /\ B \in Nat /\ p1 \in Nat /\ p2 \in Nat
      /\ u \in Nat /\ i \in Nat /\ d \in Nat /\ Power(w, F) \in Nat
      /\ Power(w, Nodes \ S1) \in Nat /\ Power(w, Nodes \ S2) \in Nat
  BY PowerNat
<1>3. 3 * A > 2 * Power(w, Nodes \ S1) /\ 3 * B > 2 * Power(w, Nodes \ S2)
  BY PowerWithout DEF Quorum, Total
<1>4. V = p1 + Power(w, Nodes \ S1)
  <2>1. Nodes = S1 \cup (Nodes \ S1) /\ S1 \cap (Nodes \ S1) = {}
    OBVIOUS
  <2> QED
    BY <2>1, PowerUnion
<1>5. V = p2 + Power(w, Nodes \ S2)
  <2>1. Nodes = S2 \cup (Nodes \ S2) /\ S2 \cap (Nodes \ S2) = {}
    OBVIOUS
  <2> QED
    BY <2>1, PowerUnion
<1>6. p1 + p2 = u + i
  <2>1. S1 = (S1 \ S2) \cup (S1 \cap S2) /\ (S1 \ S2) \cap (S1 \cap S2) = {}
    OBVIOUS
  <2>2. p1 = d + i
    BY <2>1, PowerUnion
  <2>3. S1 \cup S2 = (S1 \ S2) \cup S2 /\ (S1 \ S2) \cap S2 = {}
    OBVIOUS
  <2>4. u = d + p2
    BY <2>3, PowerUnion
  <2> QED
    BY <2>2, <2>4, <1>2
<1>7. A + B + i <= V
  <2> DEFINE X == (Q1 \ S1) \cup (Q2 \ S2)
  <2>1. Power(w, X) = A + B
    <3>1. (Q1 \ S1) \cap (Q2 \ S2) = {}
      BY <1>1
    <3> QED
      BY <3>1, PowerUnion
  <2>2. Power(w, X \cup (S1 \cap S2)) = Power(w, X) + i
    <3>1. X \cap (S1 \cap S2) = {}
      OBVIOUS
    <3> QED
      BY <3>1, PowerUnion
  <2>3. Power(w, X \cup (S1 \cap S2)) <= V
    <3>1. X \cup (S1 \cap S2) \subseteq Nodes
      OBVIOUS
    <3> QED
      BY <3>1, PowerMonotone
  <2> QED
    BY <2>1, <2>2, <2>3
<1>8. u <= Power(w, F)
  <2>1. S1 \cup S2 \subseteq F
    OBVIOUS
  <2> QED
    BY <2>1, PowerMonotone
<1>9. 2 * Power(w, F) <= V
  BY DEF Total
<1> HIDE DEF V, A, B, p1, p2, u, i, d
<1> QED
  BY <1>2, <1>3, <1>4, <1>5, <1>6, <1>7, <1>8, <1>9
=============================================================================
