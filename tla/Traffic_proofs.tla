--------------------------- MODULE Traffic_proofs ---------------------------
(***************************************************************************)
(* Theorems about the ledger and the transactions on their way to it, for  *)
(* any set of accounts, clerks and transactions: no token is lost or made  *)
(* but by a reward, no transaction takes effect twice, what a proposer     *)
(* builds is what every node accepts, and the server never has two of a    *)
(* wallet's transactions under way with one nonce.                         *)
(***************************************************************************)
EXTENDS Traffic, Validators_proofs, SequenceTheorems

-----------------------------------------------------------------------------
(* Sums *)

\* A sum in which one entry changes.
LEMMA TotalChange ==
    ASSUME NEW w, NEW u, \A v \in Nodes : w[v] \in Int,
           NEW k \in Nodes, NEW d \in Int,
           \A v \in Nodes : u[v] = IF v = k THEN w[v] + d ELSE w[v]
    PROVE  Total(u) = Total(w) + d /\ Total(w) \in Int
<1> DEFINE e == [v \in Nodes |-> IF v = k THEN d ELSE 0]
<1>1. /\ \A v \in Nodes : e[v] \in Int /\ w[v] \in Int
      /\ \A v \in Nodes : v \in Nodes => u[v] = w[v] + e[v]
      /\ \A v \in Nodes : (IF v \in Nodes THEN e[v] ELSE 0) = (IF v \in {k} THEN e[v] ELSE 0)
      /\ e[k] = d
  OBVIOUS
<1> HIDE DEF e
<1>2. Power(u, Nodes) = Power(w, Nodes) + Power(e, Nodes)
  BY <1>1, PowerOfSum
<1>3. Power(e, Nodes) = Power(e, {k})
  BY <1>1, PowerSame, SMTT(30)
<1>4. Power(w, Nodes) \in Int /\ Power(e, {k}) = d
  BY <1>1, PowerInt, PowerOne
<1> QED
  BY <1>2, <1>3, <1>4 DEF Total

\* f are the partial sums of y.
PartialSums(y, f) ==
    /\ f[0] = 0
    /\ \A k \in 1..N : f[k] = f[k-1] + (IF k \in Nodes THEN y[k] ELSE 0)
    /\ Total(y) = f[N]

LEMMA SumsExist == \A y : \E f : PartialSums(y, f)
<1> SUFFICES ASSUME NEW y PROVE \E f : PartialSums(y, f)
  OBVIOUS
<1>1. \E f : /\ f[0] = 0
             /\ \A k \in 1..N : f[k] = f[k-1] + (IF k \in Nodes THEN y[k] ELSE 0)
             /\ Power(y, Nodes) = f[N]
  BY PowerAcc
<1> QED
  BY <1>1 DEF PartialSums, Total

\* A factor can be taken out of a sum.
LEMMA PowerTimes ==
    ASSUME NEW w, NEW u, NEW c \in Int,
           \A v \in Nodes : w[v] \in Int /\ u[v] = c * w[v]
    PROVE  Total(u) = c * Total(w) /\ Total(w) \in Int
<1>1. PICK f : PartialSums(w, f)
  BY SumsExist, Zenon
<1>2. PICK g : PartialSums(u, g)
  BY SumsExist, Zenon
<1> DEFINE B == {k \in 0..N : f[k] \in Int /\ g[k] = c * f[k]}
<1>3. N \in Nat
  BY NAssumption
<1>4. 0 \in B
  BY <1>1, <1>2, <1>3 DEF PartialSums
<1>5. ASSUME NEW k \in 1..N, k-1 \in B PROVE k \in B
  <2>1. w[k] \in Int /\ u[k] = c * w[k] /\ f[k-1] \in Int /\ g[k-1] = c * f[k-1]
    BY <1>5 DEF Nodes
  <2>2. f[k] = f[k-1] + w[k] /\ g[k] = g[k-1] + u[k]
    BY <1>1, <1>2 DEF Nodes, PartialSums
  <2>3. c * (f[k-1] + w[k]) = c * f[k-1] + c * w[k]
    BY <2>1
  <2>4. f[k] \in Int /\ g[k] = c * f[k]
    BY <2>1, <2>2, <2>3
  <2> QED
    BY <2>4, <1>3
<1>6. N \in B
  <2> HIDE DEF B
  <2> QED
    BY <1>3, <1>4, <1>5, IndexInduction
<1> QED
  BY <1>1, <1>2, <1>6 DEF PartialSums

-----------------------------------------------------------------------------
(* One transaction *)

LEMMA LedgerTypes ==
    ASSUME NEW s \in LedgerState
    PROVE  /\ s.balance \in [Nodes -> Nat] /\ s.nonce \in [Nodes -> Nat]
           /\ s.bonded \in [Nodes -> [Nodes -> Nat]]
           /\ s = [balance |-> s.balance, nonce |-> s.nonce, bonded |-> s.bonded]
           /\ \A d \in Nodes : Total(s.bonded[d]) \in Nat
           /\ [d \in Nodes |-> Total(s.bonded[d])] \in [Nodes -> Nat]
           /\ Total(s.balance) \in Nat /\ Supply(s) \in Nat
<1>1. /\ s.balance \in [Nodes -> Nat] /\ s.nonce \in [Nodes -> Nat]
      /\ s.bonded \in [Nodes -> [Nodes -> Nat]]
      /\ s = [balance |-> s.balance, nonce |-> s.nonce, bonded |-> s.bonded]
  BY DEF LedgerState
<1>2. \A d \in Nodes : Total(s.bonded[d]) \in Nat
  BY <1>1, PowerNat DEF Total
<1>3. [d \in Nodes |-> Total(s.bonded[d])] \in [Nodes -> Nat]
  BY <1>2
<1>4. Total(s.balance) \in Nat /\ Total([d \in Nodes |-> Total(s.bonded[d])]) \in Nat
  BY <1>1, <1>3, PowerNat DEF Total
<1> QED
  BY <1>1, <1>2, <1>3, <1>4 DEF Supply

\* What all delegators have bonded, and the change of one bond by x.
AllBonds(b) == Total([d \in Nodes |-> Total(b[d])])

BondMoves(b, c, d, v, x) == c = [b EXCEPT ![d][v] = @ + x]

LEMMA BondChange ==
    ASSUME NEW b \in [Nodes -> [Nodes -> Nat]], NEW c \in [Nodes -> [Nodes -> Nat]],
           NEW d \in Nodes, NEW v \in Nodes, NEW x \in Int, BondMoves(b, c, d, v, x)
    PROVE  AllBonds(c) = AllBonds(b) + x
<1> USE DEF BondMoves
<1> DEFINE tb == [e \in Nodes |-> Total(b[e])]
           tc == [e \in Nodes |-> Total(c[e])]
<1>1. \A e \in Nodes : e # d => c[e] = b[e]
  OBVIOUS
<1>2. \A u \in Nodes : b[d][u] \in Int /\ c[d][u] = IF u = v THEN b[d][u] + x ELSE b[d][u]
  OBVIOUS
<1>3. Total(c[d]) = Total(b[d]) + x
  <2> DEFINE w == b[d]
             u == c[d]
  <2>1. \A e \in Nodes : w[e] \in Int /\ u[e] = IF e = v THEN w[e] + x ELSE w[e]
    BY <1>2
  <2> HIDE DEF w, u
  <2>2. Total(u) = Total(w) + x
    BY <2>1, TotalChange
  <2> QED
    BY <2>2 DEF w, u
<1>4. \A e \in Nodes : tb[e] \in Int /\ tc[e] = IF e = d THEN tb[e] + x ELSE tb[e]
  <2>1. \A e \in Nodes : Total(b[e]) \in Int
    <3>1. \A e \in Nodes : b[e] \in [Nodes -> Nat]
      OBVIOUS
    <3> QED
      BY <3>1, PowerNat DEF Total
  <2> QED
    BY <1>1, <1>3, <2>1
<1> HIDE DEF tb, tc
<1>5. Total(tc) = Total(tb) + x
  BY <1>4, TotalChange
<1> QED
  BY <1>5 DEF tb, tc, AllBonds

\* A transaction that applies neither makes nor loses a token, and moves the
\* nonce of its sender by one.
LEMMA EffectKeeps ==
    ASSUME NEW s \in LedgerState, NEW tx \in Transaction, Applies(s, tx)
    PROVE  /\ Effect(s, tx) \in LedgerState
           /\ Supply(Effect(s, tx)) = Supply(s)
           /\ s.nonce[tx.from] = tx.nonce
           /\ \A a \in Nodes : Effect(s, tx).nonce[a] =
                               IF a = tx.from THEN tx.nonce + 1 ELSE s.nonce[a]
<1> DEFINE f == tx.from
           to == tx.to
           n  == tx.amount
           m  == Moved(s, tx)
<1>1. /\ tx.kind \in {"transfer", "delegate", "undelegate"} /\ f \in Nodes /\ to \in Nodes
      /\ n \in Nat /\ tx.nonce \in Nat
  BY DEF Transaction, Kinds
<1>2. /\ s.balance \in [Nodes -> Nat] /\ s.nonce \in [Nodes -> Nat]
      /\ s.bonded \in [Nodes -> [Nodes -> Nat]]
      /\ s = [balance |-> s.balance, nonce |-> s.nonce, bonded |-> s.bonded]
      /\ Total(s.balance) \in Nat /\ AllBonds(s.bonded) \in Nat
  BY LedgerTypes, PowerNat DEF Total, AllBonds
<1>3. /\ tx.nonce = s.nonce[f] /\ n <= Funds(s, tx) /\ (tx.kind = "transfer" => f # to)
  BY DEF Applies
<1>4. /\ m \in LedgerState /\ m.nonce = s.nonce
      /\ Total(m.balance) + AllBonds(m.bonded) = Total(s.balance) + AllBonds(s.bonded)
  <2>1. CASE tx.kind = "transfer"
    <3> DEFINE b1 == [s.balance EXCEPT ![f] = @ - n]
               b2 == [b1 EXCEPT ![to] = @ + n]
    <3>1. m = [balance |-> b2, nonce |-> s.nonce, bonded |-> s.bonded]
      <4>1. m = [s EXCEPT !.balance[f] = @ - n, !.balance[to] = @ + n]
        BY <2>1 DEF Moved
      <4>2. f # to
        BY <1>3, <2>1
      <4> HIDE DEF m, f, to, n
      <4> QED
        BY <1>2, <4>1, <4>2
    <3>2. n <= s.balance[f] /\ f # to
      BY <1>3, <2>1 DEF Funds
    <3>3. b1 \in [Nodes -> Nat] /\ b2 \in [Nodes -> Nat]
      BY <1>1, <1>2, <3>2
    <3>4. /\ \A v \in Nodes : s.balance[v] \in Int /\ b1[v] \in Int
          /\ \A v \in Nodes : b1[v] = IF v = f THEN s.balance[v] + (0 - n) ELSE s.balance[v]
          /\ \A v \in Nodes : b2[v] = IF v = to THEN b1[v] + n ELSE b1[v]
      BY <1>1, <1>2, <3>3
    <3> HIDE DEF b1, b2, f, to, n
    <3>5. Total(b1) = Total(s.balance) + (0 - n)
      <4> DEFINE x == 0 - n
                 b0 == s.balance
      <4>1. x \in Int /\ \A v \in Nodes : b0[v] \in Int
        BY <1>1, <3>4
      <4>2. \A v \in Nodes : b1[v] = IF v = f THEN b0[v] + x ELSE b0[v]
        BY <3>4
      <4> HIDE DEF x, b0
      <4>3. Total(b1) = Total(b0) + x
        BY <1>1, <4>1, <4>2, TotalChange
      <4> QED
        BY <4>3 DEF x, b0
    <3>6. Total(b2) = Total(b1) + n
      BY <1>1, <3>4, TotalChange
    <3>7. Total(b2) = Total(s.balance)
      BY <1>1, <1>2, <3>5, <3>6
    <3>8. m.balance = b2 /\ m.bonded = s.bonded /\ m.nonce = s.nonce /\ m \in LedgerState
      <4> HIDE DEF m
      <4> QED
        BY <1>2, <3>1, <3>3 DEF LedgerState
    <3> QED
      BY <3>7, <3>8
  <2>2. CASE tx.kind = "delegate"
    <3> DEFINE b1 == [s.balance EXCEPT ![f] = @ - n]
               c1 == [s.bonded EXCEPT ![f][to] = @ + n]
    <3>1. m = [balance |-> b1, nonce |-> s.nonce, bonded |-> c1]
      BY <1>2, <2>2 DEF Moved
    <3>2. n <= s.balance[f]
      BY <1>3, <2>2 DEF Funds
    <3>3. b1 \in [Nodes -> Nat] /\ c1 \in [Nodes -> [Nodes -> Nat]]
      BY <1>1, <1>2, <3>2
    <3>4. /\ \A v \in Nodes : s.balance[v] \in Int
          /\ \A v \in Nodes : b1[v] = IF v = f THEN s.balance[v] + (0 - n) ELSE s.balance[v]
      BY <1>1, <1>2, <3>3
    <3>5. AllBonds(c1) = AllBonds(s.bonded) + n
      <4> DEFINE x == n
                 b0 == s.bonded
      <4>1. x \in Int /\ b0 \in [Nodes -> [Nodes -> Nat]] /\ BondMoves(b0, c1, f, to, x)
        BY <1>1, <1>2 DEF BondMoves
      <4> HIDE DEF f, to, n, c1, x, b0
      <4>2. AllBonds(c1) = AllBonds(b0) + x
        BY <1>1, <3>3, <4>1, BondChange
      <4> QED
        BY <4>2 DEF x, b0
    <3> HIDE DEF b1, c1, f, to, n
    <3>6. Total(b1) = Total(s.balance) + (0 - n)
      <4> DEFINE x == 0 - n
                 b0 == s.balance
      <4>1. x \in Int /\ \A v \in Nodes : b0[v] \in Int
        BY <1>1, <3>4
      <4>2. \A v \in Nodes : b1[v] = IF v = f THEN b0[v] + x ELSE b0[v]
        BY <3>4
      <4> HIDE DEF x, b0
      <4>3. Total(b1) = Total(b0) + x
        BY <1>1, <4>1, <4>2, TotalChange
      <4> QED
        BY <4>3 DEF x, b0
    <3>7. Total(b1) + AllBonds(c1) = Total(s.balance) + AllBonds(s.bonded)
      BY <1>1, <1>2, <3>5, <3>6
    <3>8. m.balance = b1 /\ m.bonded = c1 /\ m.nonce = s.nonce /\ m \in LedgerState
      <4> HIDE DEF m
      <4> QED
        BY <1>2, <3>1, <3>3 DEF LedgerState
    <3> QED
      BY <3>7, <3>8
  <2>3. CASE tx.kind = "undelegate"
    <3> DEFINE b1 == [s.balance EXCEPT ![f] = @ + n]
               c1 == [s.bonded EXCEPT ![f][to] = @ + (0 - n)]
    <3>1. m = [balance |-> b1, nonce |-> s.nonce, bonded |-> c1]
      <4>1. m = [s EXCEPT !.bonded[f][to] = @ - n, !.balance[f] = @ + n]
        BY <2>3 DEF Moved
      <4>2. c1 = [s.bonded EXCEPT ![f][to] = @ - n]
        <5>1. s.bonded[f][to] + (0 - n) = s.bonded[f][to] - n
          BY <1>1, <1>2
        <5> QED
          BY <5>1, Zenon
      <4> HIDE DEF m, c1
      <4> QED
        BY <1>2, <4>1, <4>2
    <3>2. n <= s.bonded[f][to]
      BY <1>3, <2>3 DEF Funds
    <3>3. b1 \in [Nodes -> Nat] /\ c1 \in [Nodes -> [Nodes -> Nat]]
      BY <1>1, <1>2, <3>2
    <3>4. /\ \A v \in Nodes : s.balance[v] \in Int
          /\ \A v \in Nodes : b1[v] = IF v = f THEN s.balance[v] + n ELSE s.balance[v]
      BY <1>1, <1>2, <3>3
    <3>5. AllBonds(c1) = AllBonds(s.bonded) + (0 - n)
      <4> DEFINE x == 0 - n
                 b0 == s.bonded
      <4>1. x \in Int /\ b0 \in [Nodes -> [Nodes -> Nat]] /\ BondMoves(b0, c1, f, to, x)
        BY <1>1, <1>2 DEF BondMoves
      <4> HIDE DEF f, to, n, c1, x, b0
      <4>2. AllBonds(c1) = AllBonds(b0) + x
        BY <1>1, <3>3, <4>1, BondChange
      <4> QED
        BY <4>2 DEF x, b0
    <3> HIDE DEF b1, c1, f, to, n
    <3>6. Total(b1) = Total(s.balance) + n
      <4> DEFINE b0 == s.balance
      <4>1. n \in Int /\ \A v \in Nodes : b0[v] \in Int /\ b1[v] = IF v = f THEN b0[v] + n ELSE b0[v]
        BY <1>1, <3>4
      <4> HIDE DEF b0
      <4>2. Total(b1) = Total(b0) + n
        BY <1>1, <4>1, TotalChange
      <4> QED
        BY <4>2 DEF b0
    <3>7. Total(b1) + AllBonds(c1) = Total(s.balance) + AllBonds(s.bonded)
      BY <1>1, <1>2, <3>5, <3>6
    <3>8. m.balance = b1 /\ m.bonded = c1 /\ m.nonce = s.nonce /\ m \in LedgerState
      <4> HIDE DEF m
      <4> QED
        BY <1>2, <3>1, <3>3 DEF LedgerState
    <3> QED
      BY <3>7, <3>8
  <2> QED
    BY <1>1, <2>1, <2>2, <2>3
<1>5. /\ Effect(s, tx).balance = m.balance /\ Effect(s, tx).bonded = m.bonded
      /\ Effect(s, tx).nonce = [s.nonce EXCEPT ![f] = @ + 1]
      /\ Effect(s, tx) \in LedgerState
  <2>1. Effect(s, tx) = [m EXCEPT !.nonce[f] = @ + 1]
    BY DEF Effect
  <2> HIDE DEF m, f
  <2>2. m = [balance |-> m.balance, nonce |-> m.nonce, bonded |-> m.bonded]
    BY <1>4, LedgerTypes
  <2>3. /\ m.balance \in [Nodes -> Nat] /\ m.bonded \in [Nodes -> [Nodes -> Nat]]
        /\ m.nonce \in [Nodes -> Nat]
    BY <1>4, LedgerTypes
  <2>4. Effect(s, tx) = [balance |-> m.balance, nonce |-> [m.nonce EXCEPT ![f] = @ + 1],
                         bonded |-> m.bonded]
    BY <2>1, <2>2
  <2>5. [m.nonce EXCEPT ![f] = @ + 1] \in [Nodes -> Nat]
    BY <1>1, <2>3
  <2>6. Effect(s, tx) \in LedgerState
    BY <2>3, <2>4, <2>5 DEF LedgerState
  <2> QED
    BY <1>4, <2>4, <2>6
<1>6. Supply(Effect(s, tx)) = Supply(s)
  <2> HIDE DEF m
  <2> QED
    BY <1>4, <1>5 DEF Supply, AllBonds
<1>7. \A a \in Nodes : Effect(s, tx).nonce[a] = IF a = f THEN tx.nonce + 1 ELSE s.nonce[a]
  BY <1>1, <1>2, <1>3, <1>5
<1> QED
  BY <1>3, <1>5, <1>6, <1>7

-----------------------------------------------------------------------------
(* The reward of a block *)

LEMMA DivBelow ==
    ASSUME NEW a \in Nat, NEW b \in Nat, b > 0
    PROVE  a \div b \in Nat /\ b * (a \div b) <= a
  OBVIOUS

LEMMA FactorBound ==
    ASSUME NEW t \in Nat, t > 0, NEW x \in Int, NEW y \in Int, t * x <= t * y
    PROVE  x <= y
<1>1. SUFFICES ASSUME x >= y + 1 PROVE FALSE
  OBVIOUS
<1>2. PICK d \in Nat : x = y + 1 + d
  <2>1. x - (y + 1) \in Nat /\ x = y + 1 + (x - (y + 1))
    BY <1>1
  <2> QED
    BY <2>1
<1>3. t * x = t * y + t + t * d /\ t * d >= 0 /\ t * y \in Int /\ t * d \in Int
  BY <1>2
<1> QED
  BY <1>3

\* The parts of the delegators, each rounded down, are at most the reward.
LEMMA SharesFit ==
    ASSUME NEW s \in LedgerState, NEW p \in Nodes
    PROVE  /\ Share(s, p) \in [Nodes -> Nat]
           /\ Total(Share(s, p)) \in Nat /\ Total(Share(s, p)) <= Reward
<1> DEFINE bh == Behind(s, p)
           t == Stake[p] + Total(bh)
           sh == Share(s, p)
<1>1. bh \in [Nodes -> Nat] /\ \A d \in Nodes : bh[d] = s.bonded[d][p]
  BY LedgerTypes DEF Behind
<1>2. Total(bh) \in Nat /\ Stake[p] \in Nat /\ Reward \in Nat
  BY <1>1, PowerNat, StakeAssumption, RewardAssumption DEF Total
<1>3. sh = [d \in Nodes |-> IF t = 0 THEN 0 ELSE (Reward * bh[d]) \div t]
  BY <1>1 DEF Share
<1> HIDE DEF bh, sh
<1>4. t \in Nat
  BY <1>2
<1> DEFINE a == [d \in Nodes |-> Reward * bh[d]]
<1>5. \A d \in Nodes : a[d] \in Nat /\ a[d] = Reward * bh[d] /\ bh[d] \in Int
  BY <1>1, <1>2
<1> HIDE DEF a
<1>6. CASE t = 0
  <2>1. sh = [d \in Nodes |-> 0]
    BY <1>3, <1>6
  <2>2. \A d \in Nodes : sh[d] = 0
    BY <2>1
  <2>3. Total(sh) = N * 0
    BY <2>2, PowerConstant DEF Total
  <2>4. N * 0 = 0
    BY NAssumption
  <2>5. sh \in [Nodes -> Nat] /\ Total(sh) = 0
    BY <2>1, <2>3, <2>4
  <2> QED
    BY <1>2, <2>5 DEF sh
<1>7. CASE t # 0
  <2> DEFINE b == [d \in Nodes |-> t * sh[d]]
  <2> HIDE DEF t
  <2>1. ASSUME NEW d \in Nodes
        PROVE  sh[d] \in Nat /\ t * sh[d] <= a[d] /\ t * sh[d] \in Int
    <3>1. sh[d] = a[d] \div t
      BY <1>3, <1>5, <1>7
    <3>2. t > 0 /\ a[d] \in Nat
      BY <1>4, <1>5, <1>7
    <3>3. a[d] \div t \in Nat /\ t * (a[d] \div t) <= a[d]
      BY <1>4, <3>2, DivBelow
    <3>4. t * sh[d] = t * (a[d] \div t) /\ sh[d] \in Nat
      BY <3>1, <3>3, Zenon
    <3> QED
      BY <1>4, <3>3, <3>4
  <2>2. sh \in [Nodes -> Nat]
    BY <1>3, <2>1
  <2>3. \A d \in Nodes : b[d] \in Int /\ a[d] \in Int /\ b[d] = t * sh[d] /\ sh[d] \in Int
                         /\ b[d] <= a[d]
    BY <1>5, <2>1
  <2> HIDE DEF b
  <2>4. \A d \in Nodes : (IF d \in Nodes THEN b[d] ELSE 0) <= (IF d \in Nodes THEN a[d] ELSE 0)
    BY <2>3
  <2>5. Total(b) <= Total(a)
    BY <2>3, <2>4, PowerAtMost DEF Total
  <2>6. Total(b) = t * Total(sh) /\ Total(sh) \in Int
    BY <1>4, <2>3, PowerTimes
  <2>7. Total(a) = Reward * Total(bh)
    BY <1>2, <1>5, PowerTimes
  <2>8. t * Reward = Reward * Stake[p] + Reward * Total(bh) /\ Reward * Stake[p] >= 0
    BY <1>2 DEF t
  <2>9. Reward * Stake[p] \in Int /\ Reward * Total(bh) \in Int /\ t * Total(sh) \in Int
    BY <1>2, <1>4, <2>6
  <2>10. t * Total(sh) <= t * Reward
    BY <2>5, <2>6, <2>7, <2>8, <2>9
  <2>11. t > 0 /\ Reward \in Int
    BY <1>2, <1>4, <1>7
  <2>12. Total(sh) <= Reward
    BY <1>4, <2>6, <2>10, <2>11, FactorBound
  <2>13. Total(sh) \in Nat
    BY <2>2, PowerNat DEF Total
  <2> QED
    BY <2>2, <2>12, <2>13 DEF sh
<1> QED
  BY <1>6, <1>7

\* A block makes exactly the reward, whoever proposed it and however it was
\* split, and touches no nonce.
LEMMA RewardedKeeps ==
    ASSUME NEW s \in LedgerState, NEW p \in Nodes
    PROVE  /\ Rewarded(s, p) \in LedgerState
           /\ Supply(Rewarded(s, p)) = Supply(s) + Reward
           /\ Rewarded(s, p).nonce = s.nonce
<1> DEFINE sh == Share(s, p)
           rest == Reward - Total(sh)
           b0 == s.balance
           b1 == [v \in Nodes |-> b0[v] + sh[v]]
           b2 == [v \in Nodes |-> b0[v] + sh[v] + (IF v = p THEN rest ELSE 0)]
           r == Rewarded(s, p)
<1>1. sh \in [Nodes -> Nat] /\ Total(sh) \in Nat /\ Total(sh) <= Reward
  BY SharesFit
<1>2. /\ b0 \in [Nodes -> Nat] /\ s.nonce \in [Nodes -> Nat]
      /\ s.bonded \in [Nodes -> [Nodes -> Nat]]
      /\ s = [balance |-> b0, nonce |-> s.nonce, bonded |-> s.bonded]
      /\ Total(b0) \in Nat /\ AllBonds(s.bonded) \in Nat
  BY LedgerTypes, PowerNat DEF Total, AllBonds
<1>3. rest \in Nat
  BY <1>1, RewardAssumption
<1>4. r = [s EXCEPT !.balance = [a \in Nodes |->
              b0[a] + sh[a] + (IF a = p THEN rest ELSE 0)]]
  BY DEF Rewarded, Remainder
<1>5. r = [balance |-> b2, nonce |-> s.nonce, bonded |-> s.bonded]
  <2> HIDE DEF r, rest, sh, b0
  <2> QED
    BY <1>2, <1>4
<1> HIDE DEF r, sh, b0
<1>6. b2 \in [Nodes -> Nat]
  <2> HIDE DEF rest
  <2> QED
    BY <1>1, <1>2, <1>3
<1>7. /\ \A v \in Nodes : b0[v] \in Int /\ sh[v] \in Int /\ b1[v] \in Int
      /\ \A v \in Nodes : v \in Nodes => b1[v] = b0[v] + sh[v]
      /\ \A v \in Nodes : b2[v] = IF v = p THEN b1[v] + rest ELSE b1[v]
  <2> HIDE DEF rest
  <2> QED
    BY <1>1, <1>2, <1>3
<1> HIDE DEF b1, b2
<1>8. Total(b1) = Total(b0) + Total(sh)
  BY <1>7, PowerOfSum DEF Total
<1>9. Total(b2) = Total(b1) + rest
  <2> HIDE DEF rest
  <2> QED
    BY <1>3, <1>7, TotalChange
<1>10. Total(b2) = Total(b0) + Reward
  BY <1>1, <1>2, <1>8, <1>9, RewardAssumption
<1>11. r.balance = b2 /\ r.bonded = s.bonded /\ r.nonce = s.nonce /\ r \in LedgerState
  BY <1>2, <1>5, <1>6 DEF LedgerState
<1>12. Supply(r) = Supply(s) + Reward
  <2>1. Supply(r) = Total(b2) + AllBonds(s.bonded)
    BY <1>11, Zenon DEF Supply, AllBonds
  <2>2. Supply(s) = Total(b0) + AllBonds(s.bonded)
    BY Zenon DEF Supply, AllBonds, b0
  <2> QED
    BY <1>2, <1>10, <2>1, <2>2, RewardAssumption
<1> QED
  BY <1>11, <1>12 DEF r

-----------------------------------------------------------------------------
(* A block *)

\* Induction up to a number, with a set in the place of the predicate.
LEMMA CountInduction ==
    ASSUME NEW m \in Nat, NEW B, 0 \in B, \A k \in 1..m : k-1 \in B => k \in B
    PROVE  \A k \in 0..m : k \in B
<1> DEFINE T == {k \in 0..m : k \notin B}
<1>1. SUFFICES ASSUME T # {} PROVE FALSE
  OBVIOUS
<1>2. PICK k \in T : \A y \in T : k <= y
  <2>1. T \subseteq Nat
    OBVIOUS
  <2> HIDE DEF T
  <2> QED
    BY <1>1, <2>1, LeastElement
<1>3. k \in 1..m /\ k-1 \in 0..m /\ k-1 \notin T
  BY <1>2
<1>4. k-1 \in B
  BY <1>3
<1> QED
  BY <1>2, <1>3, <1>4

\* f is the run of the first m transactions.
IsRun(s, txs, m, f) ==
    f = [i \in 0..m |-> IF i = 0 THEN s ELSE Effect(f[i-1], txs[i])]

LEMMA RunExists ==
    ASSUME NEW s, NEW txs, NEW m \in Nat
    PROVE  \E f : IsRun(s, txs, m, f)
<1> DEFINE B == {k \in 0..m : \E f : IsRun(s, txs, k, f)}
<1>1. 0 \in B
  <2>1. IsRun(s, txs, 0, [j \in 0..0 |-> s])
    BY DEF IsRun
  <2> QED
    BY <2>1
<1>2. ASSUME NEW k \in 1..m, k-1 \in B PROVE k \in B
  <2>1. PICK f : IsRun(s, txs, k-1, f)
    BY <1>2
  <2> DEFINE g == [j \in 0..k |-> IF j = k THEN Effect(f[k-1], txs[k]) ELSE f[j]]
  <2>2. IsRun(s, txs, k, g)
    <3>1. ASSUME NEW j \in 0..k
          PROVE  g[j] = IF j = 0 THEN s ELSE Effect(g[j-1], txs[j])
      <4>1. CASE j = k
        <5>1. j # 0 /\ j-1 = k-1 /\ j-1 \in 0..k /\ j-1 # k
          BY <4>1
        <5>2. g[j-1] = f[k-1]
          BY <5>1
        <5>3. g[j] = Effect(f[k-1], txs[j])
          BY <4>1
        <5> QED
          BY <5>1, <5>2, <5>3
      <4>2. CASE j # k
        <5>1. /\ j \in 0..(k-1)
              /\ j # 0 => j-1 \in 0..(k-1) /\ j-1 \in 0..k /\ j-1 # k
          BY <4>2
        <5>2. f[j] = IF j = 0 THEN s ELSE Effect(f[j-1], txs[j])
          BY <5>1, <2>1 DEF IsRun
        <5>3. g[j] = f[j] /\ (j # 0 => g[j-1] = f[j-1])
          BY <4>2, <5>1
        <5> QED
          BY <5>2, <5>3
      <4> QED
        BY <4>1, <4>2
    <3> QED
      BY <3>1, Zenon DEF IsRun
  <2> QED
    BY <2>2
<1>3. m \in B
  <2> HIDE DEF B
  <2> QED
    BY <1>1, <1>2, CountInduction
<1> QED
  BY <1>3

LEMMA RunStep ==
    ASSUME NEW s, NEW txs, Len(txs) \in Nat
    PROVE  /\ Run(s, txs)[0] = s
           /\ \A i \in 1..Len(txs) : Run(s, txs)[i] = Effect(Run(s, txs)[i-1], txs[i])
<1> DEFINE f == CHOOSE f : IsRun(s, txs, Len(txs), f)
<1>1. IsRun(s, txs, Len(txs), f)
  BY RunExists
<1>2. Run(s, txs) = f
  BY DEF Run, IsRun
<1> HIDE DEF f
<1>3. f[0] = s
  BY <1>1 DEF IsRun
<1>4. \A i \in 1..Len(txs) : f[i] = Effect(f[i-1], txs[i])
  BY <1>1 DEF IsRun
<1> QED
  BY <1>2, <1>3, <1>4

\* Runs of sequences that begin alike go alike.
LEMMA RunAlike ==
    ASSUME NEW s, NEW txs, NEW us, Len(txs) \in Nat, Len(us) \in Nat,
           NEW m \in Nat, m <= Len(txs), m <= Len(us),
           \A i \in 1..m : txs[i] = us[i]
    PROVE  \A i \in 0..m : Run(s, txs)[i] = Run(s, us)[i]
<1> DEFINE B == {i \in 0..m : Run(s, txs)[i] = Run(s, us)[i]}
<1>1. 0 \in B
  BY RunStep
<1>2. ASSUME NEW k \in 1..m, k-1 \in B PROVE k \in B
  <2>1. Run(s, txs)[k-1] = Run(s, us)[k-1] /\ txs[k] = us[k]
    BY <1>2
  <2>2. k \in 1..Len(txs) /\ k \in 1..Len(us) /\ k \in 0..m
    OBVIOUS
  <2>3. Run(s, txs)[k] = Effect(Run(s, txs)[k-1], txs[k])
    BY <2>2, RunStep
  <2>4. Run(s, us)[k] = Effect(Run(s, us)[k-1], us[k])
    BY <2>2, RunStep
  <2>5. Run(s, txs)[k] = Run(s, us)[k]
    BY <2>1, <2>3, <2>4
  <2> QED
    BY <2>2, <2>5
<1>3. \A i \in 0..m : i \in B
  <2> HIDE DEF B
  <2> QED
    BY <1>1, <1>2, CountInduction
<1> QED
  BY <1>3

\* Two transactions with one place in the order of an account.
SameSlot(t, u) == t.from = u.from /\ t.nonce = u.nonce

\* What i transactions that apply in turn have made of s: every account has
\* used up, each once, the nonces from where it stood to where it stands.
Reached(s, txs, i, r) ==
    /\ r \in LedgerState
    /\ Supply(r) = Supply(s)
    /\ \A a \in Nodes : s.nonce[a] <= r.nonce[a]
    /\ \A j \in 1..i : /\ s.nonce[txs[j].from] <= txs[j].nonce
                       /\ txs[j].nonce < r.nonce[txs[j].from]
    /\ \A j, k \in 1..i : SameSlot(txs[j], txs[k]) => j = k
    /\ \A a \in Nodes, n \in Nat :
            s.nonce[a] <= n /\ n < r.nonce[a] =>
                \E j \in 1..i : txs[j].from = a /\ txs[j].nonce = n

LEMMA ReachedStep ==
    ASSUME NEW s \in LedgerState, NEW txs \in Seq(Transaction),
           NEW i \in 1..Len(txs), NEW q, Reached(s, txs, i-1, q), Applies(q, txs[i])
    PROVE  Reached(s, txs, i, Effect(q, txs[i]))
<1> DEFINE tx == txs[i]
           r == Effect(q, tx)
<1>1. /\ tx \in Transaction /\ tx.from \in Nodes /\ tx.nonce \in Nat
      /\ \A j \in 1..i : txs[j].from \in Nodes /\ txs[j].nonce \in Nat
  <2>1. \A j \in 1..i : txs[j] \in Transaction
    OBVIOUS
  <2> QED
    BY <2>1 DEF Transaction
<1>2. q \in LedgerState /\ q.nonce \in [Nodes -> Nat] /\ s.nonce \in [Nodes -> Nat]
  BY LedgerTypes DEF Reached
<1>3. /\ r \in LedgerState /\ Supply(r) = Supply(q) /\ q.nonce[tx.from] = tx.nonce
      /\ \A a \in Nodes : r.nonce[a] = IF a = tx.from THEN tx.nonce + 1 ELSE q.nonce[a]
  BY <1>1, <1>2, EffectKeeps
<1>4. \A a \in Nodes : q.nonce[a] <= r.nonce[a] /\ r.nonce[a] \in Nat
  <2> HIDE DEF r, tx
  <2> QED
    BY <1>1, <1>2, <1>3
<1>5. i \in Nat /\ i-1 \in Nat /\ \A j \in 1..i : j \in 1..(i-1) \/ j = i
  OBVIOUS
<1>6. \A a \in Nodes : s.nonce[a] <= q.nonce[a]
  BY DEF Reached
<1>7. \A j \in 1..(i-1) : s.nonce[txs[j].from] <= txs[j].nonce
                          /\ txs[j].nonce < q.nonce[txs[j].from]
  BY DEF Reached
<1> HIDE DEF r
<1>8. r \in LedgerState /\ Supply(r) = Supply(s)
  BY <1>3 DEF Reached
<1>9. \A a \in Nodes : s.nonce[a] <= r.nonce[a]
  BY <1>2, <1>4, <1>6
<1>10. ASSUME NEW j \in 1..i
       PROVE  s.nonce[txs[j].from] <= txs[j].nonce /\ txs[j].nonce < r.nonce[txs[j].from]
  <2>1. CASE j = i
    BY <1>1, <1>2, <1>3, <1>6, <2>1
  <2>2. CASE j \in 1..(i-1)
    <3>1. /\ s.nonce[txs[j].from] <= txs[j].nonce /\ txs[j].nonce < q.nonce[txs[j].from]
          /\ txs[j].from \in Nodes /\ txs[j].nonce \in Nat
      BY <1>1, <1>7, <2>2
    <3> QED
      BY <1>2, <1>4, <3>1
  <2> QED
    BY <1>5, <2>1, <2>2
<1>11. ASSUME NEW j \in 1..(i-1) PROVE ~SameSlot(txs[j], tx)
  <2>1. txs[j].nonce < q.nonce[txs[j].from] /\ txs[j].nonce \in Nat
    BY <1>1, <1>5, <1>7
  <2> QED
    BY <1>1, <1>3, <2>1 DEF SameSlot
<1>12. ASSUME NEW j \in 1..i, NEW k \in 1..i, SameSlot(txs[j], txs[k]) PROVE j = k
  <2>1. CASE j \in 1..(i-1) /\ k \in 1..(i-1)
    BY <1>12, <2>1 DEF Reached
  <2>2. CASE j \in 1..(i-1) /\ k = i
    BY <1>11, <1>12, <2>2
  <2>3. CASE j = i /\ k \in 1..(i-1)
    <3>1. SameSlot(txs[k], tx)
      BY <1>12, <2>3 DEF SameSlot
    <3> QED
      BY <1>11, <2>3, <3>1
  <2> QED
    BY <1>5, <2>1, <2>2, <2>3
<1>13. ASSUME NEW a \in Nodes, NEW n \in Nat, s.nonce[a] <= n, n < r.nonce[a]
       PROVE  \E j \in 1..i : txs[j].from = a /\ txs[j].nonce = n
  <2>1. CASE a = tx.from /\ n = tx.nonce
    BY <1>5, <2>1
  <2>2. CASE ~(a = tx.from /\ n = tx.nonce)
    <3>1. n < q.nonce[a]
      BY <1>1, <1>2, <1>3, <1>13, <2>2
    <3>2. \E j \in 1..(i-1) : txs[j].from = a /\ txs[j].nonce = n
      BY <1>13, <3>1 DEF Reached
    <3> QED
      BY <1>5, <3>2
  <2> QED
    BY <2>1, <2>2
<1> QED
  BY <1>8, <1>9, <1>10, <1>12, <1>13 DEF Reached, r

LEMMA RunKeeps ==
    ASSUME NEW s \in LedgerState, NEW txs \in Seq(Transaction), Valid(s, txs)
    PROVE  \A i \in 0..Len(txs) : Reached(s, txs, i, Run(s, txs)[i])
<1> DEFINE B == {i \in 0..Len(txs) : Reached(s, txs, i, Run(s, txs)[i])}
<1>1. Len(txs) \in Nat
  OBVIOUS
<1>2. 0 \in B
  <2>1. Run(s, txs)[0] = s
    BY <1>1, RunStep
  <2>2. \A a \in Nodes : s.nonce[a] \in Nat
    BY LedgerTypes
  <2>3. Reached(s, txs, 0, s)
    BY <2>2 DEF Reached
  <2> QED
    BY <1>1, <2>1, <2>3
<1>3. ASSUME NEW k \in 1..Len(txs), k-1 \in B PROVE k \in B
  <2>1. Reached(s, txs, k-1, Run(s, txs)[k-1])
    BY <1>3
  <2>2. Applies(Run(s, txs)[k-1], txs[k])
    BY DEF Valid
  <2>3. Run(s, txs)[k] = Effect(Run(s, txs)[k-1], txs[k])
    BY <1>1, RunStep
  <2>4. Reached(s, txs, k, Effect(Run(s, txs)[k-1], txs[k]))
    BY <2>1, <2>2, ReachedStep
  <2>5. Reached(s, txs, k, Run(s, txs)[k])
    BY <2>3, <2>4
  <2> QED
    BY <2>5
<1>4. \A i \in 0..Len(txs) : i \in B
  <2> HIDE DEF B
  <2> QED
    BY <1>1, <1>2, <1>3, CountInduction
<1> QED
  BY <1>4

\* A valid sequence stays valid with one more that applies after it.
LEMMA ValidAppend ==
    ASSUME NEW s \in LedgerState, NEW txs \in Seq(Transaction), Valid(s, txs),
           NEW tx \in Transaction, Applies(Run(s, txs)[Len(txs)], tx)
    PROVE  Append(txs, tx) \in Seq(Transaction) /\ Valid(s, Append(txs, tx))
<1> DEFINE us == Append(txs, tx)
           m == Len(txs)
<1>1. /\ us \in Seq(Transaction) /\ m \in Nat /\ Len(us) = m + 1
      /\ us[m + 1] = tx /\ \A i \in 1..m : us[i] = txs[i]
  OBVIOUS
<1> HIDE DEF us
<1>2. Len(us) \in Nat /\ m <= Len(us)
  BY <1>1
<1>3. \A i \in 0..m : Run(s, us)[i] = Run(s, txs)[i]
  <2> HIDE DEF m
  <2>1. m = Len(txs)
    BY DEF m
  <2> QED
    BY <1>1, <1>2, <2>1, RunAlike
<1>4. ASSUME NEW i \in 1..Len(us) PROVE Applies(Run(s, us)[i-1], us[i])
  <2>1. CASE i = m + 1
    <3>1. Run(s, us)[m] = Run(s, txs)[m]
      BY <1>1, <1>3
    <3>2. i-1 = m /\ us[i] = tx
      BY <1>1, <2>1
    <3> QED
      BY <3>1, <3>2
  <2>2. CASE i # m + 1
    <3>1. i \in 1..m /\ i-1 \in 0..m
      BY <1>1, <2>2
    <3>2. Applies(Run(s, txs)[i-1], txs[i])
      BY <3>1 DEF Valid
    <3>3. Run(s, us)[i-1] = Run(s, txs)[i-1] /\ us[i] = txs[i]
      BY <1>1, <1>3, <3>1
    <3> QED
      BY <3>2, <3>3
  <2> QED
    BY <2>1, <2>2
<1>5. Valid(s, us)
  BY <1>4 DEF Valid
<1> QED
  BY <1>1, <1>5 DEF us

\* k, and the next transaction if it applies after it.
Extended(s, k, tx) ==
    IF Applies(Run(s, k)[Len(k)], tx) THEN Append(k, tx) ELSE k

\* f is the choice among the first m transactions.
IsChoice(s, txs, m, f) ==
    f = [i \in 0..m |-> IF i = 0 THEN <<>> ELSE Extended(s, f[i-1], txs[i])]

LEMMA ChoiceExists ==
    ASSUME NEW s, NEW txs, NEW m \in Nat
    PROVE  \E f : IsChoice(s, txs, m, f)
<1> DEFINE B == {k \in 0..m : \E f : IsChoice(s, txs, k, f)}
<1>1. 0 \in B
  <2>1. IsChoice(s, txs, 0, [j \in 0..0 |-> <<>>])
    BY DEF IsChoice
  <2> QED
    BY <2>1
<1>2. ASSUME NEW k \in 1..m, k-1 \in B PROVE k \in B
  <2>1. PICK f : IsChoice(s, txs, k-1, f)
    BY <1>2
  <2> DEFINE g == [j \in 0..k |-> IF j = k THEN Extended(s, f[k-1], txs[k]) ELSE f[j]]
  <2>2. IsChoice(s, txs, k, g)
    <3>1. ASSUME NEW j \in 0..k
          PROVE  g[j] = IF j = 0 THEN <<>> ELSE Extended(s, g[j-1], txs[j])
      <4>1. CASE j = k
        <5>1. j # 0 /\ j-1 = k-1 /\ j-1 \in 0..k /\ j-1 # k
          BY <4>1
        <5>2. g[j-1] = f[k-1]
          BY <5>1
        <5>3. g[j] = Extended(s, f[k-1], txs[j])
          BY <4>1
        <5> QED
          BY <5>1, <5>2, <5>3
      <4>2. CASE j # k
        <5>1. /\ j \in 0..(k-1)
              /\ j # 0 => j-1 \in 0..(k-1) /\ j-1 \in 0..k /\ j-1 # k
          BY <4>2
        <5>2. f[j] = IF j = 0 THEN <<>> ELSE Extended(s, f[j-1], txs[j])
          BY <5>1, <2>1 DEF IsChoice
        <5>3. g[j] = f[j] /\ (j # 0 => g[j-1] = f[j-1])
          BY <4>2, <5>1
        <5> QED
          BY <5>2, <5>3
      <4> QED
        BY <4>1, <4>2
    <3> QED
      BY <3>1, Zenon DEF IsChoice
  <2> QED
    BY <2>2
<1>3. m \in B
  <2> HIDE DEF B
  <2> QED
    BY <1>1, <1>2, CountInduction
<1> QED
  BY <1>3

\* A valid sequence of transactions, all of them out of txs.
Chosen(s, txs, k) ==
    /\ k \in Seq(Transaction) /\ Valid(s, k)
    /\ \A j \in 1..Len(k) : \E i \in 1..Len(txs) : k[j] = txs[i]

\* What a proposer takes is valid on the state it proposes on, and is all out
\* of what it drained.
LEMMA ApplicableValid ==
    ASSUME NEW s \in LedgerState, NEW txs \in Seq(Transaction)
    PROVE  Chosen(s, txs, Applicable(s, txs))
<1> DEFINE f == CHOOSE f : IsChoice(s, txs, Len(txs), f)
           B == {i \in 0..Len(txs) : Chosen(s, txs, f[i])}
<1>1. Len(txs) \in Nat /\ IsChoice(s, txs, Len(txs), f)
  BY ChoiceExists
<1>2. Applicable(s, txs) = f[Len(txs)]
  BY DEF Applicable, IsChoice, Extended
<1> HIDE DEF f
<1>3. f[0] = <<>> /\ \A i \in 1..Len(txs) : f[i] = Extended(s, f[i-1], txs[i])
  BY <1>1 DEF IsChoice
<1>4. 0 \in B
  <2>1. Chosen(s, txs, <<>>)
    BY DEF Valid, Chosen
  <2> QED
    BY <1>1, <1>3, <2>1
<1>5. ASSUME NEW k \in 1..Len(txs), k-1 \in B PROVE k \in B
  <2> DEFINE w == f[k-1]
             tx == txs[k]
  <2>1. Chosen(s, txs, w) /\ tx \in Transaction /\ f[k] = Extended(s, w, tx)
    BY <1>3, <1>5
  <2> HIDE DEF w
  <2>2. CASE Applies(Run(s, w)[Len(w)], tx)
    <3>1. f[k] = Append(w, tx)
      BY <2>1, <2>2 DEF Extended
    <3>2. Append(w, tx) \in Seq(Transaction) /\ Valid(s, Append(w, tx))
      <4> HIDE DEF tx
      <4> QED
        BY <2>1, <2>2, ValidAppend DEF Chosen
    <3>3. \A j \in 1..Len(Append(w, tx)) : \E i \in 1..Len(txs) : Append(w, tx)[j] = txs[i]
      <4>1. \A j \in 1..Len(Append(w, tx)) : \/ j \in 1..Len(w) /\ Append(w, tx)[j] = w[j]
                                             \/ Append(w, tx)[j] = txs[k]
        BY <2>1 DEF Chosen
      <4> QED
        BY <2>1, <4>1 DEF Chosen
    <3>4. Chosen(s, txs, f[k])
      BY <3>1, <3>2, <3>3 DEF Chosen
    <3> QED
      BY <3>4
  <2>3. CASE ~Applies(Run(s, w)[Len(w)], tx)
    <3>1. f[k] = w
      BY <2>1, <2>3 DEF Extended
    <3> QED
      BY <2>1, <3>1
  <2> QED
    BY <2>2, <2>3
<1>6. \A i \in 0..Len(txs) : i \in B
  <2>1. Len(txs) \in Nat
    BY <1>1
  <2> HIDE DEF B
  <2> QED
    BY <2>1, <1>4, <1>5, CountInduction
<1> QED
  BY <1>1, <1>2, <1>6

-----------------------------------------------------------------------------
(* Types *)

Held(c) == desk[c] # "idle"

\* A clerk that is not idle holds a transaction of a wallet.
TypeInv ==
    /\ TypeOK
    /\ \A c \in Clerks : Held(c) => slip[c] \in Transaction /\ slip[c].from \in Wallets

LEMMA DrainParts ==
    ASSUME NEW q \in Seq(Transaction), NEW k \in 0..Len(q)
    PROVE  /\ TakeFirst(q, k) \in Seq(Transaction) /\ Len(TakeFirst(q, k)) = k
           /\ \A i \in 1..k : TakeFirst(q, k)[i] = q[i] /\ i \in 1..Len(q)
           /\ DropFirst(q, k) \in Seq(Transaction) /\ Len(DropFirst(q, k)) = Len(q) - k
           /\ \A i \in 1..Len(DropFirst(q, k)) :
                DropFirst(q, k)[i] = q[k + i] /\ k + i \in 1..Len(q)
<1>1. k \in Nat /\ Len(q) \in Nat /\ k <= Len(q)
  OBVIOUS
<1>2. /\ TakeFirst(q, k) \in Seq(Transaction) /\ Len(TakeFirst(q, k)) = k
      /\ \A i \in 1..k : TakeFirst(q, k)[i] = q[i] /\ i \in 1..Len(q)
  BY <1>1 DEF TakeFirst
<1>3. DropFirst(q, k) \in Seq(Transaction)
  BY <1>1 DEF DropFirst
<1>4. Len(DropFirst(q, k)) = Len(q) - k
  BY <1>1 DEF DropFirst
<1>5. ASSUME NEW i \in 1..(Len(q) - k)
      PROVE  DropFirst(q, k)[i] = q[k + i] /\ k + i \in 1..Len(q)
  BY <1>1, <1>5 DEF DropFirst
<1> QED
  BY <1>2, <1>3, <1>4, <1>5

LEMMA BatchRange ==
    ASSUME TypeOK
    PROVE  Batch \in 0..Len(mempool)
<1>1. Len(mempool) \in Nat
  BY DEF TypeOK
<1> QED
  BY <1>1 DEF Batch

LEMMA DraftSeq ==
    ASSUME TypeOK
    PROVE  draft.txs \in Seq(Transaction)
           /\ (draft # NoDraft => draft.proposer \in Nodes)
<1>1. CASE draft = NoDraft
  <2>1. draft.txs = <<>>
    BY <1>1 DEF NoDraft
  <2>2. <<>> \in Seq(Transaction)
    OBVIOUS
  <2> QED
    BY <1>1, <2>1, <2>2
<1>2. CASE draft \in [proposer : Proposers, txs : Seq(Transaction)]
  <2>1. draft.txs \in Seq(Transaction) /\ draft.proposer \in Proposers
    BY <1>2
  <2> QED
    BY <2>1, WalletsAssumption
<1> QED
  BY <1>1, <1>2 DEF TypeOK

LEMMA AppendSeq ==
    ASSUME NEW S, NEW q \in Seq(S), NEW x \in S
    PROVE  /\ Append(q, x) \in Seq(S) /\ Len(Append(q, x)) = Len(q) + 1
           /\ Append(q, x)[Len(q) + 1] = x /\ Len(q) \in Nat
           /\ \A i \in 1..Len(q) : Append(q, x)[i] = q[i]
           /\ \A i \in 1..Len(Append(q, x)) : i \in 1..Len(q) \/ i = Len(q) + 1
  OBVIOUS

LEMMA NextNonceNat ==
    ASSUME TypeOK, NEW a \in Wallets
    PROVE  /\ NextNonce(a) \in Nat /\ a \in Nodes
           /\ state.nonce[a] \in Nat /\ nonces[a] \in Nat
           /\ NextNonce(a) >= state.nonce[a] /\ NextNonce(a) >= nonces[a]
<1>1. a \in Nodes /\ nonces[a] \in Nat
  BY WalletsAssumption DEF TypeOK
<1>2. state.nonce[a] \in Nat
  BY <1>1 DEF TypeOK, LedgerState
<1> QED
  BY <1>1, <1>2 DEF NextNonce

LEMMA TypeInit == Init => TypeInv
<1> SUFFICES ASSUME Init PROVE TypeInv
  OBVIOUS
<1>1. state \in LedgerState
  BY GenesisAssumption DEF Init, LedgerState
<1>2. TypeOK
  BY <1>1 DEF Init, TypeOK
<1> QED
  BY <1>2 DEF Init, TypeInv, Held

LEMMA TypeStep == TypeInv /\ [Next]_vars => TypeInv'
<1> SUFFICES ASSUME TypeInv, [Next]_vars PROVE TypeInv'
  OBVIOUS
<1>1. /\ state \in LedgerState
      /\ blocks \in Seq(Seq(Transaction))
      /\ draft = NoDraft \/ draft \in [proposer : Proposers, txs : Seq(Transaction)]
      /\ mempool \in Seq(Transaction)
      /\ nonces \in [Wallets -> Nat]
      /\ desk \in [Clerks -> {"idle", "signed", "refused"}]
      /\ slip \in [Clerks -> Transaction \cup {NoTx}]
      /\ TypeOK
  BY DEF TypeInv, TypeOK
<1>2. \A c \in Clerks : Held(c) => slip[c] \in Transaction /\ slip[c].from \in Wallets
  BY DEF TypeInv
<1>3. ASSUME NEW c \in Clerks, Sign(c) PROVE TypeInv'
  <2>1. PICK a \in Wallets, r \in Requests :
            /\ slip' = [slip EXCEPT ![c] = [kind |-> r.kind, from |-> a, to |-> r.to,
                                            amount |-> r.amount, nonce |-> NextNonce(a)]]
            /\ nonces' = [nonces EXCEPT ![a] = NextNonce(a) + 1]
    BY <1>3 DEF Sign
  <2>2. NextNonce(a) \in Nat /\ a \in Nodes
    BY <1>1, NextNonceNat
  <2> DEFINE tx == [kind |-> r.kind, from |-> a, to |-> r.to,
                    amount |-> r.amount, nonce |-> NextNonce(a)]
  <2>3. tx \in Transaction /\ tx.from = a
    BY <2>2, RequestsAssumption DEF Transaction
  <2> HIDE DEF tx
  <2>4. slip' = [slip EXCEPT ![c] = tx] /\ desk' = [desk EXCEPT ![c] = "signed"]
    BY <1>3, <2>1 DEF Sign, tx
  <2>5. nonces' \in [Wallets -> Nat]
    BY <1>1, <2>1, <2>2
  <2>6. UNCHANGED <<state, blocks, draft, mempool>>
    BY <1>3 DEF Sign
  <2>7. TypeOK'
    BY <1>1, <2>3, <2>4, <2>5, <2>6 DEF TypeOK
  <2>8. \A d \in Clerks : Held(d)' => slip'[d] \in Transaction /\ slip'[d].from \in Wallets
    BY <1>1, <1>2, <2>3, <2>4 DEF Held
  <2> QED
    BY <2>7, <2>8 DEF TypeInv
<1>4. ASSUME NEW c \in Clerks, HandIn(c) PROVE TypeInv'
  <2>1. Held(c) /\ slip[c] \in Transaction
    BY <1>2, <1>4 DEF HandIn, Held
  <2>2. UNCHANGED <<state, blocks, draft, nonces>>
    BY <1>4 DEF HandIn
  <2>3. CASE Len(mempool) < MaxMempool
    <3>1. /\ mempool' = Append(mempool, slip[c])
          /\ desk' = [desk EXCEPT ![c] = "idle"] /\ slip' = [slip EXCEPT ![c] = NoTx]
      BY <1>4, <2>3 DEF HandIn
    <3>2. mempool' \in Seq(Transaction)
      BY <1>1, <2>1, <3>1
    <3>3. TypeOK'
      BY <1>1, <2>2, <3>1, <3>2 DEF TypeOK
    <3>4. \A d \in Clerks : Held(d)' => slip'[d] \in Transaction /\ slip'[d].from \in Wallets
      BY <1>1, <1>2, <3>1 DEF Held
    <3> QED
      BY <3>3, <3>4 DEF TypeInv
  <2>4. CASE ~(Len(mempool) < MaxMempool)
    <3>1. desk' = [desk EXCEPT ![c] = "refused"] /\ mempool' = mempool /\ slip' = slip
      BY <1>4, <2>4 DEF HandIn
    <3>2. TypeOK'
      BY <1>1, <2>2, <3>1 DEF TypeOK
    <3>3. \A d \in Clerks : Held(d)' => slip'[d] \in Transaction /\ slip'[d].from \in Wallets
      BY <1>1, <1>2, <2>1, <3>1 DEF Held
    <3> QED
      BY <3>2, <3>3 DEF TypeInv
  <2> QED
    BY <2>3, <2>4
<1>5. ASSUME NEW c \in Clerks, Rollback(c) PROVE TypeInv'
  <2>1. Held(c) /\ slip[c] \in Transaction /\ slip[c].from \in Wallets /\ slip[c].nonce \in Nat
    BY <1>2, <1>5 DEF Rollback, Held, Transaction
  <2>2. /\ nonces' \in [Wallets -> Nat]
        /\ desk' = [desk EXCEPT ![c] = "idle"] /\ slip' = [slip EXCEPT ![c] = NoTx]
        /\ UNCHANGED <<state, blocks, draft, mempool>>
    BY <1>1, <1>5, <2>1 DEF Rollback
  <2>3. TypeOK'
    BY <1>1, <2>2 DEF TypeOK
  <2>4. \A d \in Clerks : Held(d)' => slip'[d] \in Transaction /\ slip'[d].from \in Wallets
    BY <1>1, <1>2, <2>2 DEF Held
  <2> QED
    BY <2>3, <2>4 DEF TypeInv
<1>6. ASSUME NEW tx \in Posted, Post(tx) PROVE TypeInv'
  <2>1. tx \in Transaction
    BY PostedAssumption
  <2>2. /\ mempool' \in Seq(Transaction)
        /\ UNCHANGED <<state, blocks, draft, nonces, desk, slip>>
    BY <1>1, <1>6, <2>1 DEF Post
  <2> QED
    BY <1>1, <1>2, <2>2 DEF TypeInv, TypeOK, Held
<1>7. ASSUME NEW p \in Proposers, Propose(p) PROVE TypeInv'
  <2> DEFINE q == TakeFirst(mempool, Batch)
  <2>1. q \in Seq(Transaction) /\ DropFirst(mempool, Batch) \in Seq(Transaction)
    BY <1>1, BatchRange, DrainParts
  <2>2. /\ mempool' \in Seq(Transaction)
        /\ draft' = [proposer |-> p, txs |-> Applicable(state, q)]
        /\ UNCHANGED <<state, blocks, nonces, desk, slip>>
    BY <1>7, <2>1 DEF Propose
  <2> HIDE DEF q
  <2>3. Applicable(state, q) \in Seq(Transaction)
    BY <1>1, <2>1, ApplicableValid DEF Chosen
  <2>4. draft' \in [proposer : Proposers, txs : Seq(Transaction)]
    BY <2>2, <2>3
  <2> QED
    BY <1>1, <1>2, <2>2, <2>4 DEF TypeInv, TypeOK, Held
<1>8. ASSUME Commit PROVE TypeInv'
  <2> DEFINE w == draft.txs
             r == Run(state, w)[Len(w)]
  <2>1. w \in Seq(Transaction) /\ draft.proposer \in Nodes /\ Valid(state, w)
    BY <1>1, <1>8, DraftSeq DEF Commit
  <2> HIDE DEF w
  <2>2. r \in LedgerState
    <3>1. Len(w) \in 0..Len(w)
      BY <2>1
    <3> QED
      BY <1>1, <2>1, <3>1, RunKeeps DEF Reached
  <2> HIDE DEF r
  <2>3. Rewarded(r, draft.proposer) \in LedgerState
    BY <2>1, <2>2, RewardedKeeps
  <2>4. /\ state' = Rewarded(r, draft.proposer) /\ blocks' = Append(blocks, w)
        /\ draft' = NoDraft /\ UNCHANGED <<mempool, nonces, desk, slip>>
    BY <1>8 DEF Commit, Apply, r, w
  <2>5. blocks' \in Seq(Seq(Transaction))
    BY <1>1, <2>1, <2>4
  <2> QED
    BY <1>1, <1>2, <2>3, <2>4, <2>5 DEF TypeInv, TypeOK, Held
<1>9. CASE UNCHANGED vars
  BY <1>1, <1>2, <1>9 DEF TypeInv, TypeOK, Held, vars
<1> QED
  BY <1>3, <1>4, <1>5, <1>6, <1>7, <1>8, <1>9 DEF Next

-----------------------------------------------------------------------------
(* The chain *)

\* A committed transaction has a nonce its sender has used up, and no other
\* committed one has its place.
PastInv ==
    /\ \A i \in 1..Len(blocks) : \A j \in 1..Len(blocks[i]) :
            blocks[i][j].nonce < state.nonce[blocks[i][j].from]
    /\ \A i, k \in 1..Len(blocks) : \A j \in 1..Len(blocks[i]), l \in 1..Len(blocks[k]) :
            SameSlot(blocks[i][j], blocks[k][l]) => i = k /\ j = l

ChainInv == SupplyIsMinted /\ Valid(state, draft.txs) /\ PastInv

LEMMA ChainInit == Init => ChainInv
<1> SUFFICES ASSUME Init PROVE ChainInv
  OBVIOUS
<1> DEFINE z  == [v \in Nodes |-> 0]
           zz == [d \in Nodes |-> z]
           tz == [d \in Nodes |-> Total(zz[d])]
<1>1. state = [balance |-> Genesis, nonce |-> z, bonded |-> zz] /\ blocks = <<>> /\ draft.txs = <<>>
  BY DEF Init, NoDraft
<1>2. \A v \in Nodes : z[v] = 0
  OBVIOUS
<1>3. N * 0 = 0
  BY NAssumption
<1>4. Total(z) = 0
  <2> HIDE DEF z
  <2>1. Total(z) = N * 0
    BY <1>2, PowerConstant DEF Total
  <2> QED
    BY <1>3, <2>1
<1>5. \A d \in Nodes : tz[d] = 0
  <2> HIDE DEF z
  <2> QED
    BY <1>4
<1>6. Total(tz) = 0
  <2> HIDE DEF tz
  <2>1. Total(tz) = N * 0
    BY <1>5, PowerConstant DEF Total
  <2> QED
    BY <1>3, <2>1
<1>7. Supply(state) = Total(Genesis) + 0
  <2>1. state.balance = Genesis /\ state.bonded = zz
    BY <1>1
  <2>2. Supply(state) = Total(Genesis) + Total(tz)
    BY <2>1, Zenon DEF Supply
  <2> QED
    BY <1>6, <2>2
<1>8. Reward * Len(blocks) = 0
  BY <1>1, RewardAssumption
<1>9. SupplyIsMinted
  BY <1>7, <1>8 DEF SupplyIsMinted
<1>10. Valid(state, draft.txs)
  BY <1>1 DEF Valid
<1> QED
  BY <1>1, <1>9, <1>10 DEF ChainInv, PastInv

LEMMA OneMore ==
    ASSUME NEW x \in Nat, NEW y \in Nat
    PROVE  x * (y + 1) = x * y + x /\ x * y \in Nat
  OBVIOUS

LEMMA CommitChain ==
    ASSUME TypeInv, ChainInv, Commit
    PROVE  ChainInv'
<1> DEFINE w == draft.txs
           m == Len(w)
           b == Len(blocks)
           r == Run(state, w)[m]
<1>1. /\ state \in LedgerState /\ w \in Seq(Transaction) /\ draft.proposer \in Nodes
      /\ Valid(state, w) /\ blocks \in Seq(Seq(Transaction))
  BY DraftSeq DEF TypeInv, TypeOK, Commit
<1>2. /\ state' = Rewarded(r, draft.proposer) /\ blocks' = Append(blocks, w) /\ draft' = NoDraft
  BY DEF Commit, Apply
<1> HIDE DEF w
<1>3. Reached(state, w, m, r)
  <2>1. m \in 0..Len(w)
    BY <1>1
  <2> QED
    BY <1>1, <2>1, RunKeeps
<1> HIDE DEF r
<1>4. /\ Supply(state') = Supply(state) + Reward /\ state'.nonce = r.nonce
      /\ r \in LedgerState
  BY <1>1, <1>2, <1>3, RewardedKeeps DEF Reached
<1>5. /\ b \in Nat /\ Len(blocks') = b + 1 /\ blocks'[b + 1] = w
      /\ \A i \in 1..b : blocks'[i] = blocks[i]
      /\ \A i \in 1..Len(blocks') : i \in 1..b \/ i = b + 1
  <2> DEFINE S == Seq(Transaction)
  <2>1. blocks \in Seq(S) /\ w \in S
    BY <1>1
  <2> HIDE DEF S
  <2> QED
    BY <1>2, <2>1, AppendSeq
<1>6. SupplyIsMinted'
  <2>1. Total(Genesis) \in Nat /\ Reward \in Nat
    BY GenesisAssumption, RewardAssumption, PowerNat DEF Total
  <2>2. Supply(state) = Total(Genesis) + Reward * b
    BY DEF ChainInv, SupplyIsMinted
  <2>3. Reward * (b + 1) = Reward * b + Reward /\ Reward * b \in Nat
    <3>1. b \in Nat /\ Reward \in Nat
      BY <1>5, <2>1
    <3> HIDE DEF b
    <3> QED
      BY <3>1, OneMore
  <2>4. Supply(state') = Total(Genesis) + Reward * (b + 1)
    BY <1>4, <2>1, <2>2, <2>3
  <2>5. Supply(state') = Total(Genesis) + Reward * Len(blocks')
    BY <1>5, <2>4
  <2> QED
    BY <2>5 DEF SupplyIsMinted
<1>7. Valid(state, draft.txs)'
  BY <1>2 DEF Valid, NoDraft
<1>8. PastInv'
  <2>1. /\ \A i \in 1..b : \A j \in 1..Len(blocks[i]) :
              /\ blocks[i][j].nonce \in Nat /\ blocks[i][j].from \in Nodes
              /\ blocks[i][j].nonce < state.nonce[blocks[i][j].from]
        /\ \A j \in 1..m : w[j].nonce \in Nat /\ w[j].from \in Nodes
    <3>1. \A i \in 1..b : \A j \in 1..Len(blocks[i]) : blocks[i][j] \in Transaction
      <4>1. \A i \in 1..b : blocks[i] \in Seq(Transaction)
        BY <1>1
      <4> QED
        BY <4>1
    <3>2. \A j \in 1..m : w[j] \in Transaction
      BY <1>1
    <3> QED
      BY <3>1, <3>2 DEF Transaction, ChainInv, PastInv
  <2>2. \A a \in Nodes : state.nonce[a] \in Nat /\ r.nonce[a] \in Nat
                         /\ state.nonce[a] <= r.nonce[a]
    BY <1>1, <1>3, <1>4, LedgerTypes DEF Reached
  <2>3. /\ \A j \in 1..m : /\ state.nonce[w[j].from] <= w[j].nonce
                           /\ w[j].nonce < r.nonce[w[j].from]
        /\ \A j, k \in 1..m : SameSlot(w[j], w[k]) => j = k
    BY <1>3 DEF Reached
  <2> HIDE DEF m
  <2>4. ASSUME NEW i \in 1..b, NEW j \in 1..Len(blocks[i]), NEW l \in 1..m
        PROVE  ~SameSlot(blocks[i][j], w[l])
    <3> DEFINE t == blocks[i][j]
               u == w[l]
    <3>1. t.nonce < state.nonce[t.from] /\ t.nonce \in Nat /\ t.from \in Nodes
      BY <2>1
    <3>2. state.nonce[u.from] <= u.nonce /\ u.nonce \in Nat /\ u.from \in Nodes
      BY <2>1, <2>3
    <3> HIDE DEF t, u
    <3>3. ~SameSlot(t, u)
      BY <2>2, <3>1, <3>2 DEF SameSlot
    <3> QED
      BY <3>3 DEF t, u
  <2>5. ASSUME NEW i \in 1..Len(blocks'), NEW j \in 1..Len(blocks'[i])
        PROVE  blocks'[i][j].nonce < r.nonce[blocks'[i][j].from]
    <3>1. CASE i \in 1..b
      <4> DEFINE t == blocks[i][j]
      <4>1. blocks'[i] = blocks[i] /\ j \in 1..Len(blocks[i])
        BY <1>5, <3>1
      <4>2. t.nonce \in Nat /\ t.from \in Nodes /\ t.nonce < state.nonce[t.from]
        BY <2>1, <3>1, <4>1
      <4>3. t.nonce < r.nonce[t.from]
        <5> HIDE DEF t
        <5> QED
          BY <2>2, <4>2
      <4> QED
        BY <4>1, <4>3
    <3>2. CASE i = b + 1
      BY <1>5, <2>3, <3>2 DEF m
    <3> QED
      BY <1>5, <3>1, <3>2
  <2>6. ASSUME NEW i \in 1..Len(blocks'), NEW k \in 1..Len(blocks'),
               NEW j \in 1..Len(blocks'[i]), NEW l \in 1..Len(blocks'[k]),
               SameSlot(blocks'[i][j], blocks'[k][l])
        PROVE  i = k /\ j = l
    <3>1. CASE i \in 1..b /\ k \in 1..b
      <4>1. blocks'[i] = blocks[i] /\ blocks'[k] = blocks[k]
        BY <1>5, <3>1
      <4> QED
        BY <2>6, <3>1, <4>1 DEF ChainInv, PastInv
    <3>2. CASE i \in 1..b /\ k = b + 1
      <4>1. blocks'[i] = blocks[i] /\ blocks'[k] = w
        BY <1>5, <3>2
      <4> QED
        BY <2>4, <2>6, <3>2, <4>1 DEF m
    <3>3. CASE i = b + 1 /\ k \in 1..b
      <4>1. blocks'[i] = w /\ blocks'[k] = blocks[k]
        BY <1>5, <3>3
      <4>2. SameSlot(blocks[k][l], w[j])
        BY <2>6, <4>1 DEF SameSlot
      <4> QED
        BY <2>4, <3>3, <4>1, <4>2 DEF m
    <3>4. CASE i = b + 1 /\ k = b + 1
      <4>1. blocks'[i] = w /\ blocks'[k] = w
        BY <1>5, <3>4
      <4> QED
        BY <2>3, <2>6, <3>4, <4>1 DEF m
    <3> QED
      BY <1>5, <3>1, <3>2, <3>3, <3>4
  <2> QED
    BY <1>4, <2>5, <2>6 DEF PastInv
<1> QED
  BY <1>6, <1>7, <1>8 DEF ChainInv

LEMMA ChainStep == TypeInv /\ ChainInv /\ [Next]_vars => ChainInv'
<1> SUFFICES ASSUME TypeInv, ChainInv, [Next]_vars PROVE ChainInv'
  OBVIOUS
<1>1. CASE UNCHANGED <<state, blocks, draft>>
  BY <1>1 DEF ChainInv, SupplyIsMinted, PastInv
<1>2. ASSUME NEW p \in Proposers, Propose(p) PROVE ChainInv'
  <2> DEFINE q == TakeFirst(mempool, Batch)
  <2>1. q \in Seq(Transaction) /\ state \in LedgerState
    BY BatchRange, DrainParts DEF TypeInv, TypeOK
  <2>2. draft' = [proposer |-> p, txs |-> Applicable(state, q)] /\ UNCHANGED <<state, blocks>>
    BY <1>2 DEF Propose
  <2> HIDE DEF q
  <2>3. Valid(state, Applicable(state, q))
    BY <2>1, ApplicableValid DEF Chosen
  <2>4. draft'.txs = Applicable(state, q) /\ state' = state
    BY <2>2
  <2>5. Valid(state, draft.txs)'
    BY <2>3, <2>4
  <2> QED
    BY <2>2, <2>5 DEF ChainInv, SupplyIsMinted, PastInv
<1>3. ASSUME NEW c \in Clerks, Sign(c) \/ HandIn(c) \/ Rollback(c)
      PROVE  UNCHANGED <<state, blocks, draft>>
  BY <1>3 DEF Sign, HandIn, Rollback
<1>4. ASSUME NEW tx \in Posted, Post(tx) PROVE UNCHANGED <<state, blocks, draft>>
  BY <1>4 DEF Post
<1>5. CASE UNCHANGED vars
  BY <1>5, <1>1 DEF vars
<1> QED
  BY <1>1, <1>2, <1>3, <1>4, <1>5, CommitChain DEF Next

-----------------------------------------------------------------------------
(* What the server has signed *)

\* No two transactions of a wallet under way, in the queue, in the block under
\* consensus or in a clerk's hand, have one nonce; all of them are below the
\* next nonce of the wallet, and one in a hand is not yet used up.
QueueApart ==
    \A i, j \in 1..Len(mempool) :
        mempool[i].from \in Wallets /\ SameSlot(mempool[i], mempool[j]) => i = j

DraftApart ==
    \A i \in 1..Len(mempool), j \in 1..Len(draft.txs) :
        mempool[i].from \in Wallets => ~SameSlot(mempool[i], draft.txs[j])

HandsApart ==
    \A c \in Clerks : Held(c) =>
        /\ slip[c].nonce >= state.nonce[slip[c].from]
        /\ \A i \in 1..Len(mempool) : ~SameSlot(mempool[i], slip[c])
        /\ \A j \in 1..Len(draft.txs) : ~SameSlot(draft.txs[j], slip[c])
        /\ \A d \in Clerks : Held(d) /\ SameSlot(slip[d], slip[c]) => c = d

Given(tx) == tx.from \in Wallets => tx.nonce < NextNonce(tx.from)

AllGiven ==
    /\ \A i \in 1..Len(mempool) : Given(mempool[i])
    /\ \A j \in 1..Len(draft.txs) : Given(draft.txs[j])
    /\ \A c \in Clerks : Held(c) => Given(slip[c])

SignInv == QueueApart /\ DraftApart /\ HandsApart /\ AllGiven

LEMMA SignInit == Init => SignInv
  BY DEF Init, NoDraft, SignInv, QueueApart, DraftApart, HandsApart, AllGiven, Held

\* What the variables hold, element by element.
LEMMA Elements ==
    ASSUME TypeInv
    PROVE  /\ Len(mempool) \in Nat /\ Len(draft.txs) \in Nat
           /\ \A i \in 1..Len(mempool) :
                mempool[i] \in Transaction /\ mempool[i].from \in Nodes /\ mempool[i].nonce \in Nat
           /\ \A j \in 1..Len(draft.txs) :
                /\ draft.txs[j] \in Transaction /\ draft.txs[j].from \in Nodes
                /\ draft.txs[j].nonce \in Nat
           /\ \A c \in Clerks : Held(c) =>
                slip[c] \in Transaction /\ slip[c].from \in Wallets /\ slip[c].nonce \in Nat
<1>1. mempool \in Seq(Transaction) /\ draft.txs \in Seq(Transaction)
  BY DraftSeq DEF TypeInv, TypeOK
<1>2. \A tx \in Transaction : tx.from \in Nodes /\ tx.nonce \in Nat
  BY DEF Transaction
<1>3. \A c \in Clerks : Held(c) => slip[c] \in Transaction /\ slip[c].from \in Wallets
  BY DEF TypeInv
<1>4. /\ Len(mempool) \in Nat /\ Len(draft.txs) \in Nat
      /\ \A i \in 1..Len(mempool) : mempool[i] \in Transaction
      /\ \A j \in 1..Len(draft.txs) : draft.txs[j] \in Transaction
  BY <1>1
<1> QED
  BY <1>2, <1>3, <1>4

LEMMA SignSigns ==
    ASSUME TypeInv, SignInv, NEW c \in Clerks, Sign(c)
    PROVE  SignInv'
<1>1. PICK a \in Wallets, r \in Requests :
          /\ slip' = [slip EXCEPT ![c] = [kind |-> r.kind, from |-> a, to |-> r.to,
                                          amount |-> r.amount, nonce |-> NextNonce(a)]]
          /\ nonces' = [nonces EXCEPT ![a] = NextNonce(a) + 1]
  BY DEF Sign
<1> DEFINE tx == [kind |-> r.kind, from |-> a, to |-> r.to,
                  amount |-> r.amount, nonce |-> NextNonce(a)]
<1>2. tx.from = a /\ tx.nonce = NextNonce(a)
  OBVIOUS
<1> HIDE DEF tx
<1>3. /\ slip \in [Clerks -> Transaction \cup {NoTx}]
      /\ desk \in [Clerks -> {"idle", "signed", "refused"}]
      /\ nonces \in [Wallets -> Nat]
  BY DEF TypeInv, TypeOK
<1>4. /\ slip' = [slip EXCEPT ![c] = tx] /\ desk' = [desk EXCEPT ![c] = "signed"]
      /\ UNCHANGED <<state, blocks, draft, mempool>> /\ ~Held(c)
  BY <1>1 DEF Sign, tx, Held
<1>5. /\ slip'[c] = tx
      /\ \A d \in Clerks : d # c => slip'[d] = slip[d] /\ (Held(d)' <=> Held(d))
  BY <1>3, <1>4 DEF Held
<1>6. /\ NextNonce(a) \in Nat /\ state.nonce[a] \in Nat /\ NextNonce(a) >= state.nonce[a]
      /\ NextNonce(a)' = NextNonce(a) + 1
  <2>1. /\ NextNonce(a) \in Nat /\ state.nonce[a] \in Nat /\ NextNonce(a) >= state.nonce[a]
    BY NextNonceNat DEF TypeInv
  <2>2. nonces'[a] = NextNonce(a) + 1 /\ state' = state
    BY <1>1, <1>3, <1>4
  <2>3. NextNonce(a)' = IF nonces'[a] > state'.nonce[a] THEN nonces'[a] ELSE state'.nonce[a]
    BY DEF NextNonce
  <2> QED
    BY <2>1, <2>2, <2>3
<1>7. \A b \in Wallets : b # a => NextNonce(b)' = NextNonce(b)
  <2>1. \A b \in Wallets : b # a => nonces'[b] = nonces[b]
    BY <1>1, <1>3
  <2> QED
    BY <1>4, <2>1 DEF NextNonce
<1>8. \A t : t.nonce \in Nat /\ Given(t) =>
              ~SameSlot(t, tx) /\ ~SameSlot(tx, t)
              /\ (t.from \in Wallets => t.nonce < NextNonce(t.from)')
  <2> SUFFICES ASSUME NEW t, t.nonce \in Nat, Given(t)
               PROVE  /\ ~SameSlot(t, tx) /\ ~SameSlot(tx, t)
                      /\ (t.from \in Wallets => t.nonce < NextNonce(t.from)')
    OBVIOUS
  <2>1. CASE t.from = a
    <3>1. t.nonce < NextNonce(a)
      BY <2>1 DEF Given
    <3>2. t.nonce < NextNonce(a)'
      BY <1>6, <3>1
    <3>3. NextNonce(t.from)' = NextNonce(a)'
      BY <2>1
    <3> QED
      BY <1>2, <1>6, <3>1, <3>2, <3>3 DEF SameSlot
  <2>2. CASE t.from # a
    BY <1>2, <1>7, <2>2 DEF SameSlot, Given
  <2> QED
    BY <2>1, <2>2
<1>9. QueueApart' /\ DraftApart'
  BY <1>4 DEF SignInv, QueueApart, DraftApart
<1>10. /\ \A i \in 1..Len(mempool) : Given(mempool[i]) /\ mempool[i].nonce \in Nat
       /\ \A j \in 1..Len(draft.txs) : Given(draft.txs[j]) /\ draft.txs[j].nonce \in Nat
       /\ \A d \in Clerks : Held(d) => Given(slip[d]) /\ slip[d].nonce \in Nat
  BY Elements DEF SignInv, AllGiven
<1>11. AllGiven'
  <2>1. \A i \in 1..Len(mempool') : Given(mempool[i])'
    BY <1>4, <1>8, <1>10 DEF Given
  <2>2. \A j \in 1..Len(draft'.txs) : Given(draft.txs[j])'
    BY <1>4, <1>8, <1>10 DEF Given
  <2>3. ASSUME NEW d \in Clerks, Held(d)' PROVE Given(slip[d])'
    <3>1. CASE d = c
      BY <1>2, <1>5, <1>6, <3>1 DEF Given
    <3>2. CASE d # c
      BY <1>5, <1>8, <1>10, <2>3, <3>2 DEF Given
    <3> QED
      BY <3>1, <3>2
  <2> QED
    BY <2>1, <2>2, <2>3 DEF AllGiven
<1>12. HandsApart'
  <2> SUFFICES ASSUME NEW d \in Clerks, Held(d)'
               PROVE  /\ slip'[d].nonce >= state'.nonce[slip'[d].from]
                      /\ \A i \in 1..Len(mempool') : ~SameSlot(mempool'[i], slip'[d])
                      /\ \A j \in 1..Len(draft'.txs) : ~SameSlot(draft'.txs[j], slip'[d])
                      /\ \A e \in Clerks : Held(e)' /\ SameSlot(slip'[e], slip'[d]) => d = e
    BY DEF HandsApart
  <2>1. CASE d = c
    <3>1. slip'[d].nonce >= state'.nonce[slip'[d].from]
      BY <1>2, <1>4, <1>5, <1>6, <2>1
    <3>2. \A e \in Clerks : Held(e)' /\ SameSlot(slip'[e], slip'[d]) => d = e
      BY <1>5, <1>8, <1>10, <2>1
    <3> QED
      BY <1>4, <1>5, <1>8, <1>10, <2>1, <3>1, <3>2
  <2>2. CASE d # c
    <3>1. slip'[d] = slip[d] /\ Held(d)
      BY <1>5, <2>2
    <3>2. /\ slip[d].nonce >= state.nonce[slip[d].from]
          /\ \A i \in 1..Len(mempool) : ~SameSlot(mempool[i], slip[d])
          /\ \A j \in 1..Len(draft.txs) : ~SameSlot(draft.txs[j], slip[d])
          /\ \A e \in Clerks : Held(e) /\ SameSlot(slip[e], slip[d]) => d = e
      BY <3>1 DEF SignInv, HandsApart
    <3>3. \A e \in Clerks : Held(e)' /\ SameSlot(slip'[e], slip'[d]) => d = e
      <4>1. ~SameSlot(tx, slip[d])
        BY <1>8, <1>10, <3>1
      <4> QED
        BY <1>5, <3>1, <3>2, <4>1
    <3> QED
      BY <1>4, <3>1, <3>2, <3>3
  <2> QED
    BY <2>1, <2>2
<1> QED
  BY <1>9, <1>11, <1>12 DEF SignInv

LEMMA HandInSigns ==
    ASSUME TypeInv, SignInv, NEW c \in Clerks, HandIn(c)
    PROVE  SignInv'
<1>1. /\ slip \in [Clerks -> Transaction \cup {NoTx}]
      /\ desk \in [Clerks -> {"idle", "signed", "refused"}]
      /\ mempool \in Seq(Transaction)
      /\ desk[c] = "signed" /\ Held(c) /\ slip[c] \in Transaction /\ slip[c].from \in Wallets
      /\ UNCHANGED <<state, blocks, draft, nonces>>
  BY DEF TypeInv, TypeOK, HandIn, Held
<1>2. \A t : Given(t) <=> (t.from \in Wallets => t.nonce < NextNonce(t.from)')
  BY <1>1 DEF Given, NextNonce
<1>3. /\ \A i \in 1..Len(mempool) : Given(mempool[i])
      /\ \A j \in 1..Len(draft.txs) : Given(draft.txs[j])
      /\ \A d \in Clerks : Held(d) => Given(slip[d])
  BY DEF SignInv, AllGiven
<1>4. CASE Len(mempool) < MaxMempool
  <2> DEFINE tx == slip[c]
             m  == Len(mempool)
  <2>1. /\ mempool' = Append(mempool, tx)
        /\ desk' = [desk EXCEPT ![c] = "idle"] /\ slip' = [slip EXCEPT ![c] = NoTx]
    BY <1>4 DEF HandIn
  <2>2. \A d \in Clerks : Held(d)' => d # c /\ Held(d) /\ slip'[d] = slip[d]
    BY <1>1, <2>1 DEF Held
  <2>3. /\ m \in Nat /\ mempool'[m + 1] = tx /\ \A i \in 1..m : mempool'[i] = mempool[i]
        /\ \A i \in 1..Len(mempool') : i \in 1..m \/ i = m + 1
    BY <1>1, <2>1, AppendSeq
  <2>4. /\ \A i \in 1..m : ~SameSlot(mempool[i], tx)
        /\ \A j \in 1..Len(draft.txs) : ~SameSlot(draft.txs[j], tx)
        /\ \A d \in Clerks : Held(d) /\ SameSlot(slip[d], tx) => c = d
    BY <1>1 DEF SignInv, HandsApart
  <2>5. /\ \A i \in 1..m : ~SameSlot(tx, mempool[i])
        /\ \A j \in 1..Len(draft.txs) : ~SameSlot(tx, draft.txs[j])
        /\ \A d \in Clerks : Held(d) /\ SameSlot(tx, slip[d]) => c = d
    BY <2>4 DEF SameSlot
  <2> HIDE DEF tx, m
  <2>6. QueueApart'
    <3> SUFFICES ASSUME NEW i \in 1..Len(mempool'), NEW j \in 1..Len(mempool'),
                        mempool'[i].from \in Wallets, SameSlot(mempool'[i], mempool'[j])
                 PROVE  i = j
      BY DEF QueueApart
    <3>1. CASE i \in 1..m /\ j \in 1..m
      <4>1. mempool'[i] = mempool[i] /\ mempool'[j] = mempool[j]
        BY <2>3, <3>1
      <4> QED
        BY <3>1, <4>1 DEF SignInv, QueueApart, m
    <3>2. CASE i \in 1..m /\ j = m + 1
      BY <2>3, <2>4, <3>2
    <3>3. CASE i = m + 1 /\ j \in 1..m
      BY <2>3, <2>5, <3>3
    <3> QED
      BY <2>3, <3>1, <3>2, <3>3
  <2>7. DraftApart'
    <3> SUFFICES ASSUME NEW i \in 1..Len(mempool'), NEW j \in 1..Len(draft'.txs),
                        mempool'[i].from \in Wallets
                 PROVE  ~SameSlot(mempool'[i], draft'.txs[j])
      BY DEF DraftApart
    <3>1. draft' = draft
      BY <1>1
    <3>2. CASE i \in 1..m
      <4>1. mempool'[i] = mempool[i]
        BY <2>3, <3>2
      <4> QED
        BY <3>1, <3>2, <4>1 DEF SignInv, DraftApart, m
    <3>3. CASE i = m + 1
      BY <2>3, <2>5, <3>1, <3>3
    <3> QED
      BY <2>3, <3>2, <3>3
  <2>8. HandsApart'
    <3> SUFFICES ASSUME NEW d \in Clerks, Held(d)'
                 PROVE  /\ slip'[d].nonce >= state'.nonce[slip'[d].from]
                        /\ \A i \in 1..Len(mempool') : ~SameSlot(mempool'[i], slip'[d])
                        /\ \A j \in 1..Len(draft'.txs) : ~SameSlot(draft'.txs[j], slip'[d])
                        /\ \A e \in Clerks : Held(e)' /\ SameSlot(slip'[e], slip'[d]) => d = e
      BY DEF HandsApart
    <3>1. d # c /\ Held(d) /\ slip'[d] = slip[d]
      BY <2>2
    <3>2. /\ slip[d].nonce >= state.nonce[slip[d].from]
          /\ \A i \in 1..m : ~SameSlot(mempool[i], slip[d])
          /\ \A j \in 1..Len(draft.txs) : ~SameSlot(draft.txs[j], slip[d])
          /\ \A e \in Clerks : Held(e) /\ SameSlot(slip[e], slip[d]) => d = e
      BY <3>1 DEF SignInv, HandsApart, m
    <3>3. \A i \in 1..Len(mempool') : ~SameSlot(mempool'[i], slip[d])
      BY <2>3, <2>5, <3>1, <3>2
    <3>4. \A e \in Clerks : Held(e)' /\ SameSlot(slip'[e], slip[d]) => d = e
      BY <2>2, <3>2
    <3> QED
      BY <1>1, <3>1, <3>2, <3>3, <3>4
  <2>9. AllGiven'
    <3>1. \A i \in 1..Len(mempool') : Given(mempool[i])'
      <4>1. Given(tx) /\ \A i \in 1..m : Given(mempool[i])
        BY <1>1, <1>3 DEF tx, m
      <4>2. \A i \in 1..Len(mempool') : Given(mempool'[i])
        BY <2>3, <4>1
      <4> QED
        BY <1>2, <4>2 DEF Given
    <3>2. \A j \in 1..Len(draft'.txs) : Given(draft.txs[j])'
      BY <1>1, <1>2, <1>3 DEF Given
    <3>3. \A d \in Clerks : Held(d)' => Given(slip[d])'
      BY <1>2, <1>3, <2>2 DEF Given
    <3> QED
      BY <3>1, <3>2, <3>3 DEF AllGiven
  <2> QED
    BY <2>6, <2>7, <2>8, <2>9 DEF SignInv
<1>5. CASE ~(Len(mempool) < MaxMempool)
  <2>1. desk' = [desk EXCEPT ![c] = "refused"] /\ mempool' = mempool /\ slip' = slip
    BY <1>5 DEF HandIn
  <2>2. \A d \in Clerks : Held(d)' <=> Held(d)
    BY <1>1, <2>1 DEF Held
  <2>3. QueueApart' /\ DraftApart'
    BY <1>1, <2>1 DEF SignInv, QueueApart, DraftApart
  <2>4. HandsApart'
    BY <1>1, <2>1, <2>2 DEF SignInv, HandsApart
  <2>5. AllGiven'
    BY <1>1, <1>2, <1>3, <2>1, <2>2 DEF AllGiven, Given
  <2> QED
    BY <2>3, <2>4, <2>5 DEF SignInv
<1> QED
  BY <1>4, <1>5

\* The nonce a clerk takes back is the last one given out, so that no other
\* transaction under way is left above it.
LEMMA RollbackSigns ==
    ASSUME TypeInv, SignInv, NEW c \in Clerks, Rollback(c)
    PROVE  SignInv'
<1>0. PICK tx, a : tx = slip[c] /\ a = tx.from
  OBVIOUS
<1>1. /\ slip \in [Clerks -> Transaction \cup {NoTx}]
      /\ desk \in [Clerks -> {"idle", "signed", "refused"}]
      /\ nonces \in [Wallets -> Nat]
      /\ Held(c) /\ a \in Wallets /\ tx.nonce \in Nat
  BY <1>0, Elements DEF TypeInv, TypeOK, Rollback, Held
<1>2. /\ nonces' = [nonces EXCEPT ![a] = IF nonces[a] = tx.nonce + 1 THEN tx.nonce ELSE @]
      /\ desk' = [desk EXCEPT ![c] = "idle"] /\ slip' = [slip EXCEPT ![c] = NoTx]
      /\ UNCHANGED <<state, blocks, draft, mempool>>
  BY <1>0 DEF Rollback, TakesBack
<1>3. \A d \in Clerks : Held(d)' => d # c /\ Held(d) /\ slip'[d] = slip[d]
  BY <1>1, <1>2 DEF Held
<1>4. /\ tx.nonce >= state.nonce[a]
      /\ \A i \in 1..Len(mempool) : ~SameSlot(mempool[i], tx)
      /\ \A j \in 1..Len(draft.txs) : ~SameSlot(draft.txs[j], tx)
      /\ \A d \in Clerks : Held(d) /\ SameSlot(slip[d], tx) => c = d
  BY <1>0, <1>1 DEF SignInv, HandsApart
<1>5. NextNonce(a) \in Nat /\ state.nonce[a] \in Nat /\ nonces[a] \in Nat
  BY <1>1, NextNonceNat DEF TypeInv
<1>6. ASSUME NEW t, Given(t), t.nonce \in Nat, ~SameSlot(t, tx)
      PROVE  t.from \in Wallets => t.nonce < NextNonce(t.from)'
  <2>1. CASE t.from = a
    <3>1. t.nonce < NextNonce(a) /\ t.nonce # tx.nonce
      BY <1>0, <1>1, <1>6, <2>1 DEF Given, SameSlot
    <3>2. CASE nonces[a] = tx.nonce + 1
      <4>1. nonces'[a] = tx.nonce /\ state'.nonce[a] = state.nonce[a]
        BY <1>1, <1>2, <3>2
      <4>2. NextNonce(a) = tx.nonce + 1 /\ NextNonce(a)' = tx.nonce
        BY <1>1, <1>4, <1>5, <3>2, <4>1 DEF NextNonce
      <4>3. t.nonce < NextNonce(a)'
        BY <1>1, <1>6, <3>1, <4>2
      <4>4. NextNonce(t.from)' = NextNonce(a)'
        BY <2>1
      <4> QED
        BY <4>3, <4>4
    <3>3. CASE nonces[a] # tx.nonce + 1
      <4>1. nonces'[a] = nonces[a] /\ state' = state
        BY <1>1, <1>2, <3>3
      <4>2. NextNonce(a)' = NextNonce(a)
        BY <4>1 DEF NextNonce
      <4>3. NextNonce(t.from)' = NextNonce(a)'
        BY <2>1
      <4> QED
        BY <3>1, <4>2, <4>3
    <3> QED
      BY <3>2, <3>3
  <2>2. CASE t.from # a
    <3>1. t.from \in Wallets => nonces'[t.from] = nonces[t.from]
      BY <1>1, <1>2, <2>2
    <3> QED
      BY <1>2, <1>6, <3>1 DEF Given, NextNonce
  <2> QED
    BY <2>1, <2>2
<1>7. QueueApart' /\ DraftApart'
  BY <1>2 DEF SignInv, QueueApart, DraftApart
<1>8. HandsApart'
  <2> SUFFICES ASSUME NEW d \in Clerks, Held(d)'
               PROVE  /\ slip'[d].nonce >= state'.nonce[slip'[d].from]
                      /\ \A i \in 1..Len(mempool') : ~SameSlot(mempool'[i], slip'[d])
                      /\ \A j \in 1..Len(draft'.txs) : ~SameSlot(draft'.txs[j], slip'[d])
                      /\ \A e \in Clerks : Held(e)' /\ SameSlot(slip'[e], slip'[d]) => d = e
    BY DEF HandsApart
  <2>1. Held(d) /\ slip'[d] = slip[d]
    BY <1>3
  <2>2. /\ slip[d].nonce >= state.nonce[slip[d].from]
        /\ \A i \in 1..Len(mempool) : ~SameSlot(mempool[i], slip[d])
        /\ \A j \in 1..Len(draft.txs) : ~SameSlot(draft.txs[j], slip[d])
        /\ \A e \in Clerks : Held(e) /\ SameSlot(slip[e], slip[d]) => d = e
    BY <2>1 DEF SignInv, HandsApart
  <2> QED
    BY <1>2, <1>3, <2>1, <2>2
<1>9. AllGiven'
  <2>1. /\ \A i \in 1..Len(mempool) : Given(mempool[i]) /\ mempool[i].nonce \in Nat
        /\ \A j \in 1..Len(draft.txs) : Given(draft.txs[j]) /\ draft.txs[j].nonce \in Nat
        /\ \A d \in Clerks : Held(d) => Given(slip[d]) /\ slip[d].nonce \in Nat
    BY Elements DEF SignInv, AllGiven
  <2>2. \A i \in 1..Len(mempool') : Given(mempool[i])'
    BY <1>2, <1>4, <1>6, <2>1 DEF Given
  <2>3. \A j \in 1..Len(draft'.txs) : Given(draft.txs[j])'
    BY <1>2, <1>4, <1>6, <2>1 DEF Given
  <2>4. \A d \in Clerks : Held(d)' => Given(slip[d])'
    BY <1>3, <1>4, <1>6, <2>1 DEF Given
  <2> QED
    BY <2>2, <2>3, <2>4 DEF AllGiven
<1> QED
  BY <1>7, <1>8, <1>9 DEF SignInv

LEMMA PostSigns ==
    ASSUME TypeInv, SignInv, NEW tx \in Posted, Post(tx)
    PROVE  SignInv'
<1> DEFINE m == Len(mempool)
<1>1. tx \in Transaction /\ tx.from \notin Wallets /\ mempool \in Seq(Transaction)
  BY PostedAssumption DEF TypeInv, TypeOK
<1>2. mempool' = Append(mempool, tx) /\ UNCHANGED <<state, blocks, draft, nonces, desk, slip>>
  BY DEF Post
<1>3. /\ m \in Nat /\ mempool'[m + 1] = tx /\ \A i \in 1..m : mempool'[i] = mempool[i]
      /\ \A i \in 1..Len(mempool') : i \in 1..m \/ i = m + 1
  BY <1>1, <1>2, AppendSeq
<1>4. \A d \in Clerks : Held(d) => slip[d].from \in Wallets
  BY Elements
<1> HIDE DEF m
<1>5. QueueApart'
  <2> SUFFICES ASSUME NEW i \in 1..Len(mempool'), NEW j \in 1..Len(mempool'),
                      mempool'[i].from \in Wallets, SameSlot(mempool'[i], mempool'[j])
               PROVE  i = j
    BY DEF QueueApart
  <2>1. mempool'[i] # tx /\ mempool'[j] # tx
    BY <1>1 DEF SameSlot
  <2>2. i \in 1..m /\ j \in 1..m
    BY <1>3, <2>1
  <2>3. mempool'[i] = mempool[i] /\ mempool'[j] = mempool[j]
    BY <1>3, <2>2
  <2> QED
    BY <2>2, <2>3 DEF SignInv, QueueApart, m
<1>6. DraftApart'
  <2> SUFFICES ASSUME NEW i \in 1..Len(mempool'), NEW j \in 1..Len(draft'.txs),
                      mempool'[i].from \in Wallets
               PROVE  ~SameSlot(mempool'[i], draft'.txs[j])
    BY DEF DraftApart
  <2>1. i \in 1..m /\ mempool'[i] = mempool[i] /\ draft' = draft
    BY <1>1, <1>2, <1>3
  <2> QED
    BY <2>1 DEF SignInv, DraftApart, m
<1>7. HandsApart'
  <2> SUFFICES ASSUME NEW d \in Clerks, Held(d)'
               PROVE  /\ slip'[d].nonce >= state'.nonce[slip'[d].from]
                      /\ \A i \in 1..Len(mempool') : ~SameSlot(mempool'[i], slip'[d])
                      /\ \A j \in 1..Len(draft'.txs) : ~SameSlot(draft'.txs[j], slip'[d])
                      /\ \A e \in Clerks : Held(e)' /\ SameSlot(slip'[e], slip'[d]) => d = e
    BY DEF HandsApart
  <2>1. Held(d) /\ slip[d].from \in Wallets
    BY <1>2, <1>4 DEF Held
  <2>2. /\ slip[d].nonce >= state.nonce[slip[d].from]
        /\ \A i \in 1..m : ~SameSlot(mempool[i], slip[d])
        /\ \A j \in 1..Len(draft.txs) : ~SameSlot(draft.txs[j], slip[d])
        /\ \A e \in Clerks : Held(e) /\ SameSlot(slip[e], slip[d]) => d = e
    BY <2>1 DEF SignInv, HandsApart, m
  <2>3. ~SameSlot(tx, slip[d])
    BY <1>1, <2>1 DEF SameSlot
  <2>4. \A i \in 1..Len(mempool') : ~SameSlot(mempool'[i], slip[d])
    BY <1>3, <2>2, <2>3
  <2>5. \A e \in Clerks : Held(e)' <=> Held(e)
    BY <1>2 DEF Held
  <2> QED
    BY <1>2, <2>2, <2>4, <2>5
<1>8. AllGiven'
  <2>1. \A t : Given(t) <=> (t.from \in Wallets => t.nonce < NextNonce(t.from)')
    BY <1>2 DEF Given, NextNonce
  <2>2. Given(tx) /\ \A i \in 1..m : Given(mempool[i])
    BY <1>1 DEF Given, SignInv, AllGiven, m
  <2>3. \A i \in 1..Len(mempool') : Given(mempool'[i])
    BY <1>3, <2>2
  <2>4. \A i \in 1..Len(mempool') : Given(mempool[i])'
    BY <2>1, <2>3 DEF Given
  <2>5. \A j \in 1..Len(draft'.txs) : Given(draft.txs[j])'
    BY <1>2, <2>1 DEF SignInv, AllGiven, Given
  <2>6. \A d \in Clerks : Held(d)' => Given(slip[d])'
    BY <1>2, <2>1 DEF SignInv, AllGiven, Given, Held
  <2> QED
    BY <2>4, <2>5, <2>6 DEF AllGiven
<1> QED
  BY <1>5, <1>6, <1>7, <1>8 DEF SignInv

LEMMA ProposeSigns ==
    ASSUME TypeInv, SignInv, NEW p \in Proposers, Propose(p)
    PROVE  SignInv'
<1> DEFINE b == Batch
           q == TakeFirst(mempool, b)
           w == Applicable(state, q)
<1>1. state \in LedgerState /\ mempool \in Seq(Transaction) /\ b \in 0..Len(mempool)
  BY BatchRange DEF TypeInv, TypeOK
<1>2. /\ mempool' = DropFirst(mempool, b) /\ draft'.txs = w
      /\ UNCHANGED <<state, blocks, nonces, desk, slip>>
  BY DEF Propose
<1> HIDE DEF b
<1>3. /\ q \in Seq(Transaction) /\ Len(q) = b
      /\ \A i \in 1..b : q[i] = mempool[i] /\ i \in 1..Len(mempool)
      /\ \A i \in 1..Len(mempool') : mempool'[i] = mempool[b + i] /\ b + i \in 1..Len(mempool)
  BY <1>1, <1>2, DrainParts
<1> HIDE DEF q
<1>4. \A j \in 1..Len(w) : \E i \in 1..b : w[j] = mempool[i]
  <2>1. Chosen(state, q, w)
    BY <1>1, <1>3, ApplicableValid
  <2> QED
    BY <1>3, <2>1 DEF Chosen
<1> HIDE DEF w
<1>5. b \in Nat /\ Len(mempool) \in Nat /\ \A i \in 1..Len(mempool') : i \in Nat /\ i > 0
  <2>1. DropFirst(mempool, b) \in Seq(Transaction)
    BY <1>1, DrainParts
  <2> QED
    BY <1>1, <1>2, <2>1
<1>6. \A i, j \in 1..Len(mempool) :
        mempool[i].from \in Wallets /\ SameSlot(mempool[i], mempool[j]) => i = j
  BY DEF SignInv, QueueApart
<1>7. QueueApart'
  <2> SUFFICES ASSUME NEW i \in 1..Len(mempool'), NEW j \in 1..Len(mempool'),
                      mempool'[i].from \in Wallets, SameSlot(mempool'[i], mempool'[j])
               PROVE  i = j
    BY DEF QueueApart
  <2>1. /\ b + i \in 1..Len(mempool) /\ b + j \in 1..Len(mempool)
        /\ mempool'[i] = mempool[b + i] /\ mempool'[j] = mempool[b + j]
    BY <1>3
  <2>2. b + i = b + j
    BY <1>6, <2>1
  <2> QED
    BY <1>5, <2>2
<1>8. DraftApart'
  <2> SUFFICES ASSUME NEW i \in 1..Len(mempool'), NEW j \in 1..Len(w),
                      mempool'[i].from \in Wallets, SameSlot(mempool'[i], w[j])
               PROVE  FALSE
    BY <1>2 DEF DraftApart
  <2>1. PICK k \in 1..b : w[j] = mempool[k]
    BY <1>4
  <2>2. /\ b + i \in 1..Len(mempool) /\ mempool'[i] = mempool[b + i] /\ k \in 1..Len(mempool)
    BY <1>3
  <2>3. b + i = k
    BY <1>6, <2>1, <2>2
  <2> QED
    BY <1>5, <2>3
<1>9. HandsApart'
  <2> SUFFICES ASSUME NEW d \in Clerks, Held(d)'
               PROVE  /\ slip'[d].nonce >= state'.nonce[slip'[d].from]
                      /\ \A i \in 1..Len(mempool') : ~SameSlot(mempool'[i], slip'[d])
                      /\ \A j \in 1..Len(draft'.txs) : ~SameSlot(draft'.txs[j], slip'[d])
                      /\ \A e \in Clerks : Held(e)' /\ SameSlot(slip'[e], slip'[d]) => d = e
    BY DEF HandsApart
  <2>1. Held(d) /\ \A e \in Clerks : Held(e)' <=> Held(e)
    BY <1>2 DEF Held
  <2>2. /\ slip[d].nonce >= state.nonce[slip[d].from]
        /\ \A i \in 1..Len(mempool) : ~SameSlot(mempool[i], slip[d])
        /\ \A e \in Clerks : Held(e) /\ SameSlot(slip[e], slip[d]) => d = e
    BY <2>1 DEF SignInv, HandsApart
  <2>3. \A i \in 1..Len(mempool') : ~SameSlot(mempool'[i], slip[d])
    BY <1>3, <2>2
  <2>4. \A j \in 1..Len(w) : ~SameSlot(w[j], slip[d])
    BY <1>3, <1>4, <2>2
  <2> QED
    BY <1>2, <2>1, <2>2, <2>3, <2>4
<1>10. AllGiven'
  <2>1. \A t : Given(t) <=> (t.from \in Wallets => t.nonce < NextNonce(t.from)')
    BY <1>2 DEF Given, NextNonce
  <2>2. \A i \in 1..Len(mempool) : Given(mempool[i])
    BY DEF SignInv, AllGiven
  <2>3. /\ \A i \in 1..Len(mempool') : Given(mempool'[i])
        /\ \A j \in 1..Len(w) : Given(w[j])
    BY <1>3, <1>4, <2>2
  <2>4. \A i \in 1..Len(mempool') : Given(mempool[i])'
    BY <2>1, <2>3 DEF Given
  <2>5. \A j \in 1..Len(draft'.txs) : Given(draft.txs[j])'
    BY <1>2, <2>1, <2>3 DEF Given
  <2>6. \A d \in Clerks : Held(d)' => Given(slip[d])'
    BY <1>2, <2>1 DEF SignInv, AllGiven, Given, Held
  <2> QED
    BY <2>4, <2>5, <2>6 DEF AllGiven
<1> QED
  BY <1>7, <1>8, <1>9, <1>10 DEF SignInv

\* A block uses up the nonces of its own transactions and no others, so that
\* what a clerk holds is still to come.
LEMMA CommitSigns ==
    ASSUME TypeInv, SignInv, Commit
    PROVE  SignInv'
<1> DEFINE w == draft.txs
           r == Run(state, w)[Len(w)]
<1>1. /\ state \in LedgerState /\ w \in Seq(Transaction) /\ draft.proposer \in Nodes
      /\ Valid(state, w) /\ Len(w) \in 0..Len(w)
  BY DraftSeq DEF TypeInv, TypeOK, Commit
<1>2. /\ state' = Rewarded(r, draft.proposer) /\ Len(draft'.txs) = 0
      /\ UNCHANGED <<mempool, nonces, desk, slip>>
  BY DEF Commit, Apply, NoDraft
<1> HIDE DEF w
<1>3. Reached(state, w, Len(w), r)
  BY <1>1, RunKeeps
<1> HIDE DEF r
<1>4. state'.nonce = r.nonce
  BY <1>1, <1>2, <1>3, RewardedKeeps DEF Reached
<1>5. /\ \A a \in Nodes : /\ state.nonce[a] \in Nat /\ state'.nonce[a] \in Nat
                          /\ state.nonce[a] <= state'.nonce[a]
      /\ \A a \in Nodes, n \in Nat :
            state.nonce[a] <= n /\ n < state'.nonce[a] =>
                \E j \in 1..Len(w) : w[j].from = a /\ w[j].nonce = n
  BY <1>1, <1>3, <1>4, LedgerTypes DEF Reached
<1>6. \A d \in Clerks : Held(d)' <=> Held(d)
  BY <1>2 DEF Held
<1>7. QueueApart' /\ DraftApart'
  BY <1>2 DEF SignInv, QueueApart, DraftApart
<1>8. HandsApart'
  <2> SUFFICES ASSUME NEW d \in Clerks, Held(d)
               PROVE  /\ slip[d].nonce >= state'.nonce[slip[d].from]
                      /\ \A i \in 1..Len(mempool) : ~SameSlot(mempool[i], slip[d])
                      /\ \A e \in Clerks : Held(e) /\ SameSlot(slip[e], slip[d]) => d = e
    BY <1>2, <1>6 DEF HandsApart
  <2>1. /\ slip[d].nonce >= state.nonce[slip[d].from]
        /\ \A i \in 1..Len(mempool) : ~SameSlot(mempool[i], slip[d])
        /\ \A j \in 1..Len(w) : ~SameSlot(w[j], slip[d])
        /\ \A e \in Clerks : Held(e) /\ SameSlot(slip[e], slip[d]) => d = e
    BY DEF SignInv, HandsApart, w
  <2>2. slip[d].from \in Nodes /\ slip[d].nonce \in Nat
    BY Elements, WalletsAssumption
  <2>3. slip[d].nonce >= state'.nonce[slip[d].from]
    BY <1>5, <2>1, <2>2 DEF SameSlot
  <2> QED
    BY <2>1, <2>3
<1>9. AllGiven'
  <2>1. ASSUME NEW t, t.nonce \in Nat, Given(t)
        PROVE  t.from \in Wallets => t.nonce < NextNonce(t.from)'
    <3> SUFFICES ASSUME t.from \in Wallets PROVE t.nonce < NextNonce(t.from)'
      OBVIOUS
    <3>1. PICK a : a = t.from
      OBVIOUS
    <3>2. a \in Nodes /\ nonces[a] \in Nat /\ t.nonce < NextNonce(a)
      BY <2>1, <3>1, NextNonceNat DEF TypeInv, Given
    <3>3. NextNonce(a)' >= NextNonce(a) /\ NextNonce(a)' \in Nat /\ NextNonce(a) \in Nat
      BY <1>2, <1>5, <3>2 DEF NextNonce
    <3>4. t.nonce < NextNonce(a)'
      BY <2>1, <3>2, <3>3
    <3>5. a = t.from => NextNonce(a)' = NextNonce(t.from)'
      OBVIOUS
    <3> QED
      BY <3>1, <3>4, <3>5
  <2>2. /\ \A i \in 1..Len(mempool) : Given(mempool[i]) /\ mempool[i].nonce \in Nat
        /\ \A d \in Clerks : Held(d) => Given(slip[d]) /\ slip[d].nonce \in Nat
    BY Elements DEF SignInv, AllGiven
  <2>3. \A i \in 1..Len(mempool') : Given(mempool[i])'
    BY <1>2, <2>1, <2>2 DEF Given
  <2>4. \A j \in 1..Len(draft'.txs) : Given(draft.txs[j])'
    BY <1>2
  <2>5. \A d \in Clerks : Held(d)' => Given(slip[d])'
    BY <1>2, <1>6, <2>1, <2>2 DEF Given
  <2> QED
    BY <2>3, <2>4, <2>5 DEF AllGiven
<1> QED
  BY <1>7, <1>8, <1>9 DEF SignInv

LEMMA SignStep == TypeInv /\ SignInv /\ [Next]_vars => SignInv'
<1> SUFFICES ASSUME TypeInv, SignInv, [Next]_vars PROVE SignInv'
  OBVIOUS
<1>1. CASE UNCHANGED vars
  BY <1>1 DEF vars, SignInv, QueueApart, DraftApart, HandsApart, AllGiven, Given, NextNonce, Held
<1> QED
  BY <1>1, SignSigns, HandInSigns, RollbackSigns, PostSigns, ProposeSigns, CommitSigns DEF Next

-----------------------------------------------------------------------------
(* Theorems *)

TrafficInv == TypeInv /\ ChainInv /\ SignInv

\* The three parts together are inductive.
THEOREM TrafficInvariant == Spec => []TrafficInv
<1>1. Init => TrafficInv
  BY TypeInit, ChainInit, SignInit DEF TrafficInv
<1>2. TrafficInv /\ [Next]_vars => TrafficInv'
  BY TypeStep, ChainStep, SignStep DEF TrafficInv
<1> QED
  BY <1>1, <1>2, PTL DEF Spec

\* The ledger, the queue and the clerks keep their types: no balance, bond or
\* nonce is ever negative (applyTx subtracts only what Funds covers, and the
\* parts of a reward never exceed it).
THEOREM TrafficTypes == Spec => []TypeOK
<1>1. TrafficInv => TypeOK
  BY DEF TrafficInv, TypeInv
<1> QED
  BY <1>1, TrafficInvariant, PTL

\* Whatever is sent, bonded and released, the supply is that of genesis and
\* one reward for each block (applyTx, distributeReward).
THEOREM SupplyIsMintedHolds == Spec => []SupplyIsMinted
<1>1. TrafficInv => SupplyIsMinted
  BY DEF TrafficInv, ChainInv
<1> QED
  BY <1>1, TrafficInvariant, PTL

\* What applicable keeps of a batch is a block that Apply accepts.
THEOREM ProposalsApplyHolds == Spec => []ProposalsApply
<1>1. TrafficInv => ProposalsApply
  BY DEF TrafficInv, ChainInv, ProposalsApply
<1> QED
  BY <1>1, TrafficInvariant, PTL

\* No transaction is in two places of the chain, however often it was handed
\* in: the nonce check of applyTx is enough.
THEOREM OnceOnlyHolds == Spec => []OnceOnly
<1>1. TrafficInv => OnceOnly
  <2> SUFFICES ASSUME TrafficInv, NEW x \in Everywhere, NEW y \in Everywhere,
                      SameSlot(blocks[x[1]][x[2]], blocks[y[1]][y[2]])
               PROVE  x = y
    BY DEF OnceOnly, SameSlot
  <2>1. blocks \in Seq(Seq(Transaction))
    BY DEF TrafficInv, TypeInv, TypeOK
  <2>2. DOMAIN blocks = 1..Len(blocks)
        /\ \A i \in 1..Len(blocks) : DOMAIN blocks[i] = 1..Len(blocks[i])
    <3>1. \A i \in 1..Len(blocks) : blocks[i] \in Seq(Transaction)
      BY <2>1
    <3> QED
      BY <2>1, <3>1
  <2>3. PICK i \in 1..Len(blocks) : \E j \in 1..Len(blocks[i]) : x = <<i, j>>
    BY <2>2 DEF Everywhere
  <2>4. PICK j \in 1..Len(blocks[i]) : x = <<i, j>>
    BY <2>3
  <2>5. PICK k \in 1..Len(blocks) : \E l \in 1..Len(blocks[k]) : y = <<k, l>>
    BY <2>2 DEF Everywhere
  <2>6. PICK l \in 1..Len(blocks[k]) : y = <<k, l>>
    BY <2>5
  <2>7. SameSlot(blocks[i][j], blocks[k][l])
    BY <2>4, <2>6
  <2>8. i = k /\ j = l
    BY <2>7 DEF TrafficInv, ChainInv, PastInv
  <2> QED
    BY <2>4, <2>6, <2>8
<1> QED
  BY <1>1, TrafficInvariant, PTL

\* signFromKind never gives out a nonce of a wallet while a transaction that
\* carries it is under way, although clerks hand in without the lock and take
\* nonces back when they are refused.
THEOREM SignedOnceHolds == Spec => []SignedOnce
<1>1. TrafficInv => SignedOnce
  <2> SUFFICES ASSUME TrafficInv PROVE SignedOnce
    OBVIOUS
  <2>1. DOMAIN mempool = 1..Len(mempool)
    BY DEF TrafficInv, TypeInv, TypeOK
  <2>2. ASSUME NEW i \in DOMAIN mempool, NEW j \in DOMAIN mempool,
               mempool[i].from \in Wallets, SameSlot(mempool[i], mempool[j])
        PROVE  i = j
    BY <2>1, <2>2 DEF TrafficInv, SignInv, QueueApart
  <2>3. ASSUME NEW c \in Clerks, desk[c] = "signed"
        PROVE  /\ slip[c].nonce >= state.nonce[slip[c].from]
               /\ \A tx \in Queued : ~SameSlot(tx, slip[c])
               /\ \A d \in Clerks : desk[d] = "signed" /\ SameSlot(slip[d], slip[c]) => c = d
    <3>1. Held(c) /\ \A d \in Clerks : desk[d] = "signed" => Held(d)
      BY <2>3 DEF Held
    <3>2. /\ slip[c].nonce >= state.nonce[slip[c].from]
          /\ \A i \in 1..Len(mempool) : ~SameSlot(mempool[i], slip[c])
          /\ \A d \in Clerks : Held(d) /\ SameSlot(slip[d], slip[c]) => c = d
      BY <3>1 DEF TrafficInv, SignInv, HandsApart
    <3> QED
      BY <2>1, <3>1, <3>2 DEF Queued
  <2> QED
    BY <2>2, <2>3 DEF SignedOnce, SameSlot
<1> QED
  BY <1>1, TrafficInvariant, PTL
=============================================================================
