--------------------------- MODULE Cluster_proofs ---------------------------
(***************************************************************************)
(* Proofs about Cluster and the modules it is made of, for blocks of any   *)
(* sizes, feeds of any lengths, any number of subscribers, crashes and     *)
(* failed writes: every proof made from a tree verifies against its root,  *)
(* the feeds can be proved, the log is a prefix of the chain, nothing that *)
(* was shown is lost with the process, and a restart can only fail over a  *)
(* line that left in two writes.                                           *)
(***************************************************************************)
EXTENDS Cluster, TLAPS, WellFoundedInduction, FiniteSetTheorems, SequenceTheorems

-----------------------------------------------------------------------------
(* Counting *)

LEMMA Least ==
    ASSUME NEW T, T \subseteq Nat, T # {}
    PROVE  \E m \in T : \A y \in T : m <= y
<1>1. IsWellFoundedOn(OpToRel(<, Nat), Nat)
  BY NatLessThanWellFounded
<1>2. PICK m \in T : \A y \in T : ~(<<y, m>> \in OpToRel(<, Nat))
  <2>1. \E x \in T : \A y \in T : ~(<<y, x>> \in OpToRel(<, Nat))
    BY <1>1, WFMin
  <2> QED
    BY <2>1
<1>3. \A y \in T : ~(y < m)
  BY <1>2 DEF OpToRel
<1>4. \A y \in T : m <= y
  BY <1>3
<1> QED
  BY <1>4

\* Induction up to a number, with a set in the place of the predicate.
LEMMA CountUp ==
    ASSUME NEW m \in Nat, NEW B, 0 \in B, \A k \in 1..m : k-1 \in B => k \in B
    PROVE  \A k \in 0..m : k \in B
<1> DEFINE T == {k \in 0..m : k \notin B}
<1>1. SUFFICES ASSUME T # {} PROVE FALSE
  OBVIOUS
<1>2. PICK k \in T : \A y \in T : k <= y
  <2>1. T \subseteq Nat
    OBVIOUS
  <2> HIDE DEF T
  <2> QED
    BY <1>1, <2>1, Least
<1>3. k \in 1..m /\ k-1 \in 0..m /\ k-1 \notin T
  BY <1>2
<1>4. k-1 \in B
  BY <1>3
<1> QED
  BY <1>2, <1>3, <1>4

-----------------------------------------------------------------------------
(* Merkle trees.  A layer is a function on an interval of indices. *)

IsLayer(l, m) == m \in Nat \ {0} /\ l = [i \in 1..m |-> l[i]]

LEMMA LayerLength ==
    ASSUME NEW l, NEW m, IsLayer(l, m)
    PROVE  Len(l) = m /\ DOMAIN l = 1..m /\ m \in Nat /\ m >= 1
<1>1. DOMAIN l = 1..m /\ m \in Nat /\ m >= 1
  BY DEF IsLayer
<1>2. l \in Seq({l[i] : i \in 1..m})
  <2>1. l \in [1..m -> {l[i] : i \in 1..m}]
    BY DEF IsLayer
  <2> QED
    BY <1>1, <2>1, SeqDef
<1> QED
  BY <1>1, <1>2

\* The layer above has half as many nodes, rounded up; the last node of an odd
\* layer is its own partner.
LEMMA NextLayerNodes ==
    ASSUME NEW l, NEW m, IsLayer(l, m), m > 1
    PROVE  /\ IsLayer(NextLayer(l), (m + 1) \div 2)
           /\ (m + 1) \div 2 < m
           /\ \A j \in 1..((m + 1) \div 2) :
                NextLayer(l)[j] = Node(l[2*j - 1], IF 2*j = m + 1 THEN l[m] ELSE l[2*j])
<1> DEFINE e == Even(l)
           h == (m + 1) \div 2
           S == {l[i] : i \in 1..m}
<1>1. m \in Nat /\ m >= 1 /\ Len(l) = m /\ l \in [1..m -> S]
  BY LayerLength DEF IsLayer
<1> HIDE DEF S
<1>2. l \in Seq(S) /\ l[m] \in S
  BY <1>1, SeqDef
<1>3. h \in Nat \ {0} /\ h < m /\ (m % 2 = 0 => m = 2*h) /\ (m % 2 # 0 => m + 1 = 2*h)
  BY <1>1
<1> HIDE DEF h
<1>4. /\ Len(e) = 2*h
      /\ \A i \in 1..(2*h) : e[i] = IF i = m + 1 THEN l[m] ELSE l[i]
  <2>1. CASE m % 2 = 0
    <3>1. e = l
      BY <1>1, <2>1 DEF Even
    <3>2. \A i \in 1..(2*h) : i # m + 1
      BY <1>1, <1>3, <2>1
    <3> QED
      BY <1>1, <1>3, <2>1, <3>1, <3>2
  <2>2. CASE m % 2 # 0
    <3>1. e = Append(l, l[m])
      BY <1>1, <2>2 DEF Even, Last
    <3>2. Len(e) = m + 1 /\ \A i \in 1..(m+1) : e[i] = IF i = m + 1 THEN l[m] ELSE l[i]
      BY <1>1, <1>2, <3>1
    <3> QED
      BY <1>3, <2>2, <3>2
  <2> QED
    BY <2>1, <2>2
<1> HIDE DEF e
<1>5. Len(e) \div 2 = h
  BY <1>3, <1>4
<1>6. NextLayer(l) = [j \in 1..h |-> Node(e[2*j - 1], e[2*j])]
  BY <1>5 DEF NextLayer, e
<1>7. ASSUME NEW j \in 1..h
      PROVE  NextLayer(l)[j] = Node(l[2*j - 1], IF 2*j = m + 1 THEN l[m] ELSE l[2*j])
  <2>1. 2*j - 1 \in 1..(2*h) /\ 2*j \in 1..(2*h) /\ 2*j - 1 # m + 1
    BY <1>1, <1>3
  <2>2. e[2*j - 1] = l[2*j - 1] /\ e[2*j] = IF 2*j = m + 1 THEN l[m] ELSE l[2*j]
    BY <1>4, <2>1
  <2> QED
    BY <1>6, <2>2
<1>8. IsLayer(NextLayer(l), h)
  BY <1>3, <1>6 DEF IsLayer
<1> QED
  BY <1>3, <1>7, <1>8 DEF h

\* One step up the path: the node above is made of the node and its sibling,
\* on the side the parity of the index tells.
LEMMA PathStep ==
    ASSUME NEW l, NEW m, IsLayer(l, m), m > 1, NEW i \in 0..(m-1)
    PROVE  /\ i \div 2 \in 0..((m + 1) \div 2 - 1)
           /\ NextLayer(l)[i \div 2 + 1] =
                IF i % 2 = 0 THEN Node(l[i + 1], Sibling(l, i)) ELSE Node(Sibling(l, i), l[i + 1])
<1> DEFINE h == (m + 1) \div 2
           j == i \div 2
<1>1. m \in Nat /\ Len(l) = m
  BY LayerLength
<1>2. /\ j \in 0..(h-1) /\ i \in Nat /\ h \in Nat
      /\ i % 2 = 0 => i = 2*j
      /\ i % 2 # 0 => i = 2*j + 1 /\ i % 2 = 1
  BY <1>1
<1>3. \A k \in 1..h : NextLayer(l)[k] = Node(l[2*k - 1], IF 2*k = m + 1 THEN l[m] ELSE l[2*k])
  BY NextLayerNodes
<1> HIDE DEF h, j
<1>4. NextLayer(l)[j+1] = Node(l[2*(j+1) - 1], IF 2*(j+1) = m + 1 THEN l[m] ELSE l[2*(j+1)])
  <2>1. j + 1 \in 1..h
    BY <1>2
  <2> QED
    BY <1>3, <2>1
<1>5. CASE i % 2 = 0
  <2>1. i = 2*j /\ 2*(j+1) - 1 = i + 1 /\ 2*(j+1) = i + 2 /\ i % 2 # 1
    BY <1>2, <1>5
  <2>2. Sibling(l, i) = IF i = m - 1 THEN l[i + 1] ELSE l[i + 2]
    BY <1>1, <2>1 DEF Sibling
  <2>3. 2*(j+1) = m + 1 <=> i = m - 1
    BY <1>1, <1>2, <2>1
  <2>4. i = m - 1 => l[i + 1] = l[m]
    BY <1>1
  <2>5. NextLayer(l)[j+1] = Node(l[i+1], IF i = m - 1 THEN l[m] ELSE l[i + 2])
    BY <1>4, <2>1, <2>3
  <2> QED
    BY <1>2, <1>5, <2>2, <2>4, <2>5 DEF h, j
<1>6. CASE i % 2 # 0
  <2>1. i = 2*j + 1 /\ 2*(j+1) - 1 = i /\ 2*(j+1) = i + 1 /\ i + 1 # m + 1 /\ i % 2 = 1
    BY <1>1, <1>2, <1>6
  <2>2. Sibling(l, i) = l[i]
    BY <2>1 DEF Sibling
  <2> QED
    BY <1>2, <1>4, <1>6, <2>1, <2>2 DEF h, j
<1> QED
  BY <1>5, <1>6

\* f holds the layers over txs, from the leaves to the one m steps up.
IsLayers(txs, m, f) ==
    f = [k \in 0..m |->
            IF k = 0 THEN [i \in DOMAIN txs |-> Leaf(txs[i])]
            ELSE IF Len(f[k-1]) <= 1 THEN f[k-1] ELSE NextLayer(f[k-1])]

LEMMA LayersExist ==
    ASSUME NEW txs, NEW m \in Nat
    PROVE  \E f : IsLayers(txs, m, f)
<1> DEFINE leaves == [i \in DOMAIN txs |-> Leaf(txs[i])]
           Up(l)  == IF Len(l) <= 1 THEN l ELSE NextLayer(l)
           B      == {k \in 0..m : \E f : IsLayers(txs, k, f)}
<1>1. 0 \in B
  <2>1. IsLayers(txs, 0, [j \in 0..0 |-> leaves])
    BY DEF IsLayers
  <2> QED
    BY <2>1
<1>2. ASSUME NEW k \in 1..m, k-1 \in B PROVE k \in B
  <2>1. PICK f : IsLayers(txs, k-1, f)
    BY <1>2
  <2> DEFINE g == [j \in 0..k |-> IF j = k THEN Up(f[k-1]) ELSE f[j]]
  <2>2. IsLayers(txs, k, g)
    <3>1. ASSUME NEW j \in 0..k
          PROVE  g[j] = IF j = 0 THEN leaves
                        ELSE IF Len(g[j-1]) <= 1 THEN g[j-1] ELSE NextLayer(g[j-1])
      <4>1. CASE j = k
        <5>1. j # 0 /\ j-1 = k-1 /\ j-1 \in 0..k /\ j-1 # k
          BY <4>1
        <5>2. g[j-1] = f[k-1]
          BY <5>1
        <5>3. g[j] = Up(f[k-1])
          BY <4>1
        <5> QED
          BY <5>1, <5>2, <5>3
      <4>2. CASE j # k
        <5>1. /\ j \in 0..(k-1)
              /\ j # 0 => j-1 \in 0..(k-1) /\ j-1 \in 0..k /\ j-1 # k
          BY <4>2
        <5>2. f[j] = IF j = 0 THEN leaves ELSE Up(f[j-1])
          BY <5>1, <2>1 DEF IsLayers
        <5>3. g[j] = f[j] /\ (j # 0 => g[j-1] = f[j-1])
          BY <4>2, <5>1
        <5> QED
          BY <5>2, <5>3
      <4> QED
        BY <4>1, <4>2
    <3> QED
      BY <3>1, Zenon DEF IsLayers
  <2> QED
    BY <2>2
<1>3. m \in B
  <2> HIDE DEF B
  <2>1. \A k \in 0..m : k \in B
    BY <1>1, <1>2, CountUp
  <2> QED
    BY <2>1
<1> QED
  BY <1>3

LEMMA LayersStep ==
    ASSUME NEW txs, Len(txs) \in Nat
    PROVE  /\ DOMAIN Layers(txs) = 0..Len(txs)
           /\ Layers(txs)[0] = [i \in DOMAIN txs |-> Leaf(txs[i])]
           /\ \A k \in 1..Len(txs) : Layers(txs)[k] =
                IF Len(Layers(txs)[k-1]) <= 1 THEN Layers(txs)[k-1]
                ELSE NextLayer(Layers(txs)[k-1])
<1> DEFINE f == CHOOSE f : IsLayers(txs, Len(txs), f)
<1>1. IsLayers(txs, Len(txs), f)
  BY LayersExist
<1>2. Layers(txs) = f
  BY DEF Layers, IsLayers
<1> HIDE DEF f
<1>3. f[0] = [i \in DOMAIN txs |-> Leaf(txs[i])] /\ DOMAIN f = 0..Len(txs)
  BY <1>1 DEF IsLayers
<1>4. \A k \in 1..Len(txs) :
        f[k] = IF Len(f[k-1]) <= 1 THEN f[k-1] ELSE NextLayer(f[k-1])
  BY <1>1 DEF IsLayers
<1> QED
  BY <1>2, <1>3, <1>4

\* f holds i, halved 0, 1, ..., m times.
IsHalved(i, m, f) == f = [k \in 0..m |-> IF k = 0 THEN i ELSE f[k-1] \div 2]

LEMMA HalvedExists ==
    ASSUME NEW i \in Nat, NEW m \in Nat
    PROVE  \E f : IsHalved(i, m, f)
<1> DEFINE B == {k \in 0..m : \E f : IsHalved(i, k, f)}
<1>1. 0 \in B
  <2>1. IsHalved(i, 0, [j \in 0..0 |-> i])
    BY DEF IsHalved
  <2> QED
    BY <2>1
<1>2. ASSUME NEW k \in 1..m, k-1 \in B PROVE k \in B
  <2>1. PICK f : IsHalved(i, k-1, f)
    BY <1>2
  <2> DEFINE g == [j \in 0..k |-> IF j = k THEN f[k-1] \div 2 ELSE f[j]]
  <2>2. IsHalved(i, k, g)
    <3>1. ASSUME NEW j \in 0..k PROVE g[j] = IF j = 0 THEN i ELSE g[j-1] \div 2
      <4>1. CASE j = k
        <5>1. j # 0 /\ j-1 = k-1 /\ j-1 \in 0..k /\ j-1 # k
          BY <4>1
        <5> QED
          BY <4>1, <5>1
      <4>2. CASE j # k
        <5>1. /\ j \in 0..(k-1)
              /\ j # 0 => j-1 \in 0..(k-1) /\ j-1 \in 0..k /\ j-1 # k
          BY <4>2
        <5>2. f[j] = IF j = 0 THEN i ELSE f[j-1] \div 2
          BY <5>1, <2>1 DEF IsHalved
        <5>3. g[j] = f[j] /\ (j # 0 => g[j-1] = f[j-1])
          BY <4>2, <5>1
        <5> QED
          BY <5>2, <5>3
      <4> QED
        BY <4>1, <4>2
    <3> QED
      BY <3>1, Zenon DEF IsHalved
  <2> QED
    BY <2>2
<1>3. m \in B
  <2> HIDE DEF B
  <2>1. \A k \in 0..m : k \in B
    BY <1>1, <1>2, CountUp
  <2> QED
    BY <2>1
<1> QED
  BY <1>3

LEMMA HalvedStep ==
    ASSUME NEW i \in Nat, NEW m \in Nat
    PROVE  /\ Halved(i, m)[0] = i
           /\ \A k \in 1..m : Halved(i, m)[k] = Halved(i, m)[k-1] \div 2
<1> DEFINE f == CHOOSE f : IsHalved(i, m, f)
<1>1. IsHalved(i, m, f)
  BY HalvedExists
<1>2. Halved(i, m) = f
  BY DEF Halved, IsHalved
<1> HIDE DEF f
<1>3. f[0] = i /\ \A k \in 1..m : f[k] = f[k-1] \div 2
  BY <1>1 DEF IsHalved
<1> QED
  BY <1>2, <1>3

\* f holds what the fold of verifyMerkleProof has come to after 0, 1, ..., m
\* siblings.
IsFold(leaf, index, proof, m, f) ==
    f = [k \in 0..m |->
            IF k = 0 THEN leaf
            ELSE IF index[k-1] % 2 = 0 THEN Node(f[k-1], proof[k])
            ELSE Node(proof[k], f[k-1])]

LEMMA FoldExists ==
    ASSUME NEW leaf, NEW index, NEW proof, NEW m \in Nat
    PROVE  \E f : IsFold(leaf, index, proof, m, f)
<1> DEFINE Up(k, x) == IF index[k-1] % 2 = 0 THEN Node(x, proof[k]) ELSE Node(proof[k], x)
           B        == {k \in 0..m : \E f : IsFold(leaf, index, proof, k, f)}
<1>1. 0 \in B
  <2>1. IsFold(leaf, index, proof, 0, [j \in 0..0 |-> leaf])
    BY DEF IsFold
  <2> QED
    BY <2>1
<1>2. ASSUME NEW k \in 1..m, k-1 \in B PROVE k \in B
  <2>1. PICK f : IsFold(leaf, index, proof, k-1, f)
    BY <1>2
  <2> DEFINE g == [j \in 0..k |-> IF j = k THEN Up(k, f[k-1]) ELSE f[j]]
  <2>2. IsFold(leaf, index, proof, k, g)
    <3>1. ASSUME NEW j \in 0..k
          PROVE  g[j] = IF j = 0 THEN leaf
                        ELSE IF index[j-1] % 2 = 0 THEN Node(g[j-1], proof[j])
                        ELSE Node(proof[j], g[j-1])
      <4>1. CASE j = k
        <5>1. j # 0 /\ j-1 = k-1 /\ j-1 \in 0..k /\ j-1 # k
          BY <4>1
        <5>2. g[j-1] = f[k-1]
          BY <5>1
        <5>3. g[j] = Up(k, f[k-1])
          BY <4>1
        <5> QED
          BY <4>1, <5>1, <5>2, <5>3
      <4>2. CASE j # k
        <5>1. /\ j \in 0..(k-1)
              /\ j # 0 => j-1 \in 0..(k-1) /\ j-1 \in 0..k /\ j-1 # k
          BY <4>2
        <5>2. f[j] = IF j = 0 THEN leaf ELSE Up(j, f[j-1])
          BY <5>1, <2>1 DEF IsFold
        <5>3. g[j] = f[j] /\ (j # 0 => g[j-1] = f[j-1])
          BY <4>2, <5>1
        <5> QED
          BY <5>2, <5>3
      <4> QED
        BY <4>1, <4>2
    <3> QED
      BY <3>1, Zenon DEF IsFold
  <2> QED
    BY <2>2
<1>3. m \in B
  <2> HIDE DEF B
  <2>1. \A k \in 0..m : k \in B
    BY <1>1, <1>2, CountUp
  <2> QED
    BY <2>1
<1> QED
  BY <1>3

\* A proof verifies when some such fold ends in the root.
LEMMA VerifyFold ==
    ASSUME NEW leaf, NEW i, NEW proof, NEW root, NEW m \in Nat, m = Len(proof),
           \A f : IsFold(leaf, Halved(i, m), proof, m, f) => f[m] = root
    PROVE  Verify(leaf, i, proof, root)
<1> DEFINE f == CHOOSE f : IsFold(leaf, Halved(i, m), proof, m, f)
<1>1. IsFold(leaf, Halved(i, m), proof, m, f)
  BY FoldExists
<1>2. Verify(leaf, i, proof, root) <=> f[m] = root
  BY DEF Verify, IsFold
<1> HIDE DEF f
<1> QED
  BY <1>1, <1>2

\* The layers halve until one hash is left, h steps up, and stay as they are.
LEMMA TreeShape ==
    ASSUME NEW S, NEW txs \in Seq(S), txs # <<>>
    PROVE  \E h \in 0..Len(txs) :
             LET layer == Layers(txs)
             IN  /\ \A k \in 0..Len(txs) : IsLayer(layer[k], Len(layer[k]))
                 /\ \A k \in 0..h : k < h => Len(layer[k]) > 1 /\ layer[k+1] = NextLayer(layer[k])
                 /\ Len(layer[h]) = 1
                 /\ layer[Len(txs)] = layer[h]
                 /\ {k \in DOMAIN layer : Len(layer[k]) > 1} = 0..(h-1)
<1> DEFINE layer == Layers(txs)
           n == Len(txs)
<1>1. n \in Nat /\ n >= 1 /\ DOMAIN txs = 1..n
  BY EmptySeq
<1>2. /\ DOMAIN layer = 0..n
      /\ layer[0] = [i \in 1..n |-> Leaf(txs[i])]
      /\ \A k \in 1..n : layer[k] = IF Len(layer[k-1]) <= 1 THEN layer[k-1]
                                      ELSE NextLayer(layer[k-1])
  BY <1>1, LayersStep
<1> HIDE DEF layer, n
<1>3. \A k \in 0..n : /\ IsLayer(layer[k], Len(layer[k]))
                       /\ (Len(layer[k]) = 1 \/ Len(layer[k]) <= n - k)
  <2> DEFINE B == {k \in 0..n : /\ IsLayer(layer[k], Len(layer[k]))
                                /\ (Len(layer[k]) = 1 \/ Len(layer[k]) <= n - k)}
  <2>1. 0 \in B
    <3>1. IsLayer(layer[0], n)
      BY <1>1, <1>2 DEF IsLayer
    <3>2. Len(layer[0]) = n
      BY <3>1, LayerLength
    <3> QED
      BY <1>1, <3>1, <3>2
  <2>2. ASSUME NEW k \in 1..n, k-1 \in B PROVE k \in B
    <3>1. /\ IsLayer(layer[k-1], Len(layer[k-1]))
          /\ (Len(layer[k-1]) = 1 \/ Len(layer[k-1]) <= n - (k-1))
      BY <2>2
    <3>2. PICK l, m : l = layer[k-1] /\ m = Len(layer[k-1])
      OBVIOUS
    <3>3. IsLayer(l, m) /\ (m = 1 \/ m <= n - (k-1)) /\ m = Len(l)
      BY <3>1, <3>2
    <3>4. m \in Nat /\ m >= 1
      BY <3>3, LayerLength
    <3>5. layer[k] = IF m <= 1 THEN l ELSE NextLayer(l)
      BY <1>2, <3>2
    <3>6. CASE m <= 1
      <4>1. layer[k] = l /\ m = 1 /\ Len(l) = 1
        BY <3>3, <3>4, <3>5, <3>6
      <4>2. IsLayer(layer[k], Len(layer[k])) /\ Len(layer[k]) = 1
        BY <3>3, <4>1
      <4>3. k \in 0..n
        BY <1>1
      <4> QED
        BY <4>2, <4>3, Zenon
    <3>7. CASE m > 1
      <4>1. IsLayer(NextLayer(l), (m + 1) \div 2) /\ (m + 1) \div 2 < m
        BY <3>3, <3>7, NextLayerNodes
      <4>2. PICK x, y : x = NextLayer(l) /\ y = (m + 1) \div 2
        OBVIOUS
      <4>3. Len(x) = y /\ y \in Nat /\ y < m
        BY <4>1, <4>2, LayerLength
      <4>4. layer[k] = x /\ IsLayer(x, y)
        BY <3>4, <3>5, <3>7, <4>1, <4>2
      <4> QED
        BY <1>1, <3>3, <3>4, <3>7, <4>3, <4>4
    <3> QED
      BY <3>4, <3>6, <3>7
  <2>3. \A k \in 0..n : k \in B
    <3> HIDE DEF B
    <3> QED
      BY <1>1, <2>1, <2>2, CountUp
  <2> QED
    BY <2>3
<1>4. \A k \in 0..n : Len(layer[k]) \in Nat /\ Len(layer[k]) >= 1
  <2> SUFFICES ASSUME NEW k \in 0..n PROVE Len(layer[k]) \in Nat /\ Len(layer[k]) >= 1
    OBVIOUS
  <2>1. IsLayer(layer[k], Len(layer[k]))
    BY <1>3
  <2> QED
    BY <2>1, LayerLength
<1> DEFINE T == {k \in 0..n : Len(layer[k]) = 1}
<1>5. n \in T
  BY <1>1, <1>3, <1>4
<1>6. PICK h \in T : \A k \in T : h <= k
  <2>1. T \subseteq Nat
    OBVIOUS
  <2> HIDE DEF T
  <2> QED
    BY <1>5, <2>1, Least
<1>7. h \in 0..n /\ h \in Nat /\ Len(layer[h]) = 1
  BY <1>1, <1>6
<1>8. \A k \in 0..n : k < h => Len(layer[k]) > 1
  <2>1. ASSUME NEW k \in 0..n, k < h PROVE Len(layer[k]) # 1
    BY <1>1, <1>6, <2>1
  <2>2. ASSUME NEW l \in Nat, l >= 1, l # 1 PROVE l > 1
    BY <2>2
  <2> HIDE DEF T
  <2> QED
    BY <1>4, <2>1, <2>2
<1> HIDE DEF T
<1>9. \A k \in 0..n : k >= h => layer[k] = layer[h]
  <2> DEFINE B == {k \in 0..n : k >= h => layer[k] = layer[h]}
  <2>1. 0 \in B
    BY <1>1, <1>7
  <2>2. ASSUME NEW k \in 1..n, k-1 \in B PROVE k \in B
    <3>1. CASE k > h
      <4>1. layer[k-1] = layer[h]
        BY <1>7, <2>2, <3>1
      <4> QED
        <5>1. layer[k] = layer[k-1]
          <6>1. Len(layer[k-1]) = 1
            BY <1>7, <4>1, Zenon
          <6>2. \A l : l = 1 => l <= 1
            OBVIOUS
          <6>3. Len(layer[k-1]) <= 1
            BY <6>1, <6>2, Zenon
          <6> QED
            BY <1>2, <6>3, Zenon
        <5> QED
          BY <4>1, <5>1
    <3>2. CASE k <= h
      BY <1>7, <3>2
    <3> QED
      BY <1>7, <3>1, <3>2
  <2>3. \A k \in 0..n : k \in B
    <3> HIDE DEF B
    <3> QED
      BY <1>1, <2>1, <2>2, CountUp
  <2> QED
    BY <2>3
<1>10. \A k \in 0..h : k < h => Len(layer[k]) > 1 /\ layer[k+1] = NextLayer(layer[k])
  <2> SUFFICES ASSUME NEW k \in 0..h, k < h
               PROVE  Len(layer[k]) > 1 /\ layer[k+1] = NextLayer(layer[k])
    OBVIOUS
  <2>1. k \in 0..n /\ k + 1 \in 1..n /\ (k + 1) - 1 = k
    BY <1>1, <1>7
  <2>2. Len(layer[k]) > 1 /\ ~(Len(layer[k]) <= 1)
    BY <1>4, <1>8, <2>1
  <2> QED
    BY <1>2, <2>1, <2>2
<1>11. {k \in DOMAIN layer : Len(layer[k]) > 1} = 0..(h-1)
  <2>1. \A k \in 0..n : Len(layer[k]) > 1 <=> k < h
    <3>1. \A k \in 0..n : k >= h => ~(Len(layer[k]) > 1)
      <4>1. \A k \in 0..n : k >= h => Len(layer[k]) = 1
        BY <1>7, <1>9, Zenon
      <4>2. \A l : l = 1 => ~(l > 1)
        OBVIOUS
      <4> QED
        BY <4>1, <4>2, Zenon
    <3> QED
      BY <1>1, <1>7, <1>8, <3>1
  <2> QED
    BY <1>1, <1>2, <1>7, <2>1
<1>12. layer[n] = layer[h]
  BY <1>1, <1>7, <1>9
<1> QED
  BY <1>3, <1>7, <1>10, <1>11, <1>12 DEF layer, n

\* Every proof made from a tree verifies against its root.
THEOREM ProofsVerify ==
    ASSUME NEW S, NEW txs \in Seq(S), NEW i \in 0..(Len(txs) - 1)
    PROVE  Verify(Leaf(txs[i+1]), i, Proof(txs, i), Root(txs))
<1> DEFINE layer == Layers(txs)
           n == Len(txs)
           index == Halved(i, n)
           below == {k \in DOMAIN layer : Len(layer[k]) > 1}
<1>1. n \in Nat /\ n >= 1 /\ DOMAIN txs = 1..n /\ i \in Nat /\ txs # <<>>
  BY EmptySeq
<1>2. PICK h \in 0..n :
        /\ \A k \in 0..n : IsLayer(layer[k], Len(layer[k]))
        /\ \A k \in 0..h : k < h => Len(layer[k]) > 1 /\ layer[k+1] = NextLayer(layer[k])
        /\ Len(layer[h]) = 1
        /\ layer[n] = layer[h]
        /\ below = 0..(h-1)
  BY <1>1, TreeShape
<1>3. layer[0] = [k \in 1..n |-> Leaf(txs[k])]
  BY <1>1, LayersStep
<1>4. Cardinality(below) = h
  <2>1. below = 0..(h-1) /\ h \in Nat
    BY <1>1, <1>2
  <2>2. Cardinality(0..(h-1)) = IF 0 > h-1 THEN 0 ELSE (h-1) - 0 + 1
    BY <2>1, FS_Interval
  <2> HIDE DEF below
  <2> QED
    BY <2>1, <2>2
<1>5. Proof(txs, i) = [k \in 1..h |-> Sibling(layer[k-1], index[k-1])]
  BY <1>4 DEF Proof
<1>6. Root(txs) = layer[h][1]
  BY <1>1, <1>2 DEF Root
<1>7. /\ index[0] = i
      /\ \A k \in 1..n : index[k] = index[k-1] \div 2
  BY <1>1, HalvedStep
<1> DEFINE path == Halved(i, h)
           proof == Proof(txs, i)
<1>8. /\ path[0] = i
      /\ \A k \in 1..h : path[k] = path[k-1] \div 2
  BY <1>1, HalvedStep
<1> HIDE DEF layer, n, index, below, path, proof
<1>9. h \in Nat /\ proof = [k \in 1..h |-> Sibling(layer[k-1], index[k-1])]
  BY <1>1, <1>5 DEF proof
<1>10. Len(proof) = h
  <2>1. proof \in [1..h -> {proof[k] : k \in 1..h}]
    BY <1>9
  <2>2. PICK Q : Q = {proof[k] : k \in 1..h}
    OBVIOUS
  <2>3. proof \in [1..h -> Q]
    BY <2>1, <2>2
  <2>4. proof \in Seq(Q)
    BY <1>9, <2>3, SeqDef
  <2> QED
    BY <1>9, <2>3, <2>4
<1>11. SUFFICES ASSUME NEW f, IsFold(Leaf(txs[i+1]), path, proof, h, f)
                PROVE  f[h] = layer[h][1]
  BY <1>6, <1>9, <1>10, VerifyFold DEF path, proof
<1>12. /\ f[0] = Leaf(txs[i+1])
       /\ \A k \in 1..h : f[k] = IF path[k-1] % 2 = 0 THEN Node(f[k-1], proof[k])
                                  ELSE Node(proof[k], f[k-1])
  <2>1. \A k \in 0..h : f[k] = IF k = 0 THEN Leaf(txs[i+1])
                               ELSE IF path[k-1] % 2 = 0 THEN Node(f[k-1], proof[k])
                               ELSE Node(proof[k], f[k-1])
    BY <1>11, Zenon DEF IsFold
  <2>2. 0 \in 0..h /\ \A k \in 1..h : k \in 0..h /\ k # 0
    BY <1>9
  <2> QED
    BY <2>1, <2>2, Zenon
<1> DEFINE At(k) == /\ index[k] = path[k] /\ path[k] \in 0..(Len(layer[k]) - 1)
                    /\ f[k] = layer[k][path[k] + 1]
           B == {k \in 0..h : At(k)}
<1>13. 0 \in B
  <2>1. Len(layer[0]) = n
    <3>1. IsLayer(layer[0], n)
      BY <1>1, <1>3 DEF IsLayer
    <3> QED
      BY <3>1, LayerLength
  <2>2. i \in 0..(n-1) /\ i + 1 \in 1..n
    BY <1>1 DEF n
  <2>3. layer[0][i+1] = Leaf(txs[i+1])
    BY <1>3, <2>2
  <2> QED
    BY <1>7, <1>8, <1>9, <1>12, <2>1, <2>2, <2>3
<1>14. ASSUME NEW k \in 1..h, k-1 \in B PROVE k \in B
  <2>1. PICK l, m, j : l = layer[k-1] /\ m = Len(layer[k-1]) /\ j = path[k-1]
    OBVIOUS
  <2>2. k-1 \in 0..h /\ k-1 < h /\ k-1 \in 0..n /\ k \in 1..n /\ k \in 0..n /\ (k-1) + 1 = k
    BY <1>1, <1>2, <1>9
  <2>3. IsLayer(l, m) /\ m > 1 /\ layer[k] = NextLayer(l)
    BY <1>2, <2>1, <2>2
  <2>4. m \in Nat
    BY <2>3 DEF IsLayer
  <2>5. j \in 0..(m-1) /\ index[k-1] = j /\ f[k-1] = l[j+1]
    BY <1>14, <2>1
  <2>6. /\ j \div 2 \in 0..((m + 1) \div 2 - 1)
        /\ NextLayer(l)[j \div 2 + 1] =
             IF j % 2 = 0 THEN Node(l[j + 1], Sibling(l, j)) ELSE Node(Sibling(l, j), l[j + 1])
    BY <2>3, <2>5, PathStep
  <2>7. proof[k] = Sibling(l, j)
    BY <1>9, <2>1, <2>5
  <2>8. f[k] = IF j % 2 = 0 THEN Node(l[j+1], Sibling(l, j)) ELSE Node(Sibling(l, j), l[j+1])
    BY <1>12, <2>1, <2>5, <2>7
  <2>9. index[k] = j \div 2 /\ path[k] = j \div 2
    BY <1>7, <1>8, <2>1, <2>2, <2>5
  <2>10. Len(layer[k]) = (m + 1) \div 2
    <3>1. IsLayer(NextLayer(l), (m + 1) \div 2)
      BY <2>3, NextLayerNodes
    <3>2. PICK x, y : x = NextLayer(l) /\ y = (m + 1) \div 2
      OBVIOUS
    <3> QED
      BY <2>3, <3>1, <3>2, LayerLength
  <2> QED
    BY <2>2, <2>3, <2>6, <2>8, <2>9, <2>10
<1>15. \A k \in 0..h : k \in B
  <2> HIDE DEF B
  <2> QED
    BY <1>9, <1>13, <1>14, CountUp
<1>16. At(h)
  BY <1>9, <1>15
<1> QED
  BY <1>2, <1>16

-----------------------------------------------------------------------------
(* The log.  A file over a set of blocks is a sequence of pieces. *)

Pieces(S) == {Newline, Partial} \cup {Line(b) : b \in S}

LEMMA PieceKinds ==
    ASSUME NEW S, NEW x \in Pieces(S)
    PROVE  /\ x.piece \in {"block", "newline", "part"}
           /\ x.piece = "block" => x.block \in S /\ x = Line(x.block)
           /\ x.piece # "block" => x \in {Newline, Partial}
  BY DEF Pieces, Newline, Partial, Line

\* f holds what has been read after 0, 1, ..., m pieces.
IsRead(file1, m, f) ==
    f = [i \in 0..m |->
            IF i = 0 THEN <<>>
            ELSE IF file1[i].piece = "block" THEN Append(f[i-1], file1[i].block)
            ELSE f[i-1]]

LEMMA ReadExists ==
    ASSUME NEW file1, NEW m \in Nat
    PROVE  \E f : IsRead(file1, m, f)
<1> DEFINE Up(k, x) == IF file1[k].piece = "block" THEN Append(x, file1[k].block) ELSE x
           B        == {k \in 0..m : \E f : IsRead(file1, k, f)}
<1>1. 0 \in B
  <2>1. IsRead(file1, 0, [j \in 0..0 |-> <<>>])
    BY DEF IsRead
  <2> QED
    BY <2>1
<1>2. ASSUME NEW k \in 1..m, k-1 \in B PROVE k \in B
  <2>1. PICK f : IsRead(file1, k-1, f)
    BY <1>2
  <2> DEFINE g == [j \in 0..k |-> IF j = k THEN Up(k, f[k-1]) ELSE f[j]]
  <2>2. IsRead(file1, k, g)
    <3>1. ASSUME NEW j \in 0..k
          PROVE  g[j] = IF j = 0 THEN <<>>
                        ELSE IF file1[j].piece = "block" THEN Append(g[j-1], file1[j].block)
                        ELSE g[j-1]
      <4>1. CASE j = k
        <5>1. j # 0 /\ j-1 = k-1 /\ j-1 \in 0..k /\ j-1 # k
          BY <4>1
        <5>2. g[j-1] = f[k-1]
          BY <5>1
        <5>3. g[j] = Up(k, f[k-1])
          BY <4>1
        <5> HIDE DEF g
        <5> QED
          BY <4>1, <5>1, <5>2, <5>3
      <4>2. CASE j # k
        <5>1. /\ j \in 0..(k-1)
              /\ j # 0 => j-1 \in 0..(k-1) /\ j-1 \in 0..k /\ j-1 # k
          BY <4>2
        <5>2. f[j] = IF j = 0 THEN <<>> ELSE Up(j, f[j-1])
          BY <5>1, <2>1 DEF IsRead
        <5>3. g[j] = f[j] /\ (j # 0 => g[j-1] = f[j-1])
          BY <4>2, <5>1
        <5> HIDE DEF g
        <5> QED
          BY <5>2, <5>3
      <4> QED
        BY <4>1, <4>2
    <3> QED
      BY <3>1, Zenon DEF IsRead
  <2> QED
    BY <2>2
<1>3. m \in B
  <2> HIDE DEF B
  <2>1. \A k \in 0..m : k \in B
    BY <1>1, <1>2, CountUp
  <2> QED
    BY <2>1
<1> QED
  BY <1>3

\* What the reader of a file has read, piece by piece.
ReadOf(file1) == CHOOSE f : IsRead(file1, Len(file1), f)

LEMMA ReadStep ==
    ASSUME NEW file1, Len(file1) \in Nat
    PROVE  /\ Blocks(file1) = ReadOf(file1)[Len(file1)]
           /\ ReadOf(file1)[0] = <<>>
           /\ \A i \in 1..Len(file1) : ReadOf(file1)[i] =
                IF file1[i].piece = "block" THEN Append(ReadOf(file1)[i-1], file1[i].block)
                ELSE ReadOf(file1)[i-1]
<1> DEFINE f == ReadOf(file1)
<1>1. IsRead(file1, Len(file1), f)
  BY ReadExists DEF ReadOf
<1>2. Blocks(file1) = f[Len(file1)]
  BY DEF Blocks, ReadOf, IsRead
<1> HIDE DEF f
<1>3. f[0] = <<>>
  BY <1>1 DEF IsRead
<1>4. \A i \in 1..Len(file1) :
        f[i] = IF file1[i].piece = "block" THEN Append(f[i-1], file1[i].block) ELSE f[i-1]
  <2>1. \A i \in 0..Len(file1) :
          f[i] = IF i = 0 THEN <<>>
                 ELSE IF file1[i].piece = "block" THEN Append(f[i-1], file1[i].block)
                 ELSE f[i-1]
    BY <1>1, Zenon DEF IsRead
  <2>2. \A i \in 1..Len(file1) : i \in 0..Len(file1) /\ i # 0
    OBVIOUS
  <2> QED
    BY <2>1, <2>2, Zenon
<1> QED
  BY <1>2, <1>3, <1>4 DEF f

\* What is appended to a file does not change what was read before it.
LEMMA BlocksAppend ==
    ASSUME NEW T, NEW file1 \in Seq(T), NEW x \in T
    PROVE  Blocks(Append(file1, x)) =
             IF x.piece = "block" THEN Append(Blocks(file1), x.block) ELSE Blocks(file1)
<1> DEFINE n == Len(file1)
<1>1. PICK more : more = Append(file1, x)
  OBVIOUS
<1>2. /\ n \in Nat /\ Len(more) = n + 1 /\ more[n+1] = x
      /\ \A i \in 1..n : more[i] = file1[i]
  BY <1>1
<1> DEFINE f == ReadOf(file1)
           g == ReadOf(more)
           B == {i \in 0..n : g[i] = f[i]}
<1> HIDE DEF n
<1>3. /\ Blocks(file1) = f[n] /\ f[0] = <<>>
      /\ \A i \in 1..n : f[i] =
            IF file1[i].piece = "block" THEN Append(f[i-1], file1[i].block) ELSE f[i-1]
  BY <1>2, ReadStep DEF n
<1>4. /\ Blocks(more) = g[n+1] /\ g[0] = <<>>
      /\ \A i \in 1..(n+1) : g[i] =
            IF more[i].piece = "block" THEN Append(g[i-1], more[i].block) ELSE g[i-1]
  BY <1>2, ReadStep
<1> HIDE DEF f, g
<1>5. 0 \in B
  BY <1>2, <1>3, <1>4
<1>6. ASSUME NEW i \in 1..n, i-1 \in B PROVE i \in B
  <2>1. i \in 1..(n+1) /\ i \in 0..n /\ more[i] = file1[i] /\ g[i-1] = f[i-1]
    BY <1>2, <1>6
  <2> QED
    BY <1>3, <1>4, <2>1
<1>7. \A i \in 0..n : i \in B
  <2> HIDE DEF B
  <2> QED
    BY <1>2, <1>5, <1>6, CountUp
<1>8. g[n] = f[n] /\ n+1 \in 1..(n+1) /\ (n+1) - 1 = n
  BY <1>2, <1>7
<1>9. g[n+1] = IF x.piece = "block" THEN Append(f[n], x.block) ELSE f[n]
  BY <1>2, <1>4, <1>8
<1> QED
  BY <1>1, <1>3, <1>4, <1>9

LEMMA BlocksOfEmpty == Blocks(<<>>) = <<>>
  BY ReadStep

\* The blocks of a file are those of its pieces, and there is one when there is
\* a piece that holds one.
LEMMA BlocksTypes ==
    ASSUME NEW S, NEW file1 \in Seq(Pieces(S))
    PROVE  /\ Blocks(file1) \in Seq(S)
           /\ file1 # <<>> /\ file1[1].piece = "block" => Blocks(file1) # <<>>
<1> DEFINE n == Len(file1)
           f == ReadOf(file1)
           B == {i \in 0..n : /\ f[i] \in Seq(S)
                              /\ i > 0 /\ file1[1].piece = "block" => Len(f[i]) > 0}
<1>1. n \in Nat /\ (file1 # <<>> => n > 0) /\ \A i \in 1..n : file1[i] \in Pieces(S)
  OBVIOUS
<1> HIDE DEF n
<1>2. /\ Blocks(file1) = f[n] /\ f[0] = <<>>
      /\ \A i \in 1..n : f[i] =
            IF file1[i].piece = "block" THEN Append(f[i-1], file1[i].block) ELSE f[i-1]
  BY <1>1, ReadStep DEF n
<1> HIDE DEF f
<1>3. 0 \in B
  <2>1. 0 \in 0..n /\ ~(0 > 0) /\ f[0] \in Seq(S)
    BY <1>1, <1>2
  <2> QED
    BY <2>1, Zenon
<1>4. ASSUME NEW i \in 1..n, i-1 \in B PROVE i \in B
  <2>1. /\ f[i-1] \in Seq(S) /\ i \in 0..n /\ i - 1 \in 0..n
        /\ i - 1 > 0 /\ file1[1].piece = "block" => Len(f[i-1]) > 0
    BY <1>1, <1>4
  <2>2. f[i] = IF file1[i].piece = "block" THEN Append(f[i-1], file1[i].block) ELSE f[i-1]
    BY <1>2
  <2>3. CASE file1[i].piece = "block"
    <3>1. file1[i].block \in S
      BY <1>1, <2>3, PieceKinds
    <3>2. f[i] \in Seq(S) /\ Len(f[i]) > 0
      BY <2>1, <2>2, <2>3, <3>1
    <3> QED
      BY <2>1, <3>2
  <2>4. CASE file1[i].piece # "block"
    <3>1. f[i] = f[i-1]
      BY <2>2, <2>4
    <3>2. file1[1].piece = "block" => i - 1 > 0
      BY <2>4
    <3> QED
      BY <2>1, <3>1, <3>2
  <2> QED
    BY <2>3, <2>4
<1>5. \A i \in 0..n : i \in B
  <2> HIDE DEF B
  <2> QED
    BY <1>1, <1>3, <1>4, CountUp
<1>6. f[n] \in Seq(S) /\ (n > 0 /\ file1[1].piece = "block" => Len(f[n]) > 0)
  BY <1>1, <1>5
<1> QED
  BY <1>1, <1>2, <1>6

\* What a machine crash leaves of a file is a file that begins as it did, or
\* with a part of a line.
LEMMA SurvivorTypes ==
    ASSUME NEW S, NEW file1 \in Seq(Pieces(S)), NEW file2 \in Survivors(file1)
    PROVE  /\ file2 \in Seq(Pieces(S))
           /\ file2 # <<>> => file2[1] = Partial \/ (file1 # <<>> /\ file2[1] = file1[1])
<1>1. Partial \in Pieces(S)
  BY DEF Pieces
<1>2. PICK k \in 0..Len(file1) :
        file2 = SubSeq(file1, 1, k) \/ file2 = Append(SubSeq(file1, 1, k), Partial)
  <2>1. \/ \E k \in 0..Len(file1) : file2 = SubSeq(file1, 1, k)
        \/ \E k \in 0..(Len(file1)-1) : file2 = Append(SubSeq(file1, 1, k), Partial)
    BY DEF Survivors
  <2>2. \A k \in 0..(Len(file1)-1) : k \in 0..Len(file1)
    OBVIOUS
  <2> QED
    BY <2>1, <2>2, Zenon
<1>3. PICK cut : cut = SubSeq(file1, 1, k)
  OBVIOUS
<1>4. /\ cut \in Seq(Pieces(S)) /\ Len(cut) = k /\ k \in Nat
      /\ k > 0 => file1 # <<>> /\ cut[1] = file1[1]
  <2>1. \A i \in 1..k : file1[i] \in Pieces(S)
    OBVIOUS
  <2>2. /\ cut \in Seq(Pieces(S)) /\ Len(cut) = IF 1 <= k THEN k - 1 + 1 ELSE 0
        /\ \A i \in 1..(k-1+1) : cut[i] = file1[1+i-1]
    BY <1>3, <2>1, SubSeqProperties
  <2> QED
    BY <2>2
<1> HIDE DEF Pieces
<1>5. CASE file2 = cut
  BY <1>4, <1>5
<1>6. CASE file2 = Append(cut, Partial)
  <2>1. file2 \in Seq(Pieces(S)) /\ file2[1] = IF k = 0 THEN Partial ELSE cut[1]
    BY <1>1, <1>4, <1>6
  <2> QED
    BY <1>4, <2>1
<1> QED
  BY <1>2, <1>3, <1>5, <1>6

-----------------------------------------------------------------------------
(* The feeds *)

ChainBlocks ==
    {b \in [height : Nat \ {0}, proposer : Proposers, txs : Seq(Nat \X Nat)] :
        \E s \in Sizes : b.txs = [i \in 1..s |-> <<b.height, i>>]}

IsChain(c) == c \in Seq(ChainBlocks) /\ \A i \in 1..Len(c) : c[i].height = i

Infos   == [height : Nat, proposer : Proposers, txs : Nat]
Entries == [tx : Nat \X Nat, height : Nat]
Views   == [height : Nat, proposed : [Proposers -> Nat], recent : Seq(Infos),
            txs : Seq(Entries), fullBlocks : Seq(ChainBlocks)]

LEMMA NewestParts ==
    ASSUME NEW S, NEW s \in Seq(S), NEW k \in Nat \ {0}
    PROVE  /\ Newest(s, k) \in Seq(S)
           /\ Len(Newest(s, k)) = IF Len(s) > k THEN k ELSE Len(s)
           /\ \A j \in 1..Len(Newest(s, k)) :
                /\ Newest(s, k)[j] = s[Len(s) - Len(Newest(s, k)) + j]
                /\ Len(s) - Len(Newest(s, k)) + j \in 1..Len(s)
<1>1. Len(s) \in Nat /\ \A i \in 1..Len(s) : s[i] \in S
  OBVIOUS
<1>2. CASE Len(s) > k
  <2> DEFINE m == Len(s) - k + 1
             n == Len(s)
  <2>1. m \in Int /\ n \in Int /\ m <= n /\ n - m + 1 = k /\ \A i \in m..n : s[i] \in S
    BY <1>1, <1>2
  <2>2. Newest(s, k) = SubSeq(s, m, n)
    BY <1>2 DEF Newest
  <2> HIDE DEF m, n
  <2>3. /\ SubSeq(s, m, n) \in Seq(S)
        /\ Len(SubSeq(s, m, n)) = n - m + 1
        /\ \A i \in 1..(n - m + 1) : SubSeq(s, m, n)[i] = s[m+i-1]
    BY <2>1, SubSeqProperties
  <2>4. Newest(s, k) \in Seq(S) /\ Len(Newest(s, k)) = k
    BY <2>1, <2>2, <2>3
  <2>5. ASSUME NEW j \in 1..k PROVE Newest(s, k)[j] = s[n - k + j] /\ n - k + j \in 1..n
    <3>1. Newest(s, k)[j] = s[m+j-1]
      BY <2>1, <2>2, <2>3
    <3>2. m + j - 1 = n - k + j
      BY DEF m, n
    <3> QED
      BY <1>2, <2>1, <3>1, <3>2 DEF n
  <2> QED
    BY <1>2, <2>4, <2>5 DEF n
<1>3. CASE ~(Len(s) > k)
  <2>1. Newest(s, k) = s
    BY <1>3 DEF Newest
  <2> QED
    BY <1>1, <1>3, <2>1
<1> QED
  BY <1>2, <1>3

\* Trimming twice, before and after something is added, is trimming once.
LEMMA NewestTwice ==
    ASSUME NEW S, NEW s \in Seq(S), NEW t \in Seq(S), NEW k \in Nat \ {0}
    PROVE  Newest(Newest(s, k) \o t, k) = Newest(s \o t, k)
<1>1. PICK r : r = Newest(s, k)
  OBVIOUS
<1>2. /\ r \in Seq(S) /\ Len(r) = IF Len(s) > k THEN k ELSE Len(s)
      /\ \A j \in 1..Len(r) : r[j] = s[Len(s) - Len(r) + j]
  BY <1>1, NewestParts
<1>3. PICK x, y : x = r \o t /\ y = s \o t
  OBVIOUS
<1>4. /\ x \in Seq(S) /\ Len(x) = Len(r) + Len(t)
      /\ y \in Seq(S) /\ Len(y) = Len(s) + Len(t)
      /\ \A i \in 1..Len(r) + Len(t) : x[i] = IF i <= Len(r) THEN r[i] ELSE t[i - Len(r)]
      /\ \A i \in 1..Len(s) + Len(t) : y[i] = IF i <= Len(s) THEN s[i] ELSE t[i - Len(s)]
  BY <1>2, <1>3, ConcatProperties
<1>5. PICK u, v : u = Newest(x, k) /\ v = Newest(y, k)
  OBVIOUS
<1>6. /\ u \in Seq(S) /\ Len(u) = IF Len(x) > k THEN k ELSE Len(x)
      /\ \A j \in 1..Len(u) : u[j] = x[Len(x) - Len(u) + j]
  BY <1>4, <1>5, NewestParts
<1>7. /\ v \in Seq(S) /\ Len(v) = IF Len(y) > k THEN k ELSE Len(y)
      /\ \A j \in 1..Len(v) : v[j] = y[Len(y) - Len(v) + j]
  BY <1>4, <1>5, NewestParts
<1>8. Len(s) \in Nat /\ Len(t) \in Nat /\ Len(r) \in Nat
  BY <1>2
<1>9. Len(u) = Len(v) /\ Len(u) \in Nat /\ Len(u) <= Len(x)
  <2>1. PICK ls, lt, lr, lx, ly : /\ ls = Len(s) /\ lt = Len(t) /\ lr = Len(r)
                                  /\ lx = Len(x) /\ ly = Len(y)
    OBVIOUS
  <2>2. /\ ls \in Nat /\ lt \in Nat /\ lr \in Nat /\ k \in Nat
        /\ lr = (IF ls > k THEN k ELSE ls) /\ lx = lr + lt /\ ly = ls + lt
    BY <1>2, <1>4, <1>8, <2>1
  <2>3. /\ Len(u) = (IF lx > k THEN k ELSE lx) /\ Len(v) = (IF ly > k THEN k ELSE ly)
    BY <1>6, <1>7, <2>1
  <2> QED
    BY <2>1, <2>2, <2>3
<1>10. ASSUME NEW j \in 1..Len(u) PROVE u[j] = v[j]
  <2>1. PICK ls, lt, lr, lu : ls = Len(s) /\ lt = Len(t) /\ lr = Len(r) /\ lu = Len(u)
    OBVIOUS
  <2>2. /\ ls \in Nat /\ lt \in Nat /\ lr \in Nat /\ lu \in Nat /\ k \in Nat /\ j \in 1..lu
        /\ lr = (IF ls > k THEN k ELSE ls) /\ lu = (IF lr + lt > k THEN k ELSE lr + lt)
    BY <1>2, <1>4, <1>6, <1>8, <1>9, <2>1
  <2>3. PICK i, d : i = lr + lt - lu + j /\ d = ls - lr
    OBVIOUS
  <2>4. d \in Nat /\ i \in 1..(lr + lt) /\ i + d \in 1..(ls + lt)
    BY <2>2, <2>3
  <2>5. ls + lt - lu + j = i + d /\ (i + d <= ls <=> i <= lr) /\ i + d - ls = i - lr /\ ls - lr + i = i + d
    BY <2>2, <2>3, <2>4
  <2>6. x[i] = IF i <= lr THEN r[i] ELSE t[i - lr]
    BY <1>4, <2>1, <2>4
  <2>7. y[i + d] = IF i + d <= ls THEN s[i + d] ELSE t[i + d - ls]
    BY <1>4, <2>1, <2>4
  <2>8. u[j] = x[i]
    <3>1. u[j] = x[Len(x) - Len(u) + j]
      BY <1>6
    <3>2. Len(x) - Len(u) + j = i
      BY <1>4, <2>1, <2>3
    <3> QED
      BY <3>1, <3>2, Zenon
  <2>9. v[j] = y[i + d]
    <3>1. v[j] = y[Len(y) - Len(v) + j]
      BY <1>7, <1>9
    <3>2. Len(y) - Len(v) + j = i + d
      BY <1>4, <1>9, <2>1, <2>5
    <3> QED
      BY <3>1, <3>2, Zenon
  <2>10. i <= lr => r[i] = s[i + d]
    <3>1. i <= lr => i \in 1..lr
      BY <2>2, <2>4
    <3> QED
      BY <1>2, <2>1, <2>5, <3>1
  <2> QED
    BY <2>5, <2>6, <2>7, <2>8, <2>9, <2>10
<1>11. u = v
  BY <1>6, <1>7, <1>9, <1>10, SeqEqual
<1> QED
  BY <1>1, <1>3, <1>5, <1>11

LEMMA NewestAppend ==
    ASSUME NEW S, NEW s \in Seq(S), NEW x \in S, NEW k \in Nat \ {0}
    PROVE  Newest(Append(Newest(s, k), x), k) = Newest(Append(s, x), k)
<1>1. PICK r : r = Newest(s, k)
  OBVIOUS
<1>2. r \in Seq(S)
  BY <1>1, NewestParts
<1>3. \A q \in Seq(S) : Append(q, x) = q \o <<x>>
  OBVIOUS
<1>4. PICK t : t = <<x>>
  OBVIOUS
<1>5. t \in Seq(S)
  BY <1>4
<1>6. Newest(r \o t, k) = Newest(s \o t, k)
  BY <1>1, <1>5, NewestTwice
<1> QED
  BY <1>1, <1>2, <1>3, <1>4, <1>6

LEMMA BlockParts ==
    ASSUME NEW b \in ChainBlocks
    PROVE  /\ b.height \in Nat \ {0} /\ b.proposer \in Proposers /\ b.txs \in Seq(Nat \X Nat)
           /\ \A i \in 1..Len(b.txs) : b.txs[i] = <<b.height, i>>
           /\ BlockInfo(b) \in Infos /\ TxInfos(b) \in Seq(Entries)
           /\ Len(TxInfos(b)) = Len(b.txs)
           /\ \A i \in 1..Len(b.txs) : TxInfos(b)[i] = [tx |-> b.txs[i], height |-> b.height]
<1>1. b \in [height : Nat \ {0}, proposer : Proposers, txs : Seq(Nat \X Nat)]
  BY DEF ChainBlocks
<1>2. PICK s \in Sizes : b.txs = [i \in 1..s |-> <<b.height, i>>]
  BY DEF ChainBlocks
<1>3. /\ b.height \in Nat \ {0} /\ b.proposer \in Proposers /\ b.txs \in Seq(Nat \X Nat)
      /\ s \in Nat
  BY <1>1, BufferAssumption
<1>4. Len(b.txs) = s /\ \A i \in 1..s : b.txs[i] = <<b.height, i>>
  BY <1>2, <1>3
<1>5. BlockInfo(b) \in Infos
  BY <1>3 DEF BlockInfo, Infos
<1>6. TxInfos(b) = [i \in 1..s |-> [tx |-> b.txs[i], height |-> b.height]]
  BY <1>3, <1>4 DEF TxInfos
<1>7. \A i \in 1..s : [tx |-> b.txs[i], height |-> b.height] \in Entries
  BY <1>3, <1>4 DEF Entries
<1>8. TxInfos(b) \in [1..s -> Entries]
  BY <1>6, <1>7
<1>9. TxInfos(b) \in Seq(Entries) /\ Len(TxInfos(b)) = s
  <2>1. PICK Q : Q = Entries
    OBVIOUS
  <2>2. PICK q : q = TxInfos(b)
    OBVIOUS
  <2>3. q \in [1..s -> Q]
    BY <1>8, <2>1, <2>2
  <2>4. q \in Seq(Q) /\ Len(q) = s
    BY <1>3, <2>3
  <2> QED
    BY <2>1, <2>2, <2>4
<1> QED
  BY <1>3, <1>4, <1>5, <1>6, <1>9

\* f holds everything of the first 0, 1, ..., m blocks.
IsAll(c, m, f) == f = [i \in 0..m |-> IF i = 0 THEN Blank ELSE Added(f[i-1], c[i])]

LEMMA AllExists ==
    ASSUME NEW c, NEW m \in Nat
    PROVE  \E f : IsAll(c, m, f)
<1> DEFINE B == {k \in 0..m : \E f : IsAll(c, k, f)}
<1>1. 0 \in B
  <2>1. IsAll(c, 0, [j \in 0..0 |-> Blank])
    BY DEF IsAll
  <2> QED
    BY <2>1
<1>2. ASSUME NEW k \in 1..m, k-1 \in B PROVE k \in B
  <2>1. PICK f : IsAll(c, k-1, f)
    BY <1>2
  <2> DEFINE g == [j \in 0..k |-> IF j = k THEN Added(f[k-1], c[k]) ELSE f[j]]
  <2>2. IsAll(c, k, g)
    <3>1. ASSUME NEW j \in 0..k
          PROVE  g[j] = IF j = 0 THEN Blank ELSE Added(g[j-1], c[j])
      <4>1. CASE j = k
        <5>1. j # 0 /\ j-1 = k-1 /\ j-1 \in 0..k /\ j-1 # k
          BY <4>1
        <5>2. g[j-1] = f[k-1]
          BY <5>1
        <5>3. g[j] = Added(f[k-1], c[j])
          BY <4>1
        <5> HIDE DEF g
        <5> QED
          BY <5>1, <5>2, <5>3
      <4>2. CASE j # k
        <5>1. /\ j \in 0..(k-1)
              /\ j # 0 => j-1 \in 0..(k-1) /\ j-1 \in 0..k /\ j-1 # k
          BY <4>2
        <5>2. f[j] = IF j = 0 THEN Blank ELSE Added(f[j-1], c[j])
          BY <5>1, <2>1 DEF IsAll
        <5>3. g[j] = f[j] /\ (j # 0 => g[j-1] = f[j-1])
          BY <4>2, <5>1
        <5> HIDE DEF g
        <5> QED
          BY <5>2, <5>3
      <4> QED
        BY <4>1, <4>2
    <3> QED
      BY <3>1, Zenon DEF IsAll
  <2> QED
    BY <2>2
<1>3. m \in B
  <2> HIDE DEF B
  <2>1. \A k \in 0..m : k \in B
    BY <1>1, <1>2, CountUp
  <2> QED
    BY <2>1
<1> QED
  BY <1>3

\* What seedLiveView has collected, block by block, before it trims.
AllOf(c) == CHOOSE f : IsAll(c, Len(c), f)

LEMMA AllStep ==
    ASSUME NEW c, Len(c) \in Nat
    PROVE  /\ Seed(c) = Trimmed(AllOf(c)[Len(c)])
           /\ AllOf(c)[0] = Blank
           /\ \A i \in 1..Len(c) : AllOf(c)[i] = Added(AllOf(c)[i-1], c[i])
<1> DEFINE f == AllOf(c)
<1>1. IsAll(c, Len(c), f)
  BY AllExists DEF AllOf
<1>2. Seed(c) = Trimmed(f[Len(c)])
  BY DEF Seed, AllOf, IsAll
<1> HIDE DEF f
<1>3. \A i \in 0..Len(c) : f[i] = IF i = 0 THEN Blank ELSE Added(f[i-1], c[i])
  BY <1>1, Zenon DEF IsAll
<1>4. 0 \in 0..Len(c) /\ \A i \in 1..Len(c) : i \in 0..Len(c) /\ i # 0
  OBVIOUS
<1>5. f[0] = Blank /\ \A i \in 1..Len(c) : f[i] = Added(f[i-1], c[i])
  BY <1>3, <1>4, Zenon
<1> QED
  BY <1>2, <1>5 DEF f

LEMMA AllAppend ==
    ASSUME NEW T, NEW c \in Seq(T), NEW b \in T
    PROVE  Seed(Append(c, b)) = Trimmed(Added(AllOf(c)[Len(c)], b))
<1> DEFINE n == Len(c)
<1>1. PICK d : d = Append(c, b)
  OBVIOUS
<1>2. n \in Nat /\ Len(d) = n + 1 /\ d[n+1] = b /\ \A i \in 1..n : d[i] = c[i]
  BY <1>1
<1> DEFINE f == AllOf(c)
           g == AllOf(d)
           B == {i \in 0..n : g[i] = f[i]}
<1> HIDE DEF n
<1>3. f[0] = Blank /\ \A i \in 1..n : f[i] = Added(f[i-1], c[i])
  BY <1>2, AllStep DEF n
<1>4. /\ Seed(d) = Trimmed(g[n+1]) /\ g[0] = Blank
      /\ \A i \in 1..(n+1) : g[i] = Added(g[i-1], d[i])
  <2>1. Len(d) = n + 1 /\ Len(d) \in Nat
    BY <1>2
  <2>2. /\ Seed(d) = Trimmed(g[Len(d)]) /\ g[0] = Blank
        /\ \A i \in 1..Len(d) : g[i] = Added(g[i-1], d[i])
    BY <2>1, AllStep
  <2> HIDE DEF g
  <2> QED
    BY <2>1, <2>2
<1> HIDE DEF f, g
<1>5. 0 \in B
  BY <1>2, <1>3, <1>4
<1>6. ASSUME NEW i \in 1..n, i-1 \in B PROVE i \in B
  <2>1. i \in 1..(n+1) /\ i \in 0..n /\ d[i] = c[i] /\ g[i-1] = f[i-1]
    BY <1>2, <1>6
  <2> QED
    BY <1>3, <1>4, <2>1
<1>7. \A i \in 0..n : i \in B
  <2> HIDE DEF B
  <2> QED
    BY <1>2, <1>5, <1>6, CountUp
<1>8. g[n] = f[n] /\ n+1 \in 1..(n+1) /\ (n+1) - 1 = n
  BY <1>2, <1>7
<1> QED
  BY <1>1, <1>2, <1>4, <1>8 DEF f, n

LEMMA TrimmedFields ==
    \A h, p, r, t, f :
        Trimmed([height |-> h, proposed |-> p, recent |-> r, txs |-> t, fullBlocks |-> f])
          = [height |-> h, proposed |-> p, recent |-> Newest(r, RecentBlocks),
             txs |-> Newest(t, RecentTxs), fullBlocks |-> Newest(f, Kept)]
<1> TAKE h, p, r, t, f
<1>1. PICK x, y, z : x = Newest(r, RecentBlocks) /\ y = Newest(t, RecentTxs) /\ z = Newest(f, Kept)
  OBVIOUS
<1>2. PICK v : v = [height |-> h, proposed |-> p, recent |-> r, txs |-> t, fullBlocks |-> f]
  OBVIOUS
<1>3. Trimmed(v) = [v EXCEPT !.recent = x, !.txs = y, !.fullBlocks = z]
  BY <1>1, <1>2 DEF Trimmed
<1>4. PICK v1 : v1 = [v EXCEPT !.recent = x]
  OBVIOUS
<1>5. v1 = [height |-> h, proposed |-> p, recent |-> x, txs |-> t, fullBlocks |-> f]
  BY <1>2, <1>4
<1>6. PICK v2 : v2 = [v1 EXCEPT !.txs = y]
  OBVIOUS
<1>7. v2 = [height |-> h, proposed |-> p, recent |-> x, txs |-> y, fullBlocks |-> f]
  BY <1>5, <1>6
<1>8. [v2 EXCEPT !.fullBlocks = z]
        = [height |-> h, proposed |-> p, recent |-> x, txs |-> y, fullBlocks |-> z]
  BY <1>7
<1>9. Trimmed(v) = [v2 EXCEPT !.fullBlocks = z]
  BY <1>3, <1>4, <1>6, Zenon
<1> QED
  BY <1>1, <1>2, <1>8, <1>9, Zenon

LEMMA BlankView == Blank \in Views /\ Trimmed(Blank) = Blank
<1>1. Blank \in Views
  BY DEF Blank, Views
<1>2. \A k \in Nat : Newest(<<>>, k) = <<>>
  BY DEF Newest
<1> QED
  <2>1. Newest(<<>>, RecentBlocks) = <<>> /\ Newest(<<>>, RecentTxs) = <<>> /\ Newest(<<>>, Kept) = <<>>
    BY <1>2, FeedsAssumption DEF Kept
  <2>2. PICK p, e : p = [q \in Proposers |-> 0] /\ e = <<>>
    OBVIOUS
  <2>3. Blank = [height |-> 0, proposed |-> p, recent |-> e, txs |-> e, fullBlocks |-> e]
    BY <2>2 DEF Blank
  <2>4. Trimmed(Blank) = [height |-> 0, proposed |-> p, recent |-> Newest(e, RecentBlocks),
                          txs |-> Newest(e, RecentTxs), fullBlocks |-> Newest(e, Kept)]
    BY <2>3, TrimmedFields
  <2> QED
    BY <1>1, <2>1, <2>2, <2>3, <2>4

LEMMA AddedView ==
    ASSUME NEW v \in Views, NEW b \in ChainBlocks
    PROVE  /\ Added(v, b) \in Views
           /\ Added(v, b).height = b.height
           /\ Added(v, b).txs = v.txs \o TxInfos(b)
           /\ Added(v, b).fullBlocks =
                IF b.txs = <<>> THEN v.fullBlocks ELSE Append(v.fullBlocks, b)
<1>1. /\ v.height \in Nat /\ v.proposed \in [Proposers -> Nat] /\ v.recent \in Seq(Infos)
      /\ v.txs \in Seq(Entries) /\ v.fullBlocks \in Seq(ChainBlocks)
  BY DEF Views
<1>2. /\ b.height \in Nat /\ b.proposer \in Proposers
      /\ BlockInfo(b) \in Infos /\ TxInfos(b) \in Seq(Entries)
  BY BlockParts
<1>3. [v.proposed EXCEPT ![b.proposer] = @ + 1] \in [Proposers -> Nat]
  BY <1>1, <1>2
<1>4. Append(v.recent, BlockInfo(b)) \in Seq(Infos)
  <2>1. \A S : \A s \in Seq(S), x \in S : Append(s, x) \in Seq(S)
    OBVIOUS
  <2> QED
    BY <1>1, <1>2, <2>1, Zenon
<1>5. v.txs \o TxInfos(b) \in Seq(Entries)
  BY <1>1, <1>2, ConcatProperties, Zenon
<1>6. (IF b.txs = <<>> THEN v.fullBlocks ELSE Append(v.fullBlocks, b)) \in Seq(ChainBlocks)
  <2>1. \A S : \A s \in Seq(S), x \in S : Append(s, x) \in Seq(S)
    OBVIOUS
  <2>2. Append(v.fullBlocks, b) \in Seq(ChainBlocks)
    BY <1>1, <2>1, Zenon
  <2> QED
    BY <1>1, <2>2, Zenon
<1> QED
  BY <1>2, <1>3, <1>4, <1>5, <1>6 DEF Added, Views

\* Recording a block into the trimmed feeds comes to what trimming comes to
\* after the block was added to everything there is.
LEMMA RecordAdded ==
    ASSUME NEW v \in Views, NEW b \in ChainBlocks
    PROVE  Record(Trimmed(v), b) = Trimmed(Added(v, b))
<1>1. /\ v.recent \in Seq(Infos)
      /\ v.txs \in Seq(Entries) /\ v.fullBlocks \in Seq(ChainBlocks)
  BY DEF Views
<1>2. BlockInfo(b) \in Infos /\ TxInfos(b) \in Seq(Entries)
  BY BlockParts
<1>3. RecentBlocks \in Nat \ {0} /\ RecentTxs \in Nat \ {0} /\ Kept \in Nat \ {0}
  BY FeedsAssumption DEF Kept
<1>4. Trimmed(v) = [height |-> v.height, proposed |-> v.proposed,
                    recent |-> Newest(v.recent, RecentBlocks),
                    txs |-> Newest(v.txs, RecentTxs),
                    fullBlocks |-> Newest(v.fullBlocks, Kept)]
  <2>1. v = [height |-> v.height, proposed |-> v.proposed, recent |-> v.recent, txs |-> v.txs,
             fullBlocks |-> v.fullBlocks]
    BY DEF Views
  <2>2. PICK h, p, r, t, f : /\ h = v.height /\ p = v.proposed /\ r = v.recent /\ t = v.txs
                             /\ f = v.fullBlocks
    OBVIOUS
  <2>3. v = [height |-> h, proposed |-> p, recent |-> r, txs |-> t, fullBlocks |-> f]
    BY <2>1, <2>2, Zenon
  <2>4. Trimmed(v) = [height |-> h, proposed |-> p, recent |-> Newest(r, RecentBlocks),
                      txs |-> Newest(t, RecentTxs), fullBlocks |-> Newest(f, Kept)]
    <3>1. Trimmed([height |-> h, proposed |-> p, recent |-> r, txs |-> t, fullBlocks |-> f])
            = [height |-> h, proposed |-> p, recent |-> Newest(r, RecentBlocks),
               txs |-> Newest(t, RecentTxs), fullBlocks |-> Newest(f, Kept)]
      BY TrimmedFields
    <3> QED
      BY <2>3, <3>1
  <2> QED
    BY <2>2, <2>4, Zenon
<1>5. Newest(Append(Newest(v.recent, RecentBlocks), BlockInfo(b)), RecentBlocks)
        = Newest(Append(v.recent, BlockInfo(b)), RecentBlocks)
  BY <1>1, <1>2, <1>3, NewestAppend, Zenon
<1>6. Newest(Newest(v.txs, RecentTxs) \o TxInfos(b), RecentTxs)
        = Newest(v.txs \o TxInfos(b), RecentTxs)
  BY <1>1, <1>2, <1>3, NewestTwice, Zenon
<1>7. Newest(Append(Newest(v.fullBlocks, Kept), b), Kept)
        = Newest(Append(v.fullBlocks, b), Kept)
  BY <1>1, <1>3, NewestAppend, Zenon
<1>8. Record(Trimmed(v), b) =
        [height |-> b.height, proposed |-> [v.proposed EXCEPT ![b.proposer] = @ + 1],
         recent |-> Newest(Append(v.recent, BlockInfo(b)), RecentBlocks),
         txs |-> Newest(v.txs \o TxInfos(b), RecentTxs),
         fullBlocks |-> IF b.txs = <<>> THEN Newest(v.fullBlocks, Kept)
                        ELSE Newest(Append(v.fullBlocks, b), Kept)]
  BY <1>4, <1>5, <1>6, <1>7 DEF Record
<1>9. Trimmed(Added(v, b)) =
        [height |-> b.height, proposed |-> [v.proposed EXCEPT ![b.proposer] = @ + 1],
         recent |-> Newest(Append(v.recent, BlockInfo(b)), RecentBlocks),
         txs |-> Newest(v.txs \o TxInfos(b), RecentTxs),
         fullBlocks |-> Newest(IF b.txs = <<>> THEN v.fullBlocks
                               ELSE Append(v.fullBlocks, b), Kept)]
  <2>1. PICK p, r, t, f :
          /\ p = [v.proposed EXCEPT ![b.proposer] = @ + 1]
          /\ r = Append(v.recent, BlockInfo(b)) /\ t = v.txs \o TxInfos(b)
          /\ f = IF b.txs = <<>> THEN v.fullBlocks ELSE Append(v.fullBlocks, b)
    OBVIOUS
  <2>2. Added(v, b) = [height |-> b.height, proposed |-> p, recent |-> r, txs |-> t,
                       fullBlocks |-> f]
    BY <2>1 DEF Added
  <2>3. Trimmed(Added(v, b)) =
          [height |-> b.height, proposed |-> p, recent |-> Newest(r, RecentBlocks),
           txs |-> Newest(t, RecentTxs), fullBlocks |-> Newest(f, Kept)]
    <3>1. Trimmed([height |-> b.height, proposed |-> p, recent |-> r, txs |-> t, fullBlocks |-> f])
            = [height |-> b.height, proposed |-> p, recent |-> Newest(r, RecentBlocks),
               txs |-> Newest(t, RecentTxs), fullBlocks |-> Newest(f, Kept)]
      BY TrimmedFields
    <3> QED
      BY <2>2, <3>1
  <2> QED
    BY <2>1, <2>3
<1> QED
  BY <1>8, <1>9

LEMMA AllViews ==
    ASSUME NEW c, IsChain(c)
    PROVE  \A i \in 0..Len(c) : AllOf(c)[i] \in Views /\ AllOf(c)[i].height = i
<1>1. /\ Len(c) \in Nat
      /\ \A i \in 1..Len(c) : c[i] \in ChainBlocks /\ c[i].height = i
  BY DEF IsChain
<1> DEFINE f == AllOf(c)
           B == {i \in 0..Len(c) : f[i] \in Views /\ f[i].height = i}
<1>2. f[0] = Blank /\ \A i \in 1..Len(c) : f[i] = Added(f[i-1], c[i])
  BY <1>1, AllStep
<1> HIDE DEF f
<1>3. 0 \in B
  <2>1. Blank.height = 0
    BY DEF Blank
  <2> QED
    BY <1>1, <1>2, <2>1, BlankView
<1>4. ASSUME NEW i \in 1..Len(c), i-1 \in B PROVE i \in B
  <2>1. f[i-1] \in Views /\ c[i] \in ChainBlocks /\ c[i].height = i /\ i \in 0..Len(c)
    BY <1>1, <1>4
  <2>2. Added(f[i-1], c[i]) \in Views /\ Added(f[i-1], c[i]).height = c[i].height
    BY <2>1, AddedView
  <2> QED
    BY <1>2, <2>1, <2>2
<1>5. \A i \in 0..Len(c) : i \in B
  <2> HIDE DEF B
  <2> QED
    BY <1>1, <1>3, <1>4, CountUp
<1> QED
  BY <1>5 DEF f

\* What is seeded from a chain: the newest of all there is.
LEMMA SeedParts ==
    ASSUME NEW c, IsChain(c), NEW v, v = AllOf(c)[Len(c)]
    PROVE  /\ Seed(c) = Trimmed(v) /\ v \in Views
           /\ Seed(c).height = Len(c)
           /\ Seed(c).txs = Newest(v.txs, RecentTxs)
           /\ Seed(c).fullBlocks = Newest(v.fullBlocks, Kept)
<1>1. Len(c) \in Nat
  BY DEF IsChain
<1>2. v \in Views /\ v.height = Len(c)
  BY <1>1, AllViews
<1>3. Seed(c) = Trimmed(v)
  BY <1>1, AllStep
<1>4. Trimmed(v).height = v.height /\ Trimmed(v).txs = Newest(v.txs, RecentTxs)
      /\ Trimmed(v).fullBlocks = Newest(v.fullBlocks, Kept)
  <2>1. PICK h, p, r, t, f : /\ h = v.height /\ p = v.proposed /\ r = v.recent /\ t = v.txs
                             /\ f = v.fullBlocks
    OBVIOUS
  <2>2. v = [height |-> h, proposed |-> p, recent |-> r, txs |-> t, fullBlocks |-> f]
    BY <1>2, <2>1 DEF Views
  <2>3. Trimmed([height |-> h, proposed |-> p, recent |-> r, txs |-> t, fullBlocks |-> f])
          = [height |-> h, proposed |-> p, recent |-> Newest(r, RecentBlocks),
             txs |-> Newest(t, RecentTxs), fullBlocks |-> Newest(f, Kept)]
    BY TrimmedFields
  <2> QED
    BY <2>1, <2>2, <2>3
<1> QED
  BY <1>2, <1>3, <1>4

LEMMA ChainAppend ==
    ASSUME NEW c, IsChain(c), NEW b \in ChainBlocks, b.height = Len(c) + 1
    PROVE  IsChain(Append(c, b)) /\ Len(Append(c, b)) = Len(c) + 1
<1>1. PICK S : S = ChainBlocks
  OBVIOUS
<1>2. c \in Seq(S) /\ b \in S /\ \A i \in 1..Len(c) : c[i].height = i
  BY <1>1 DEF IsChain
<1>3. /\ Append(c, b) \in Seq(S) /\ Len(Append(c, b)) = Len(c) + 1
      /\ \A i \in 1..(Len(c) + 1) : Append(c, b)[i] = IF i = Len(c) + 1 THEN b ELSE c[i]
  BY <1>2
<1> QED
  BY <1>1, <1>2, <1>3 DEF IsChain

\* Recording one block more comes to what seeding from the longer chain does.
LEMMA SeedAppend ==
    ASSUME NEW c, IsChain(c), NEW b \in ChainBlocks
    PROVE  Record(Seed(c), b) = Seed(Append(c, b))
<1>1. PICK v : v = AllOf(c)[Len(c)]
  OBVIOUS
<1>2. Seed(c) = Trimmed(v) /\ v \in Views
  BY <1>1, SeedParts
<1>3. c \in Seq(ChainBlocks)
  BY DEF IsChain
<1>4. Seed(Append(c, b)) = Trimmed(Added(v, b))
  BY <1>1, <1>3, AllAppend
<1>5. Record(Trimmed(v), b) = Trimmed(Added(v, b))
  BY <1>2, RecordAdded
<1> QED
  BY <1>2, <1>4, <1>5

LEMMA SeedOfEmpty == Seed(<<>>) = Blank /\ IsChain(<<>>)
<1>1. Len(<<>>) = 0
  OBVIOUS
<1>2. Seed(<<>>) = Trimmed(Blank)
  BY <1>1, AllStep
<1> QED
  BY <1>1, <1>2, BlankView DEF IsChain

\* Every entry of the feed of transactions is of a block that is kept whole,
\* and no more blocks were kept after that one than entries came after it.
Covered(v) ==
    \A j \in 1..Len(v.txs) : \E i \in 1..Len(v.fullBlocks) :
        /\ Len(v.fullBlocks) - i <= Len(v.txs) - j
        /\ v.txs[j].height = v.fullBlocks[i].height
        /\ \E k \in 1..Len(v.fullBlocks[i].txs) : v.txs[j].tx = v.fullBlocks[i].txs[k]

\* The blocks that are kept whole are the chain's.
FromChain(v, c) ==
    \A i \in 1..Len(v.fullBlocks) :
        /\ v.fullBlocks[i].height \in 1..Len(c)
        /\ v.fullBlocks[i] = c[v.fullBlocks[i].height]

LEMMA CoveredAdded ==
    ASSUME NEW v \in Views, NEW c, IsChain(c), NEW b \in ChainBlocks,
           b.height \in 1..Len(c), b = c[b.height],
           Covered(v), FromChain(v, c)
    PROVE  Covered(Added(v, b)) /\ FromChain(Added(v, b), c)
<1>1. PICK t, f, g, x, y :
        /\ t = v.txs /\ f = v.fullBlocks
        /\ g = TxInfos(b)
        /\ x = Added(v, b).txs /\ y = Added(v, b).fullBlocks
  OBVIOUS
<1>2. /\ t \in Seq(Entries) /\ f \in Seq(ChainBlocks)
      /\ x = t \o g /\ y = IF b.txs = <<>> THEN f ELSE Append(f, b)
  BY <1>1, AddedView DEF Views
<1>3. /\ g \in Seq(Entries) /\ Len(g) = Len(b.txs) /\ Len(b.txs) \in Nat
      /\ (b.txs = <<>> <=> Len(b.txs) = 0)
      /\ \A i \in 1..Len(b.txs) : g[i] = [tx |-> b.txs[i], height |-> b.height]
  BY <1>1, BlockParts, EmptySeq
<1>4. PICK m, n, l : m = Len(t) /\ n = Len(f) /\ l = Len(g)
  OBVIOUS
<1>5. m \in Nat /\ n \in Nat /\ l \in Nat
  BY <1>2, <1>3, <1>4
<1>6. /\ Len(x) = m + l
      /\ \A i \in 1..(m + l) : x[i] = IF i <= m THEN t[i] ELSE g[i - m]
  <2>1. PICK S : S = Entries
    OBVIOUS
  <2>2. t \in Seq(S) /\ g \in Seq(S)
    BY <1>2, <1>3, <2>1
  <2>3. /\ Len(t \o g) = Len(t) + Len(g)
        /\ \A i \in 1..Len(t) + Len(g) : (t \o g)[i] = IF i <= Len(t) THEN t[i] ELSE g[i - Len(t)]
    BY <2>2, ConcatProperties
  <2> QED
    BY <1>2, <1>4, <2>3
<1>7. /\ Len(y) = IF l = 0 THEN n ELSE n + 1
      /\ \A i \in 1..n : y[i] = f[i]
      /\ l # 0 => y[n+1] = b
  <2>1. CASE l = 0
    BY <1>2, <1>3, <1>4, <2>1
  <2>2. CASE l # 0
    <3>1. y = Append(f, b)
      BY <1>2, <1>3, <1>4, <2>2
    <3>2. PICK S : S = ChainBlocks
      OBVIOUS
    <3>3. f \in Seq(S) /\ b \in S
      BY <1>2, <3>2
    <3> QED
      BY <1>4, <2>2, <3>1, <3>3
  <2> QED
    BY <2>1, <2>2
<1>8. FromChain(Added(v, b), c)
  <2> SUFFICES ASSUME NEW i \in 1..Len(y)
               PROVE  y[i].height \in 1..Len(c) /\ y[i] = c[y[i].height]
    BY <1>1 DEF FromChain
  <2>1. CASE i \in 1..n
    <3>1. f[i].height \in 1..Len(c) /\ f[i] = c[f[i].height]
      BY <1>1, <1>4, <2>1 DEF FromChain
    <3> QED
      BY <1>7, <2>1, <3>1
  <2>2. CASE i \notin 1..n
    <3>1. l # 0 /\ i = n + 1
      BY <1>5, <1>7, <2>2
    <3> QED
      BY <1>7, <3>1
  <2> QED
    BY <2>1, <2>2
<1>9. ASSUME NEW j \in 1..(m + l)
      PROVE  \E i \in 1..Len(y) : /\ Len(y) - i <= (m + l) - j
                                  /\ x[j].height = y[i].height
                                  /\ \E k \in 1..Len(y[i].txs) : x[j].tx = y[i].txs[k]
  <2>1. CASE j <= m
    <3>1. j \in 1..m /\ x[j] = t[j]
      BY <1>5, <1>6, <2>1
    <3>2. PICK i \in 1..n : /\ n - i <= m - j
                            /\ t[j].height = f[i].height
                            /\ \E k \in 1..Len(f[i].txs) : t[j].tx = f[i].txs[k]
      BY <1>1, <1>4, <3>1 DEF Covered
    <3>3. y[i] = f[i] /\ i \in 1..Len(y) /\ Len(y) - i <= (m + l) - j
      BY <1>5, <1>7, <3>1, <3>2
    <3> QED
      BY <3>1, <3>2, <3>3
  <2>2. CASE j > m
    <3>1. /\ j - m \in 1..l /\ x[j] = g[j - m] /\ l # 0
      BY <1>5, <1>6, <2>2
    <3>2. /\ n + 1 \in 1..Len(y) /\ y[n+1] = b /\ Len(y) - (n + 1) <= (m + l) - j
      BY <1>5, <1>7, <3>1
    <3>3. x[j].height = b.height /\ x[j].tx = b.txs[j - m] /\ j - m \in 1..Len(b.txs)
      <4>1. PICK d : d = j - m
        OBVIOUS
      <4>2. d \in 1..Len(b.txs) /\ x[j] = g[d]
        BY <1>3, <1>4, <3>1, <4>1
      <4>3. g[d] = [tx |-> b.txs[d], height |-> b.height]
        BY <1>3, <4>2
      <4>4. g[d].tx = b.txs[d] /\ g[d].height = b.height
        BY <4>3
      <4> QED
        BY <4>1, <4>2, <4>4
    <3> QED
      BY <3>2, <3>3
  <2> QED
    BY <1>5, <2>1, <2>2
<1>10. Covered(Added(v, b))
  BY <1>1, <1>6, <1>9 DEF Covered
<1> QED
  BY <1>8, <1>10

LEMMA AllCovered ==
    ASSUME NEW c, IsChain(c), NEW v, v = AllOf(c)[Len(c)]
    PROVE  Covered(v) /\ FromChain(v, c)
<1>1. /\ Len(c) \in Nat
      /\ \A i \in 1..Len(c) : c[i] \in ChainBlocks /\ c[i].height = i
  BY DEF IsChain
<1> DEFINE f == AllOf(c)
           B == {i \in 0..Len(c) : Covered(f[i]) /\ FromChain(f[i], c)}
<1>2. f[0] = Blank /\ \A i \in 1..Len(c) : f[i] = Added(f[i-1], c[i])
  BY <1>1, AllStep
<1>3. \A i \in 0..Len(c) : f[i] \in Views
  BY AllViews
<1> HIDE DEF f
<1>4. 0 \in B
  <2>1. Blank.txs = <<>> /\ Blank.fullBlocks = <<>> /\ Len(<<>>) = 0
    BY DEF Blank
  <2>2. Covered(Blank) /\ FromChain(Blank, c)
    BY <2>1 DEF Covered, FromChain
  <2> QED
    BY <1>1, <1>2, <2>2
<1>5. ASSUME NEW i \in 1..Len(c), i-1 \in B PROVE i \in B
  <2>1. PICK u, b : u = f[i-1] /\ b = c[i]
    OBVIOUS
  <2>2. /\ u \in Views /\ b \in ChainBlocks /\ b.height \in 1..Len(c) /\ b = c[b.height]
        /\ Covered(u) /\ FromChain(u, c) /\ i \in 0..Len(c)
    BY <1>1, <1>3, <1>5, <2>1
  <2>3. Covered(Added(u, b)) /\ FromChain(Added(u, b), c)
    BY <2>2, CoveredAdded
  <2> QED
    BY <1>2, <2>1, <2>2, <2>3
<1>6. \A i \in 0..Len(c) : i \in B
  <2> HIDE DEF B
  <2> QED
    BY <1>1, <1>4, <1>5, CountUp
<1> QED
  BY <1>1, <1>6 DEF f

\* What the lookup answers: a proof from a block of that height that is kept
\* whole and holds a transaction with that hash, or that there is none.
LEMMA ProofParts ==
    ASSUME NEW v, v.fullBlocks \in Seq(ChainBlocks), NEW h, NEW hash,
           NEW p, p = InclusionProof(v, h, hash)
    PROVE  \/ /\ p = NotFound
              /\ ~\E b \in ToSet(v.fullBlocks) : b.height = h /\ Positions(b, hash) # {}
           \/ \E b \in ToSet(v.fullBlocks) : \E k \in 1..Len(b.txs) :
                /\ p # NotFound
                /\ b.height = h /\ Leaf(b.txs[k]) = hash
                /\ p.leaf = hash /\ p.index = k - 1
                /\ p.siblings = Proof(b.txs, k - 1) /\ p.root = Root(b.txs)
<1> DEFINE holds == {b \in ToSet(v.fullBlocks) : b.height = h /\ Positions(b, hash) # {}}
<1>1. CASE holds = {}
  <2>1. p = NotFound
    BY <1>1 DEF InclusionProof
  <2> QED
    BY <1>1, <2>1
<1>2. CASE holds # {}
  <2> DEFINE b == CHOOSE b \in holds : TRUE
             k == Min(Positions(b, hash))
  <2>1. b \in holds
    BY <1>2
  <2>2. p = [leaf |-> hash, index |-> k - 1, siblings |-> Proof(b.txs, k - 1),
             root |-> Root(b.txs)]
    BY <1>2 DEF InclusionProof
  <2>3. b \in ToSet(v.fullBlocks) /\ b.height = h /\ Positions(b, hash) # {}
    BY <2>1
  <2> HIDE DEF b, holds
  <2>4. b \in ChainBlocks
    <3>1. PICK S, s : S = ChainBlocks /\ s = v.fullBlocks
      OBVIOUS
    <3>2. s \in Seq(S) => \A i \in DOMAIN s : s[i] \in S
      OBVIOUS
    <3> QED
      BY <2>3, <3>1, <3>2 DEF ToSet
  <2>5. Positions(b, hash) \subseteq 1..Len(b.txs) /\ Len(b.txs) \in Nat
    <3>1. b.txs \in Seq(Nat \X Nat)
      BY <2>4, BlockParts
    <3>2. DOMAIN b.txs = 1..Len(b.txs) /\ Len(b.txs) \in Nat
      BY <3>1
    <3> QED
      BY <3>2 DEF Positions
  <2>6. k \in Positions(b, hash)
    <3>1. Positions(b, hash) \subseteq Nat
      BY <2>5
    <3>2. \E m \in Positions(b, hash) : \A y \in Positions(b, hash) : m <= y
      BY <2>3, <3>1, Least
    <3> QED
      BY <3>2 DEF Min
  <2> HIDE DEF k
  <2>7. k \in 1..Len(b.txs) /\ Leaf(b.txs[k]) = hash /\ k - 1 # -1
    <3>1. k \in 1..Len(b.txs) /\ k \in Nat /\ k >= 1
      BY <2>5, <2>6
    <3>2. Leaf(b.txs[k]) = hash
      BY <2>6 DEF Positions
    <3>3. k - 1 # -1
      BY <3>1
    <3> QED
      BY <3>1, <3>2, <3>3
  <2>8. p # NotFound
    <3>1. p.index = k - 1 /\ NotFound.index = -1
      BY <2>2 DEF NotFound
    <3> QED
      BY <2>7, <3>1
  <2>9. /\ p.leaf = hash /\ p.index = k - 1
        /\ p.siblings = Proof(b.txs, k - 1) /\ p.root = Root(b.txs)
    BY <2>2
  <2> QED
    BY <2>3, <2>7, <2>8, <2>9
<1> QED
  BY <1>1, <1>2

\* Whatever the chain, what the seeded feeds show can be proved.
LEMMA SeedProvable ==
    ASSUME IsChain(chain), view = Seed(chain)
    PROVE  FeedIsProvable
<1>1. PICK v : v = AllOf(chain)[Len(chain)]
  OBVIOUS
<1>2. /\ v \in Views
      /\ view.txs = Newest(v.txs, RecentTxs) /\ view.fullBlocks = Newest(v.fullBlocks, Kept)
  BY <1>1, SeedParts
<1>3. Covered(v) /\ FromChain(v, chain)
  BY <1>1, AllCovered
<1>4. /\ v.txs \in Seq(Entries) /\ v.fullBlocks \in Seq(ChainBlocks)
      /\ RecentTxs \in Nat \ {0} /\ Kept = RecentTxs
  BY <1>2, FeedsAssumption DEF Views, Kept
<1>5. PICK t, f, m, n, x, y, l, q :
        /\ t = v.txs /\ f = v.fullBlocks /\ m = Len(t) /\ n = Len(f)
        /\ x = view.txs /\ y = view.fullBlocks /\ l = Len(x) /\ q = Len(y)
  OBVIOUS
<1>6. /\ x \in Seq(Entries) /\ l = (IF m > RecentTxs THEN RecentTxs ELSE m)
      /\ \A j \in 1..l : x[j] = t[m - l + j] /\ m - l + j \in 1..m
  <2>1. PICK S, k : S = Entries /\ k = RecentTxs
    OBVIOUS
  <2>2. t \in Seq(S) /\ k \in Nat \ {0} /\ x = Newest(t, k)
    BY <1>2, <1>4, <1>5, <2>1
  <2>3. /\ Newest(t, k) \in Seq(S)
        /\ Len(Newest(t, k)) = IF Len(t) > k THEN k ELSE Len(t)
        /\ \A j \in 1..Len(Newest(t, k)) :
             /\ Newest(t, k)[j] = t[Len(t) - Len(Newest(t, k)) + j]
             /\ Len(t) - Len(Newest(t, k)) + j \in 1..Len(t)
    BY <2>2, NewestParts
  <2> QED
    BY <1>5, <2>1, <2>2, <2>3
<1>7. /\ y \in Seq(ChainBlocks) /\ q = (IF n > RecentTxs THEN RecentTxs ELSE n)
      /\ \A i \in 1..q : y[i] = f[n - q + i] /\ n - q + i \in 1..n
  <2>1. PICK S, k : S = ChainBlocks /\ k = RecentTxs
    OBVIOUS
  <2>2. f \in Seq(S) /\ k \in Nat \ {0} /\ y = Newest(f, k)
    BY <1>2, <1>4, <1>5, <2>1
  <2>3. /\ Newest(f, k) \in Seq(S)
        /\ Len(Newest(f, k)) = IF Len(f) > k THEN k ELSE Len(f)
        /\ \A i \in 1..Len(Newest(f, k)) :
             /\ Newest(f, k)[i] = f[Len(f) - Len(Newest(f, k)) + i]
             /\ Len(f) - Len(Newest(f, k)) + i \in 1..Len(f)
    BY <2>2, NewestParts
  <2> QED
    BY <1>5, <2>1, <2>2, <2>3
<1>8. m \in Nat /\ n \in Nat /\ l \in Nat /\ q \in Nat
  BY <1>4, <1>5, <1>6, <1>7
<1>9. \A b \in ToSet(y) : b \in ChainBlocks /\ b.height \in 1..Len(chain) /\ b = chain[b.height]
  <2> SUFFICES ASSUME NEW b \in ToSet(y)
               PROVE  b \in ChainBlocks /\ b.height \in 1..Len(chain) /\ b = chain[b.height]
    OBVIOUS
  <2>1. PICK i \in 1..q : b = y[i]
    <3>1. PICK S : S = ChainBlocks
      OBVIOUS
    <3>2. y \in Seq(S)
      BY <1>7, <3>1
    <3>3. DOMAIN y = 1..q
      BY <1>5, <3>2
    <3> QED
      BY <3>3 DEF ToSet
  <2>2. b = f[n - q + i] /\ n - q + i \in 1..n
    BY <1>7, <2>1
  <2>3. b.height \in 1..Len(chain) /\ b = chain[b.height]
    BY <1>3, <1>5, <2>2 DEF FromChain
  <2> QED
    BY <2>3 DEF IsChain
<1>10. ASSUME NEW j \in 1..l
       PROVE  \E b \in ToSet(y) : \E k \in 1..Len(b.txs) :
                x[j].height = b.height /\ x[j].tx = b.txs[k]
  <2>1. PICK jj : jj = m - l + j
    OBVIOUS
  <2>2. jj \in 1..m /\ x[j] = t[jj] /\ m - jj < RecentTxs
    BY <1>4, <1>6, <1>8, <2>1
  <2>3. PICK ii \in 1..n : /\ n - ii <= m - jj
                          /\ t[jj].height = f[ii].height
                          /\ \E k \in 1..Len(f[ii].txs) : t[jj].tx = f[ii].txs[k]
    BY <1>3, <1>5, <2>2 DEF Covered
  <2>4. PICK i : i = ii - (n - q)
    OBVIOUS
  <2>5. i \in 1..q /\ n - q + i = ii
    BY <1>4, <1>7, <1>8, <2>2, <2>3, <2>4
  <2>6. y[i] = f[ii]
    BY <1>7, <2>5
  <2>7. y[i] \in ToSet(y)
    <3>1. PICK S : S = ChainBlocks
      OBVIOUS
    <3>2. y \in Seq(S)
      BY <1>7, <3>1
    <3>3. DOMAIN y = 1..q
      BY <1>5, <3>2
    <3> QED
      BY <2>5, <3>3 DEF ToSet
  <2> QED
    BY <2>2, <2>3, <2>6, <2>7
<1>11. ASSUME NEW j \in 1..l, NEW p, p = InclusionProof(view, x[j].height, Leaf(x[j].tx))
       PROVE  /\ p # NotFound
              /\ p.root = Root(chain[x[j].height].txs)
              /\ Verify(p.leaf, p.index, p.siblings, p.root)
  <2>1. PICK h, hash : h = x[j].height /\ hash = Leaf(x[j].tx)
    OBVIOUS
  <2>2a. PICK b \in ToSet(y) :
           \E k \in 1..Len(b.txs) : x[j].height = b.height /\ x[j].tx = b.txs[k]
    BY <1>10
  <2>2. PICK k \in 1..Len(b.txs) : h = b.height /\ hash = Leaf(b.txs[k])
    BY <2>1, <2>2a
  <2>3. Positions(b, hash) # {}
    <3>1. b.txs \in Seq(Nat \X Nat)
      BY <1>9, BlockParts
    <3>2. DOMAIN b.txs = 1..Len(b.txs)
      BY <3>1
    <3> QED
      BY <2>2, <3>2 DEF Positions
  <2>4. view.fullBlocks \in Seq(ChainBlocks) /\ p = InclusionProof(view, h, hash)
    BY <1>5, <1>7, <1>11, <2>1
  <2>5. \E c \in ToSet(view.fullBlocks) : c.height = h /\ Positions(c, hash) # {}
    BY <1>5, <2>2, <2>3
  <2>6a. PICK c \in ToSet(view.fullBlocks) : \E i \in 1..Len(c.txs) :
          /\ p # NotFound
          /\ c.height = h /\ Leaf(c.txs[i]) = hash
          /\ p.leaf = hash /\ p.index = i - 1
          /\ p.siblings = Proof(c.txs, i - 1) /\ p.root = Root(c.txs)
    BY <2>4, <2>5, ProofParts
  <2>6. PICK i \in 1..Len(c.txs) :
          /\ p # NotFound
          /\ c.height = h /\ Leaf(c.txs[i]) = hash
          /\ p.leaf = hash /\ p.index = i - 1
          /\ p.siblings = Proof(c.txs, i - 1) /\ p.root = Root(c.txs)
    BY <2>6a
  <2>7. c = chain[h] /\ c.txs \in Seq(Nat \X Nat)
    BY <1>5, <1>9, <2>6, BlockParts
  <2>8. Verify(Leaf(c.txs[i]), i - 1, Proof(c.txs, i - 1), Root(c.txs))
    <3>1. PICK S, txs, o : S = Nat \X Nat /\ txs = c.txs /\ o = i - 1
      OBVIOUS
    <3>2. txs \in Seq(S) /\ o \in 0..(Len(txs) - 1) /\ o + 1 = i
      BY <2>7, <3>1
    <3>3. Verify(Leaf(txs[o+1]), o, Proof(txs, o), Root(txs))
      BY <3>2, ProofsVerify
    <3> QED
      BY <3>1, <3>2, <3>3
  <2> QED
    BY <2>1, <2>6, <2>7, <2>8
<1>12. ASSUME NEW b \in ToSet(view.fullBlocks), NEW t1 \in ToSet(view.txs),
              InclusionProof(view, b.height, Leaf(t1.tx)) # NotFound
       PROVE  t1.height = b.height
  <2>1. PICK j \in 1..l : t1 = x[j]
    <3>1. PICK S : S = Entries
      OBVIOUS
    <3>2. x \in Seq(S)
      BY <1>6, <3>1
    <3>3. DOMAIN x = 1..l
      BY <1>5, <3>2
    <3> QED
      BY <1>5, <3>3 DEF ToSet
  <2>2a. PICK d \in ToSet(y) :
           \E k \in 1..Len(d.txs) : t1.height = d.height /\ t1.tx = d.txs[k]
    BY <1>10, <2>1
  <2>2. PICK k \in 1..Len(d.txs) : t1.height = d.height /\ t1.tx = d.txs[k]
    BY <2>2a
  <2>3. PICK h, hash, p : h = b.height /\ hash = Leaf(t1.tx) /\ p = InclusionProof(view, h, hash)
    OBVIOUS
  <2>4. view.fullBlocks \in Seq(ChainBlocks) /\ p # NotFound
    BY <1>5, <1>7, <1>12, <2>3
  <2>5a. PICK c \in ToSet(view.fullBlocks) :
           \E i \in 1..Len(c.txs) : c.height = h /\ Leaf(c.txs[i]) = hash
    BY <2>3, <2>4, ProofParts
  <2>5. PICK i \in 1..Len(c.txs) : c.height = h /\ Leaf(c.txs[i]) = hash
    BY <2>5a
  <2>6. c.txs[i] = t1.tx
    BY <2>3, <2>5 DEF Leaf
  <2>7. c \in ChainBlocks /\ d \in ChainBlocks
    BY <1>5, <1>9, <2>2, <2>5
  <2>8. c.txs[i] = <<c.height, i>> /\ d.txs[k] = <<d.height, k>>
    BY <2>2, <2>5, <2>7, BlockParts
  <2>9. \A e1, e2, e3, e4 : <<e1, e2>> = <<e3, e4>> => e1 = e3
    OBVIOUS
  <2>10. <<c.height, i>> = <<d.height, k>>
    BY <2>2, <2>6, <2>8
  <2>11. c.height = d.height
    BY <2>9, <2>10
  <2> QED
    BY <2>2, <2>3, <2>5, <2>11
<1>13. DOMAIN view.txs = 1..l
  <2>1. PICK S : S = Entries
    OBVIOUS
  <2>2. x \in Seq(S)
    BY <1>6, <2>1
  <2> QED
    BY <1>5, <2>2
<1> QED
  BY <1>5, <1>11, <1>12, <1>13 DEF FeedIsProvable

-----------------------------------------------------------------------------
(* The invariant *)

LogBlocks == ChainBlocks \cup [height : {0}, txs : {<<>>}, keys : Int]

\* A log l of the chain c that begins with the genesis block g, and perhaps ends
\* early.
LogOf(l, c, g) ==
    \A i \in 1..Len(l) : i <= Len(c) + 1 /\ l[i] = IF i = 1 THEN g ELSE c[i-1]

\* What was shown is in the log, after its first block.
ShownIn(s, l) == \A i \in 1..Len(s) : i + 1 <= Len(l) /\ l[i+1] = s[i]

\* The heights a subscriber has read and will read, below the next one to come.
Rising(x, s, next) ==
    /\ x < next
    /\ \A i \in 1..Len(s) : x < s[i] /\ s[i] < next
    /\ \A i, j \in 1..Len(s) : i < j => s[i] < s[j]

NextEvent == IF run = "ready" THEN Len(chain) + 1 ELSE Len(chain)

TypeInv ==
    /\ run \in Serving \cup {"down", "keys", "open", "fatal"}
    /\ keys \in -1..(MaxCrashes + 1) /\ crashes \in 0..MaxCrashes
    /\ broken \in BOOLEAN /\ excused \in BOOLEAN
    /\ subs \subseteq Clients
    /\ buf \in [Clients -> Seq(Nat)] /\ heard \in [Clients -> Nat]
    /\ \A c \in Clients : Len(buf[c]) <= Buffer
    /\ \A c \in Clients : c \notin subs => buf[c] = <<>> /\ heard[c] = 0
    /\ file \in Seq(Pieces(LogBlocks))
    /\ shown \in Seq(ChainBlocks)
    /\ IsChain(chain)
    /\ view = Seed(chain)

RunInv ==
    /\ run \notin Serving => chain = <<>> /\ subs = {} /\ ~broken
    /\ run \in {"line", "newline"} /\ chain = <<>> => subs = {}
    /\ run = "emit" => chain # <<>>
    /\ run = "newline" => file # <<>>

\* A sound log lacks the newest block only while that block is being written.
LogInv ==
    /\ file # <<>> => file[1] = Partial \/ file[1].piece = "block"
    /\ run \in Serving => LogOf(Blocks(file), chain, Genesis)
    /\ run \in Serving /\ ~broken =>
        Len(Blocks(file)) = Len(chain) + IF run = "line" THEN 0 ELSE 1

ShownInv == ShownIn(shown, Blocks(file))

EventInv == \A c \in subs : Rising(heard[c], buf[c], NextEvent)

Inv == TypeInv /\ RunInv /\ LogInv /\ ShownInv /\ EventInv

-----------------------------------------------------------------------------
(* Prefixes, logs and rising heights *)

LEMMA PrefixByIndex ==
    ASSUME NEW S, NEW s \in Seq(S), NEW t \in Seq(S), Len(s) <= Len(t),
           \A i \in 1..Len(s) : s[i] = t[i]
    PROVE  IsPrefix(s, t)
<1>1. PICK n, u, v : n = Len(s) /\ u = SubSeq(s, 1, n) /\ v = SubSeq(t, 1, n)
  OBVIOUS
<1>2. n \in Nat /\ n <= Len(t) /\ \A i \in 1..n : s[i] \in S /\ t[i] \in S /\ s[i] = t[i]
  BY <1>1
<1>3. u \in Seq(S) /\ Len(u) = n /\ \A i \in 1..n : u[i] = s[i]
  <2>1. /\ u \in Seq(S) /\ Len(u) = IF 1 <= n THEN n - 1 + 1 ELSE 0
        /\ \A i \in 1..(n-1+1) : u[i] = s[1+i-1]
    BY <1>1, <1>2, SubSeqProperties
  <2> QED
    BY <1>2, <2>1
<1>4. v \in Seq(S) /\ Len(v) = n /\ \A i \in 1..n : v[i] = t[i]
  <2>1. /\ v \in Seq(S) /\ Len(v) = IF 1 <= n THEN n - 1 + 1 ELSE 0
        /\ \A i \in 1..(n-1+1) : v[i] = t[1+i-1]
    BY <1>1, <1>2, SubSeqProperties
  <2> QED
    BY <1>2, <2>1
<1>5. u = v
  BY <1>2, <1>3, <1>4, SeqEqual
<1> QED
  BY <1>1, <1>2, <1>5 DEF IsPrefix

LEMMA RisingAppend ==
    ASSUME NEW x \in Nat, NEW s \in Seq(Nat), NEW h \in Nat, Rising(x, s, h)
    PROVE  Rising(x, Append(s, h), h + 1) /\ Rising(x, s, h + 1)
<1>1. PICK t : t = Append(s, h)
  OBVIOUS
<1>2. /\ Len(s) \in Nat /\ Len(t) = Len(s) + 1
      /\ \A i \in 1..Len(s) : t[i] = s[i] /\ s[i] \in Nat
      /\ t[Len(s) + 1] = h
  BY <1>1
<1>3. \A i \in 1..Len(t) : i \in 1..Len(s) \/ i = Len(s) + 1
  BY <1>2
<1> QED
  BY <1>1, <1>2, <1>3 DEF Rising

LEMMA RisingTail ==
    ASSUME NEW x \in Nat, NEW s \in Seq(Nat), NEW next \in Nat, s # <<>>, Rising(x, s, next)
    PROVE  /\ Head(s) \in Nat /\ x < Head(s) /\ Head(s) < next
           /\ Tail(s) \in Seq(Nat) /\ Len(Tail(s)) = Len(s) - 1
           /\ Rising(Head(s), Tail(s), next)
<1>1. PICK t : t = Tail(s)
  OBVIOUS
<1>2. /\ Len(s) \in Nat /\ Len(s) > 0 /\ Head(s) = s[1] /\ t \in Seq(Nat)
      /\ Len(t) = Len(s) - 1
      /\ \A i \in 1..Len(t) : t[i] = s[i+1] /\ i + 1 \in 1..Len(s)
      /\ \A i \in 1..Len(s) : s[i] \in Nat
  BY <1>1
<1>3. 1 \in 1..Len(s) /\ \A i \in 1..Len(t) : 1 < i + 1
  BY <1>2
<1> QED
  BY <1>1, <1>2, <1>3 DEF Rising

LEMMA RisingConcat ==
    ASSUME NEW x \in Nat, NEW s \in Seq(Nat), NEW next \in Nat, Rising(x, s, next),
           NEW h, h = <<x>> \o s \o <<next>>
    PROVE  \A i, j \in DOMAIN h : i < j => h[i] < h[j]
<1>1. PICK n : n = Len(s)
  OBVIOUS
<1>2. /\ n \in Nat /\ Len(h) = n + 2 /\ DOMAIN h = 1..(n+2)
      /\ h[1] = x /\ h[n+2] = next
      /\ \A i \in 2..(n+1) : h[i] = s[i-1]
  BY <1>1
<1>3. /\ x < next
      /\ \A i \in 1..n : x < s[i] /\ s[i] < next /\ s[i] \in Nat
      /\ \A i, j \in 1..n : i < j => s[i] < s[j]
  BY <1>1 DEF Rising
<1> SUFFICES ASSUME NEW i \in 1..(n+2), NEW j \in 1..(n+2), i < j PROVE h[i] < h[j]
  BY <1>2
<1>4. i = 1 \/ i \in 2..(n+1)
  BY <1>2
<1>5. j = n + 2 \/ j \in 2..(n+1)
  BY <1>2
<1>6. \A k \in 2..(n+1) : k - 1 \in 1..n
  BY <1>2
<1>7. i - 1 < j - 1
  BY <1>2
<1> QED
  BY <1>2, <1>3, <1>4, <1>5, <1>6, <1>7

LEMMA LogAppend ==
    ASSUME NEW S, NEW l \in Seq(S), NEW c \in Seq(S), NEW g, NEW b \in S
    PROVE  /\ LogOf(l, c, g) => LogOf(l, Append(c, b), g)
           /\ LogOf(l, c, g) /\ Len(l) = Len(c) /\ b = (IF c = <<>> THEN g ELSE Last(c))
                => LogOf(Append(l, b), c, g)
<1>1. PICK d, m : d = Append(c, b) /\ m = Append(l, b)
  OBVIOUS
<1>2. /\ Len(c) \in Nat /\ Len(d) = Len(c) + 1 /\ \A i \in 1..Len(c) : d[i] = c[i]
      /\ Len(l) \in Nat /\ Len(m) = Len(l) + 1 /\ \A i \in 1..Len(l) : m[i] = l[i]
      /\ m[Len(l) + 1] = b
      /\ c = <<>> <=> Len(c) = 0
  BY <1>1, EmptySeq
<1>3. ASSUME LogOf(l, c, g) PROVE LogOf(l, d, g)
  <2> SUFFICES ASSUME NEW i \in 1..Len(l)
               PROVE  i <= Len(d) + 1 /\ l[i] = IF i = 1 THEN g ELSE d[i-1]
    BY DEF LogOf
  <2>1. i <= Len(c) + 1 /\ l[i] = IF i = 1 THEN g ELSE c[i-1]
    BY <1>3 DEF LogOf
  <2>2. i # 1 => i - 1 \in 1..Len(c)
    BY <1>2, <2>1
  <2> QED
    BY <1>2, <2>1, <2>2
<1>4. ASSUME LogOf(l, c, g), Len(l) = Len(c), b = IF c = <<>> THEN g ELSE Last(c)
      PROVE  LogOf(m, c, g)
  <2> SUFFICES ASSUME NEW i \in 1..Len(m)
               PROVE  i <= Len(c) + 1 /\ m[i] = IF i = 1 THEN g ELSE c[i-1]
    BY DEF LogOf
  <2>1. CASE i \in 1..Len(l)
    BY <1>2, <1>4, <2>1 DEF LogOf
  <2>2. CASE i = Len(l) + 1
    <3>1. i <= Len(c) + 1 /\ i - 1 = Len(c) /\ m[i] = b
      BY <1>2, <1>4, <2>2
    <3>2. i = 1 <=> c = <<>>
      BY <1>2, <1>4, <2>2
    <3>3. Last(c) = c[i-1]
      BY <3>1 DEF Last
    <3> QED
      BY <1>4, <3>1, <3>2, <3>3
  <2> QED
    BY <1>2, <2>1, <2>2
<1> QED
  BY <1>1, <1>3, <1>4

LEMMA ShownAppend ==
    ASSUME NEW S, NEW l \in Seq(S), NEW s, NEW b \in S, ShownIn(s, l)
    PROVE  ShownIn(s, Append(l, b))
<1>1. PICK m : m = Append(l, b)
  OBVIOUS
<1>2. Len(l) \in Nat /\ Len(m) = Len(l) + 1 /\ \A i \in 1..Len(l) : m[i] = l[i]
  BY <1>1
<1>3. ASSUME NEW i \in 1..Len(s) PROVE i + 1 <= Len(m) /\ m[i+1] = s[i]
  <2>1. i + 1 <= Len(l) /\ l[i+1] = s[i] /\ i + 1 \in Nat /\ i + 1 >= 1
    BY DEF ShownIn
  <2> QED
    BY <1>2, <2>1
<1> QED
  BY <1>1, <1>3 DEF ShownIn

LEMMA ShownMore ==
    ASSUME NEW S, NEW l, NEW c \in Seq(S), NEW g, NEW h \in Nat, Len(l) \in Nat,
           LogOf(l, c, g), h <= Len(c), h + 1 <= Len(l)
    PROVE  SubSeq(c, 1, h) \in Seq(S) /\ ShownIn(SubSeq(c, 1, h), l)
<1>1. PICK u : u = SubSeq(c, 1, h)
  OBVIOUS
<1>2. u \in Seq(S) /\ Len(u) = h /\ \A i \in 1..h : u[i] = c[i]
  <2>1. \A i \in 1..h : c[i] \in S
    OBVIOUS
  <2>2. /\ u \in Seq(S) /\ Len(u) = IF 1 <= h THEN h - 1 + 1 ELSE 0
        /\ \A i \in 1..(h-1+1) : u[i] = c[1+i-1]
    BY <1>1, <2>1, SubSeqProperties
  <2> QED
    BY <2>2
<1>3. ASSUME NEW i \in 1..h PROVE i + 1 <= Len(l) /\ l[i+1] = u[i]
  <2>1. i + 1 \in 1..Len(l) /\ i + 1 # 1 /\ (i + 1) - 1 = i
    OBVIOUS
  <2>2. l[i+1] = c[i]
    BY <2>1 DEF LogOf
  <2> QED
    BY <1>2, <2>1, <2>2
<1> QED
  BY <1>1, <1>2, <1>3 DEF ShownIn

LEMMA LogPrefix ==
    ASSUME NEW S, NEW l \in Seq(S), NEW c \in Seq(S), NEW g \in S, LogOf(l, c, g)
    PROVE  /\ IsPrefix(l, <<g>> \o c)
           /\ \A s \in Seq(S) : ShownIn(s, l) => IsPrefix(s, c)
<1>1. PICK d : d = <<g>> \o c
  OBVIOUS
<1>2. /\ Len(c) \in Nat /\ Len(l) \in Nat /\ d \in Seq(S)
      /\ Len(d) = Len(c) + 1 /\ d[1] = g /\ \A i \in 2..(Len(c) + 1) : d[i] = c[i-1]
  BY <1>1
<1>3. Len(l) <= Len(d) /\ \A i \in 1..Len(l) : l[i] = d[i]
  <2>1. ASSUME NEW i \in 1..Len(l) PROVE i <= Len(c) + 1 /\ l[i] = d[i]
    <3>1. i <= Len(c) + 1 /\ l[i] = IF i = 1 THEN g ELSE c[i-1]
      BY DEF LogOf
    <3>2. i # 1 => i \in 2..(Len(c) + 1)
      BY <1>2, <3>1
    <3> QED
      BY <1>2, <3>1, <3>2
  <2>2. Len(l) \in 1..Len(l) \/ Len(l) = 0
    BY <1>2
  <2> QED
    BY <1>2, <2>1, <2>2
<1>4. ASSUME NEW s \in Seq(S), ShownIn(s, l) PROVE IsPrefix(s, c)
  <2>1. Len(s) \in Nat
    OBVIOUS
  <2>2. ASSUME NEW i \in 1..Len(s) PROVE i <= Len(c) /\ s[i] = c[i]
    <3>1. i + 1 \in 1..Len(l) /\ i + 1 # 1 /\ (i + 1) - 1 = i /\ l[i+1] = s[i]
      BY <1>2, <1>4, <2>1 DEF ShownIn
    <3>2. i + 1 <= Len(c) + 1 /\ l[i+1] = c[i]
      BY <3>1 DEF LogOf
    <3> QED
      BY <1>2, <3>1, <3>2
  <2>3. Len(s) \in 1..Len(s) \/ Len(s) = 0
    BY <2>1
  <2>4. Len(s) <= Len(c)
    BY <1>2, <2>2, <2>3
  <2> QED
    BY <2>2, <2>4, PrefixByIndex
<1> QED
  BY <1>1, <1>2, <1>3, <1>4, PrefixByIndex

-----------------------------------------------------------------------------
(* The steps *)

LEMMA StateFacts ==
    ASSUME TypeInv
    PROVE  /\ chain \in Seq(ChainBlocks) /\ chain \in Seq(LogBlocks)
           /\ Len(chain) \in Nat /\ view.height = Len(chain)
           /\ \A i \in 1..Len(chain) : chain[i] \in ChainBlocks /\ chain[i].height = i
           /\ Blocks(file) \in Seq(LogBlocks) /\ Len(Blocks(file)) \in Nat
           /\ Genesis \in LogBlocks
           /\ NextEvent \in Nat
<1>1. IsChain(chain) /\ file \in Seq(Pieces(LogBlocks)) /\ view = Seed(chain)
  BY DEF TypeInv
<1>2. /\ chain \in Seq(ChainBlocks) /\ Len(chain) \in Nat
      /\ \A i \in 1..Len(chain) : chain[i] \in ChainBlocks /\ chain[i].height = i
  BY <1>1 DEF IsChain
<1>3. chain \in Seq(LogBlocks)
  <2>1. PICK S, T : S = ChainBlocks /\ T = LogBlocks
    OBVIOUS
  <2>2. S \subseteq T
    BY <2>1 DEF LogBlocks
  <2>3. chain \in Seq(S)
    BY <1>2, <2>1
  <2>4. chain \in Seq(T)
    BY <2>2, <2>3
  <2> QED
    BY <2>1, <2>4
<1>4. view.height = Len(chain)
  BY <1>1, SeedParts
<1>5. Blocks(file) \in Seq(LogBlocks)
  BY <1>1, BlocksTypes
<1>6. Len(Blocks(file)) \in Nat
  <2>1. PICK S, l : S = LogBlocks /\ l = Blocks(file)
    OBVIOUS
  <2>2. l \in Seq(S)
    BY <1>5, <2>1
  <2>3. Len(l) \in Nat
    BY <2>2
  <2> QED
    BY <2>1, <2>3
<1>7. Genesis \in LogBlocks
  <2>1. MaxCrashes \in Nat /\ keys \in -1..(MaxCrashes + 1)
    BY CrashAssumption DEF TypeInv
  <2>2. keys \in Int
    BY <2>1
  <2> QED
    BY <2>2 DEF Genesis, LogBlocks
<1>8. NextEvent \in Nat
  BY <1>2 DEF NextEvent
<1> QED
  BY <1>2, <1>3, <1>4, <1>5, <1>6, <1>7, <1>8

LEMMA InitInv == Init => Inv
<1> SUFFICES ASSUME Init PROVE Inv
  OBVIOUS
<1> USE DEF Init
<1>1. <<>> \in Seq(Nat) /\ Len(<<>>) = 0 /\ MaxCrashes \in Nat /\ Buffer \in Nat
  BY BufferAssumption, CrashAssumption
<1>2. IsChain(chain) /\ view = Seed(chain)
  BY SeedOfEmpty
<1>3. file \in Seq(Pieces(LogBlocks)) /\ shown \in Seq(ChainBlocks)
  OBVIOUS
<1>4. TypeInv
  <2>1. run \in Serving \cup {"down", "keys", "open", "fatal"}
    BY DEF Serving
  <2>2. keys \in -1..(MaxCrashes + 1) /\ crashes \in 0..MaxCrashes
    BY <1>1 DEF Absent
  <2>3. /\ buf \in [Clients -> Seq(Nat)] /\ heard \in [Clients -> Nat]
        /\ \A c \in Clients : Len(buf[c]) <= Buffer /\ buf[c] = <<>> /\ heard[c] = 0
    BY <1>1
  <2> QED
    BY <1>2, <1>3, <2>1, <2>2, <2>3 DEF TypeInv
<1>5. RunInv /\ LogInv
  BY DEF RunInv, LogInv, Serving, Locked
<1>6. ShownInv
  BY <1>1 DEF ShownInv, ShownIn
<1>7. EventInv
  BY DEF EventInv
<1> QED
  BY <1>4, <1>5, <1>6, <1>7 DEF Inv

LEMMA StutterStep == Inv /\ UNCHANGED vars => Inv'
<1> SUFFICES ASSUME Inv, UNCHANGED vars PROVE Inv'
  OBVIOUS
<1> USE DEF vars, procVars, clientVars
<1>1. TypeInv'
  BY DEF Inv, TypeInv
<1>2. RunInv'
  BY DEF Inv, RunInv
<1>3. LogInv'
  BY DEF Inv, LogInv, Genesis
<1>4. ShownInv'
  BY DEF Inv, ShownInv
<1>5. EventInv'
  BY DEF Inv, EventInv, NextEvent
<1> QED
  BY <1>1, <1>2, <1>3, <1>4, <1>5 DEF Inv

\* The keys, and an empty log: nothing is served yet.
LEMMA StartSteps == Inv /\ (LoadKeys \/ SaveKeys \/ Fresh) => Inv'
<1> SUFFICES ASSUME Inv, LoadKeys \/ SaveKeys \/ Fresh PROVE Inv'
  OBVIOUS
<1>1. /\ UNCHANGED <<file, broken, chain, view, subs, buf, heard, shown, crashes>>
      /\ excused' \in {excused, TRUE}
      /\ run \notin Serving
      /\ run' \in {"keys", "fatal", "open", "line"}
      /\ run' = "line" => file = <<>>
  BY DEF LoadKeys, SaveKeys, Fresh, clientVars, Serving, Locked
<1>2. keys' \in -1..(MaxCrashes + 1)
  <2>1. MaxCrashes \in Nat /\ crashes \in 0..MaxCrashes /\ keys \in -1..(MaxCrashes + 1)
    BY CrashAssumption DEF Inv, TypeInv
  <2>2. keys' \in {keys, Torn, crashes + 1}
    BY DEF LoadKeys, SaveKeys, Fresh
  <2> QED
    BY <2>1, <2>2 DEF Torn
<1>3. chain = <<>> /\ subs = {} /\ ~broken
  BY <1>1 DEF Inv, RunInv
<1>4. TypeInv'
  BY <1>1, <1>2 DEF Inv, TypeInv, Serving, Locked
<1>5. RunInv'
  BY <1>1, <1>3 DEF RunInv, Serving, Locked
<1>6. LogInv'
  <2>1. (file # <<>> => file[1] = Partial \/ file[1].piece = "block")'
    BY <1>1 DEF Inv, LogInv
  <2>2. ASSUME run' \in Serving
        PROVE  LogOf(Blocks(file'), chain', Genesis') /\ run' = "line"
               /\ Len(Blocks(file')) = Len(chain')
    <3>1. run' = "line" /\ file' = <<>> /\ chain' = <<>>
      BY <1>1, <1>3, <2>2 DEF Serving, Locked
    <3>2. Blocks(file') = <<>> /\ Len(<<>>) = 0
      BY <3>1, BlocksOfEmpty
    <3> QED
      BY <3>1, <3>2 DEF LogOf
  <2>3. Len(chain') \in Nat
    BY <1>1, <1>3
  <2> QED
    BY <2>1, <2>2, <2>3 DEF LogInv
<1>7. ShownInv'
  BY <1>1 DEF Inv, ShownInv
<1>8. EventInv'
  BY <1>1, <1>3 DEF EventInv
<1> QED
  BY <1>4, <1>5, <1>6, <1>7, <1>8 DEF Inv

\* A log that parses holds a block, and a restart that accepts it serves the
\* chain whose log it is.
LEMMA ResumedChain ==
    ASSUME TypeInv, LogInv, file # <<>>, Resumable
    PROVE  /\ IsChain(Tail(Blocks(file)))
           /\ LogOf(Blocks(file), Tail(Blocks(file)), Genesis)
           /\ Len(Blocks(file)) = Len(Tail(Blocks(file))) + 1
<1>1. PICK l, c, T : l = Blocks(file) /\ c = Tail(Blocks(file)) /\ T = LogBlocks
  OBVIOUS
<1>2. l \in Seq(T)
  BY <1>1, StateFacts
<1>3. file \in Seq(Pieces(T)) /\ Len(file) \in Nat /\ 1 \in DOMAIN file
  <2>1. PICK S : S = Pieces(LogBlocks)
    OBVIOUS
  <2>2. file \in Seq(S)
    BY <2>1 DEF TypeInv
  <2> QED
    BY <1>1, <2>1, <2>2
<1>4. l # <<>>
  <2>1. file[1] # Partial
    BY <1>3 DEF Resumable, Parses
  <2>2. file[1].piece = "block"
    BY <2>1 DEF LogInv
  <2> QED
    BY <1>1, <1>3, <2>2, BlocksTypes
<1>5. /\ Len(l) \in Nat /\ Len(l) > 0 /\ c \in Seq(T) /\ Len(c) = Len(l) - 1
      /\ \A i \in 1..Len(c) : c[i] = l[i+1]
      /\ \A i \in 1..Len(l) : l[i] \in T
      /\ DOMAIN l = 1..Len(l)
  BY <1>1, <1>2, <1>4
<1>6. l[1].height = 0 /\ l[1].keys = keys /\ \A i \in 1..Len(l) : l[i].height = i - 1
  BY <1>1, <1>5 DEF Resumable
<1>7. l[1] = Genesis
  <2>1. l[1] \in LogBlocks
    BY <1>1, <1>5
  <2>2. l[1] \notin ChainBlocks
    BY <1>6 DEF ChainBlocks
  <2>3. l[1] \in [height : {0}, txs : {<<>>}, keys : Int]
    BY <2>1, <2>2 DEF LogBlocks
  <2>4. l[1] = [height |-> 0, txs |-> <<>>, keys |-> l[1].keys]
    BY <2>3
  <2> QED
    BY <1>6, <2>4 DEF Genesis
<1>8. \A i \in 1..Len(c) : c[i] \in ChainBlocks /\ c[i].height = i
  <2> SUFFICES ASSUME NEW i \in 1..Len(c) PROVE c[i] \in ChainBlocks /\ c[i].height = i
    OBVIOUS
  <2>1. i + 1 \in 1..Len(l) /\ c[i] = l[i+1] /\ (i + 1) - 1 = i /\ i # 0
    BY <1>5
  <2>2. c[i].height = i /\ c[i] \in LogBlocks
    BY <1>1, <1>5, <1>6, <2>1
  <2> QED
    BY <2>1, <2>2 DEF LogBlocks
<1>9. IsChain(c)
  <2>1. PICK S : S = ChainBlocks
    OBVIOUS
  <2>2. c \in Seq(S)
    BY <1>5, <1>8, <2>1
  <2> QED
    BY <1>8, <2>1, <2>2 DEF IsChain
<1>10. LogOf(l, c, Genesis)
  <2> SUFFICES ASSUME NEW i \in 1..Len(l)
               PROVE  i <= Len(c) + 1 /\ l[i] = IF i = 1 THEN Genesis ELSE c[i-1]
    BY DEF LogOf
  <2>1. i # 1 => i - 1 \in 1..Len(c) /\ (i - 1) + 1 = i
    BY <1>5
  <2> QED
    BY <1>5, <1>7, <2>1
<1> QED
  BY <1>1, <1>5, <1>9, <1>10

LEMMA ResumeStep == Inv /\ Resume => Inv'
<1> SUFFICES ASSUME Inv, Resume PROVE Inv'
  OBVIOUS
<1>1. /\ UNCHANGED <<keys, file, broken, subs, buf, heard, shown, crashes, excused>>
      /\ run = "open" /\ file # <<>> /\ chain = <<>> /\ subs = {} /\ ~broken
  BY DEF Inv, RunInv, Resume, clientVars, Serving, Locked
<1>2. /\ IsChain(chain') /\ view' = Seed(chain')
      /\ \/ run' = "fatal" /\ chain' = chain
         \/ /\ run' = "ready"
            /\ LogOf(Blocks(file), chain', Genesis)
            /\ Len(Blocks(file)) = Len(chain') + 1
  <2>1. CASE Resumable
    BY <1>1, <2>1, ResumedChain DEF Inv, Resume
  <2>2. CASE ~Resumable
    BY <2>2 DEF Inv, TypeInv, Resume
  <2> QED
    BY <2>1, <2>2
<1>3. TypeInv'
  <2>1. run' \in Serving \cup {"down", "keys", "open", "fatal"}
    BY <1>2 DEF Serving
  <2> QED
    BY <1>1, <1>2, <2>1 DEF Inv, TypeInv
<1>4. RunInv'
  BY <1>1, <1>2 DEF RunInv, Serving, Locked
<1>5. LogInv'
  <2>1. Genesis' = Genesis /\ Blocks(file') = Blocks(file)
    BY <1>1 DEF Genesis
  <2>2. run' \in Serving => run' = "ready"
    BY <1>2 DEF Serving, Locked
  <2> QED
    BY <1>1, <1>2, <2>1, <2>2 DEF Inv, LogInv
<1>6. ShownInv'
  BY <1>1 DEF Inv, ShownInv
<1>7. EventInv'
  BY <1>1 DEF EventInv
<1> QED
  BY <1>3, <1>4, <1>5, <1>6, <1>7 DEF Inv

LEMMA NewBlockIsOne ==
    ASSUME TypeInv, NEW n \in Sizes, NEW p \in Proposers
    PROVE  NewBlock(n, p) \in ChainBlocks /\ NewBlock(n, p).height = Len(chain) + 1
<1>1. n \in Nat /\ Len(chain) + 1 \in Nat \ {0}
  BY BufferAssumption, StateFacts
<1>2. PICK h, t : h = Len(chain) + 1 /\ t = [i \in 1..n |-> <<h, i>>]
  OBVIOUS
<1>3. t \in Seq(Nat \X Nat)
  <2>1. \A i \in 1..n : i \in Nat /\ <<h, i>> \in Nat \X Nat
    BY <1>1, <1>2
  <2> QED
    BY <1>1, <1>2, <2>1
<1>4. PICK b : b = [height |-> h, proposer |-> p, txs |-> t]
  OBVIOUS
<1>5. NewBlock(n, p) = b
  BY <1>2, <1>4 DEF NewBlock
<1>6. b.height = h /\ b.txs = t
  BY <1>4
<1>7. b.txs = [i \in 1..n |-> <<b.height, i>>]
  BY <1>2, <1>6
<1>8. b \in [height : Nat \ {0}, proposer : Proposers, txs : Seq(Nat \X Nat)]
  BY <1>1, <1>2, <1>3, <1>4
<1>9. b \in ChainBlocks
  BY <1>7, <1>8 DEF ChainBlocks
<1> QED
  BY <1>2, <1>5, <1>6, <1>9

LEMMA CommitStep == ASSUME NEW b \in Committed PROVE Inv /\ Commit(b) => Inv'
<1> SUFFICES ASSUME Inv, Commit(b) PROVE Inv'
  OBVIOUS
<1>1. /\ UNCHANGED <<keys, file, broken, subs, buf, heard, shown, crashes, excused>>
      /\ run = "ready" /\ run' = "line"
      /\ chain' = Append(chain, b) /\ view' = Record(view, b)
      /\ b.height > view.height
  BY DEF Commit, clientVars, IsNew
<1>2. TypeInv /\ LogInv /\ EventInv /\ view = Seed(chain) /\ IsChain(chain)
  BY DEF Inv, TypeInv
<1>3. /\ chain \in Seq(LogBlocks) /\ Len(chain) \in Nat /\ view.height = Len(chain)
      /\ \A i \in 1..Len(chain) : chain[i].height = i
      /\ Blocks(file) \in Seq(LogBlocks)
  BY <1>2, StateFacts
<1>4. b \in ChainBlocks /\ b.height = Len(chain) + 1
  <2>1. b \notin ToSet(chain)
    <3>1. DOMAIN chain = 1..Len(chain)
      BY <1>3
    <3> QED
      BY <1>1, <1>3, <3>1 DEF ToSet
  <2>2. PICK n \in Sizes, p \in Proposers : b = NewBlock(n, p)
    BY <2>1 DEF Committed
  <2> QED
    BY <1>2, <2>2, NewBlockIsOne
<1>5. /\ IsChain(chain') /\ Len(chain') = Len(chain) + 1
      /\ view' = Seed(chain') /\ chain' # <<>>
  <2>1. view' = Seed(chain')
    BY <1>1, <1>2, <1>4, SeedAppend
  <2>2. IsChain(chain') /\ Len(chain') = Len(chain) + 1
    BY <1>1, <1>2, <1>4, ChainAppend
  <2> QED
    BY <1>3, <2>1, <2>2
<1>6. TypeInv'
  BY <1>1, <1>5 DEF Inv, TypeInv, Serving, Locked
<1>7. RunInv'
  BY <1>1, <1>5 DEF RunInv, Serving, Locked
<1>8. LogInv'
  <2>1. /\ LogOf(Blocks(file), chain, Genesis)
        /\ ~broken => Len(Blocks(file)) = Len(chain) + 1
        /\ file # <<>> => file[1] = Partial \/ file[1].piece = "block"
    BY <1>1, <1>2 DEF LogInv, Serving
  <2>2. b \in LogBlocks
    BY <1>4 DEF LogBlocks
  <2>3. LogOf(Blocks(file), chain', Genesis)
    BY <1>1, <1>3, <2>1, <2>2, LogAppend
  <2>4. Genesis' = Genesis
    BY <1>1 DEF Genesis
  <2>5. Len(chain') + 0 = Len(chain) + 1
    BY <1>3, <1>5
  <2> QED
    BY <1>1, <2>1, <2>3, <2>4, <2>5 DEF LogInv
<1>9. ShownInv'
  BY <1>1 DEF Inv, ShownInv
<1>10. EventInv'
  BY <1>1, <1>2, <1>5 DEF EventInv, NextEvent
<1> QED
  BY <1>6, <1>7, <1>8, <1>9, <1>10 DEF Inv

\* A step that leaves the file, or adds to it a piece that holds no block.
LEMMA FileSame ==
    ASSUME TypeInv, LogInv, NEW f,
           f = file \/ (file # <<>> /\ f = Append(file, Newline)) \/ f = Append(file, Partial)
    PROVE  /\ f \in Seq(Pieces(LogBlocks))
           /\ f # <<>> => f[1] = Partial \/ f[1].piece = "block"
           /\ file # <<>> => f # <<>>
           /\ Blocks(f) = Blocks(file)
<1>1. PICK T : T = Pieces(LogBlocks)
  OBVIOUS
<1>2. file \in Seq(T) /\ Newline \in T /\ Partial \in T
  BY <1>1 DEF TypeInv, Pieces
<1>3. Newline.piece = "newline" /\ Partial.piece = "part"
  BY DEF Newline, Partial
<1>4. \A x \in T : /\ Append(file, x) \in Seq(T) /\ Append(file, x) # <<>>
                   /\ Append(file, x)[1] = IF file = <<>> THEN x ELSE file[1]
  BY <1>2
<1>5. \A x \in T : x.piece # "block" => Blocks(Append(file, x)) = Blocks(file)
  BY <1>2, BlocksAppend
<1>6. file # <<>> => file[1] = Partial \/ file[1].piece = "block"
  BY DEF LogInv
<1>7. CASE f = file
  BY <1>1, <1>2, <1>6, <1>7
<1>8. CASE file # <<>> /\ f = Append(file, Newline)
  <2>1. f \in Seq(T) /\ f # <<>> /\ f[1] = file[1] /\ Blocks(f) = Blocks(file)
    BY <1>2, <1>3, <1>4, <1>5, <1>8
  <2> QED
    BY <1>1, <1>6, <1>8, <2>1
<1>9. CASE f = Append(file, Partial)
  <2>1. /\ f \in Seq(T) /\ f # <<>> /\ Blocks(f) = Blocks(file)
        /\ f[1] = IF file = <<>> THEN Partial ELSE file[1]
    BY <1>2, <1>3, <1>4, <1>5, <1>9
  <2> QED
    BY <1>1, <1>6, <2>1
<1> QED
  BY <1>7, <1>8, <1>9

\* The line of the block that is to be written, and perhaps its newline.
LEMMA FileGrows ==
    ASSUME TypeInv, NEW f,
           \/ f = Append(file, Line(Written))
           \/ f = file \o <<Line(Written), Newline>>
    PROVE  /\ f \in Seq(Pieces(LogBlocks)) /\ f # <<>>
           /\ f[1] = IF file = <<>> THEN Line(Written) ELSE file[1]
           /\ Line(Written).piece = "block"
           /\ Written \in LogBlocks
           /\ Blocks(f) = Append(Blocks(file), Written)
<1>1. PICK T, x, y : T = Pieces(LogBlocks) /\ x = Line(Written) /\ y = Newline
  OBVIOUS
<1>2. Written \in LogBlocks
  <2>1. Genesis \in LogBlocks /\ chain \in Seq(ChainBlocks)
    BY StateFacts
  <2>2. CASE chain = <<>>
    BY <2>1, <2>2 DEF Written
  <2>3. CASE chain # <<>>
    <3>1. PICK S : S = ChainBlocks
      OBVIOUS
    <3>2. chain \in Seq(S)
      BY <2>1, <3>1
    <3>3. Len(chain) \in 1..Len(chain) /\ chain[Len(chain)] \in S
      BY <2>3, <3>2
    <3> QED
      BY <2>3, <3>1, <3>3 DEF Written, Last, LogBlocks
  <2> QED
    BY <2>2, <2>3
<1>3. /\ file \in Seq(T) /\ x \in T /\ y \in T
      /\ x.piece = "block" /\ x.block = Written /\ y.piece # "block"
  BY <1>1, <1>2 DEF TypeInv, Pieces, Line, Newline
<1>4. PICK e : e = Append(file, x)
  OBVIOUS
<1>5. /\ e \in Seq(T) /\ e # <<>> /\ e[1] = (IF file = <<>> THEN x ELSE file[1])
      /\ Append(e, y) \in Seq(T) /\ Append(e, y) # <<>> /\ Append(e, y)[1] = e[1]
      /\ file \o <<x, y>> = Append(e, y)
  BY <1>3, <1>4
<1>6. f = e \/ f = Append(e, y)
  BY <1>1, <1>4, <1>5
<1>7. Blocks(e) = Append(Blocks(file), Written)
  BY <1>3, <1>4, BlocksAppend
<1>8. Blocks(Append(e, y)) = Blocks(e)
  BY <1>3, <1>5, BlocksAppend
<1> QED
  BY <1>1, <1>2, <1>3, <1>5, <1>6, <1>7, <1>8

LEMMA WriteStep == Inv /\ (WriteLine \/ WriteNewline) => Inv'
<1> SUFFICES ASSUME Inv, WriteLine \/ WriteNewline PROVE Inv'
  OBVIOUS
<1>1. /\ TypeInv /\ LogInv /\ ShownInv /\ EventInv /\ RunInv
      /\ UNCHANGED <<keys, chain, view, subs, buf, heard, shown, crashes>>
      /\ run \in {"line", "newline"}
  BY DEF Inv, WriteLine, WriteNewline, clientVars
<1> DEFINE failed == /\ run' = Done /\ broken' /\ broken' \in BOOLEAN /\ excused' \in BOOLEAN
                     /\ file' \in {file, Append(file, Partial)}
           ended  == /\ run' = Done /\ run = "newline" /\ UNCHANGED <<broken, excused>>
                     /\ file' = Append(file, Newline)
           grown  == /\ run' \in {"newline", Done} /\ run = "line" /\ ~broken
                     /\ broken' \in BOOLEAN /\ excused' \in BOOLEAN
                     /\ \/ file' = Append(file, Line(Written))
                        \/ file' = file \o <<Line(Written), Newline>>
<1>2. failed \/ ended \/ grown
  <2>1. CASE WriteLine
    <3>1. CASE Stuck /\ run' = Done /\ UNCHANGED <<file, broken, excused>>
      BY <1>1, <3>1 DEF Stuck, TypeInv
    <3>2. CASE /\ ~Stuck /\ Fail
               /\ file' \in {file, Append(file, Partial), Append(file, Line(Written))}
               /\ run' = Done
      BY <2>1, <3>2 DEF Fail, Stuck, WriteLine
    <3>3. CASE /\ ~Stuck /\ OneWrite(Written)
               /\ file' = file \o <<Line(Written), Newline>>
               /\ run' = Done
               /\ UNCHANGED <<broken, excused>>
      BY <1>1, <2>1, <3>3 DEF Stuck, WriteLine, TypeInv
    <3>4. CASE /\ ~Stuck /\ ~OneWrite(Written)
               /\ file' = Append(file, Line(Written))
               /\ run' = "newline"
               /\ UNCHANGED <<broken, excused>>
      BY <1>1, <2>1, <3>4 DEF Stuck, WriteLine, TypeInv
    <3> QED
      BY <2>1, <3>1, <3>2, <3>3, <3>4 DEF WriteLine
  <2>2. CASE WriteNewline
    BY <2>2 DEF WriteNewline, Fail
  <2> QED
    BY <2>1, <2>2
<1>3. /\ file' \in Seq(Pieces(LogBlocks))
      /\ file' # <<>> => file'[1] = Partial \/ file'[1].piece = "block"
      /\ run' = "newline" => file' # <<>>
      /\ \/ (failed \/ ended) /\ Blocks(file') = Blocks(file)
         \/ grown /\ Blocks(file') = Append(Blocks(file), Written)
  <2>1. CASE failed \/ ended
    <3>1. run' # "newline"
      BY <2>1 DEF Done
    <3>2. \/ file' = file
          \/ file # <<>> /\ file' = Append(file, Newline)
          \/ file' = Append(file, Partial)
      BY <1>1, <2>1 DEF RunInv
    <3> QED
      BY <1>1, <2>1, <3>1, <3>2, FileSame
  <2>2. CASE grown
    <3>1. /\ file' \in Seq(Pieces(LogBlocks)) /\ file' # <<>>
          /\ file'[1] = IF file = <<>> THEN Line(Written) ELSE file[1]
          /\ Line(Written).piece = "block"
          /\ Blocks(file') = Append(Blocks(file), Written)
      BY <1>1, <2>2, FileGrows
    <3>2. file # <<>> => file[1] = Partial \/ file[1].piece = "block"
      BY <1>1 DEF LogInv
    <3> QED
      BY <2>2, <3>1, <3>2
  <2> QED
    BY <1>2, <2>1, <2>2
<1>4. /\ run' \in {"ready", "emit", "newline"}
      /\ run' = "ready" => chain = <<>>
      /\ run' = "emit" => chain # <<>>
      /\ broken' \in BOOLEAN /\ excused' \in BOOLEAN
  BY <1>1, <1>2 DEF Done, TypeInv
<1>5. TypeInv'
  BY <1>1, <1>3, <1>4 DEF TypeInv, Serving, Locked
<1>6. RunInv'
  BY <1>1, <1>3, <1>4 DEF RunInv, Serving, Locked
<1>7. /\ LogOf(Blocks(file), chain, Genesis)
      /\ run = "line" /\ ~broken => Len(Blocks(file)) = Len(chain)
      /\ run = "newline" /\ ~broken => Len(Blocks(file)) = Len(chain) + 1
  <2>1. run \in Serving /\ Len(chain) \in Nat
    BY <1>1, StateFacts DEF Serving, Locked
  <2> QED
    BY <1>1, <2>1 DEF LogInv
<1>8. /\ LogOf(Blocks(file'), chain, Genesis)
      /\ ~broken' => Len(Blocks(file')) = Len(chain) + 1
      /\ ShownIn(shown, Blocks(file'))
  <2>1. CASE (failed \/ ended) /\ Blocks(file') = Blocks(file)
    BY <1>1, <1>7, <2>1 DEF ShownInv
  <2>2. CASE grown /\ Blocks(file') = Append(Blocks(file), Written)
    <3>1. PICK T, l, c, w, g :
            T = LogBlocks /\ l = Blocks(file) /\ c = chain /\ w = Written /\ g = Genesis
      OBVIOUS
    <3>2. /\ l \in Seq(T) /\ c \in Seq(T) /\ w \in T
          /\ LogOf(l, c, g) /\ Len(l) = Len(c)
          /\ w = (IF c = <<>> THEN g ELSE Last(c))
          /\ ShownIn(shown, l)
      <4>1. Written \in LogBlocks
        BY <1>1, <2>2, FileGrows
      <4> QED
        BY <1>1, <1>7, <2>2, <3>1, <4>1, StateFacts DEF Written, ShownInv
    <3>3. LogOf(Append(l, w), c, g)
      BY <3>2, LogAppend
    <3>4. ShownIn(shown, Append(l, w))
      BY <3>2, ShownAppend
    <3>5. Len(Append(l, w)) = Len(c) + 1
      BY <3>2
    <3> QED
      BY <2>2, <3>1, <3>3, <3>4, <3>5
  <2> QED
    BY <1>3, <2>1, <2>2
<1>9. LogInv'
  <2>1. Genesis' = Genesis
    BY <1>1 DEF Genesis
  <2> QED
    BY <1>1, <1>3, <1>4, <1>8, <2>1 DEF LogInv
<1>10. ShownInv'
  BY <1>1, <1>8 DEF ShownInv
<1>11. EventInv'
  <2>1. CASE chain = <<>>
    BY <1>1, <2>1 DEF RunInv, EventInv
  <2>2. CASE chain # <<>>
    <3>1. NextEvent = Len(chain) /\ NextEvent' = Len(chain')
      BY <1>1, <1>4, <2>2 DEF NextEvent
    <3> QED
      BY <1>1, <3>1 DEF EventInv
  <2> QED
    BY <2>1, <2>2
<1> QED
  BY <1>5, <1>6, <1>9, <1>10, <1>11 DEF Inv

LEMMA EmitStep == Inv /\ Emit => Inv'
<1> SUFFICES ASSUME Inv, Emit PROVE Inv'
  OBVIOUS
<1>1. /\ TypeInv /\ LogInv /\ ShownInv /\ EventInv /\ RunInv
      /\ UNCHANGED <<keys, file, broken, chain, view, subs, heard, shown, crashes, excused>>
      /\ run = "emit" /\ run' = "ready"
      /\ buf' = Delivered(view.height)
  BY DEF Inv, Emit
<1>2. PICK h : h = Len(chain)
  OBVIOUS
<1>3. h \in Nat /\ view.height = h
  BY <1>1, <1>2, StateFacts
<1>4. /\ buf \in [Clients -> Seq(Nat)] /\ heard \in [Clients -> Nat] /\ subs \subseteq Clients
      /\ \A c \in Clients : Len(buf[c]) <= Buffer
      /\ \A c \in Clients : c \notin subs => buf[c] = <<>> /\ heard[c] = 0
      /\ Buffer \in Nat
  BY <1>1, BufferAssumption DEF TypeInv
<1>5. /\ buf' \in [Clients -> Seq(Nat)]
      /\ \A c \in Clients :
          buf'[c] = IF c \in subs /\ Len(buf[c]) < Buffer THEN Append(buf[c], h) ELSE buf[c]
  BY <1>1, <1>3, <1>4 DEF Delivered
<1>6. \A c \in Clients : Len(buf'[c]) <= Buffer
  <2> SUFFICES ASSUME NEW c \in Clients PROVE Len(buf'[c]) <= Buffer
    OBVIOUS
  <2>1. PICK s : s = buf[c]
    OBVIOUS
  <2>2. s \in Seq(Nat) /\ Len(s) \in Nat /\ Len(Append(s, h)) = Len(s) + 1 /\ Len(s) <= Buffer
    BY <1>3, <1>4, <2>1
  <2> QED
    BY <1>4, <1>5, <2>1, <2>2
<1>7. TypeInv'
  BY <1>1, <1>4, <1>5, <1>6 DEF TypeInv, Serving, Locked
<1>8. RunInv'
  BY <1>1 DEF RunInv, Serving, Locked
<1>9. LogInv'
  BY <1>1 DEF LogInv, Genesis, Serving, Locked
<1>10. ShownInv'
  BY <1>1 DEF ShownInv
<1>11. EventInv'
  <2> SUFFICES ASSUME NEW c \in subs PROVE Rising(heard[c], buf'[c], h + 1)
    BY <1>1, <1>2 DEF EventInv, NextEvent
  <2>1. PICK x, s : x = heard[c] /\ s = buf[c]
    OBVIOUS
  <2>2. x \in Nat /\ s \in Seq(Nat) /\ Rising(x, s, h)
    BY <1>1, <1>2, <1>4, <2>1 DEF EventInv, NextEvent
  <2>3. Rising(x, Append(s, h), h + 1) /\ Rising(x, s, h + 1)
    BY <1>3, <2>2, RisingAppend
  <2>4. buf'[c] = Append(s, h) \/ buf'[c] = s
    BY <1>4, <1>5, <2>1
  <2> QED
    BY <2>1, <2>3, <2>4
<1> QED
  BY <1>7, <1>8, <1>9, <1>10, <1>11 DEF Inv

\* What is shown of the chain is in the log by then, unless a write failed.
LEMMA ShownStep ==
    ASSUME Inv, run \in Serving, NEW h \in Nat, h < NextEvent \/ h <= Len(shown)
    PROVE  Shown(h) \in Seq(ChainBlocks) /\ ShownIn(Shown(h), Blocks(file))
<1>1. TypeInv /\ LogInv /\ ShownInv
  BY DEF Inv
<1>2. CASE broken \/ h <= Len(shown)
  BY <1>1, <1>2 DEF Shown, ShownInv, TypeInv
<1>3. CASE ~(broken \/ h <= Len(shown))
  <2>1. Shown(h) = SubSeq(chain, 1, h)
    BY <1>3 DEF Shown
  <2>2. /\ chain \in Seq(ChainBlocks) /\ Len(chain) \in Nat /\ Len(Blocks(file)) \in Nat
    BY <1>1, StateFacts
  <2>3. /\ LogOf(Blocks(file), chain, Genesis)
        /\ Len(Blocks(file)) = Len(chain) + IF run = "line" THEN 0 ELSE 1
    BY <1>1, <1>3 DEF LogInv
  <2>4. h <= Len(chain) /\ h + 1 <= Len(Blocks(file))
    BY <1>3, <2>2, <2>3 DEF NextEvent
  <2>5. PICK S, l, c, g : S = ChainBlocks /\ l = Blocks(file) /\ c = chain /\ g = Genesis
    OBVIOUS
  <2>6. SubSeq(c, 1, h) \in Seq(S) /\ ShownIn(SubSeq(c, 1, h), l)
    BY <2>2, <2>3, <2>4, <2>5, ShownMore
  <2> QED
    BY <2>1, <2>5, <2>6
<1> QED
  BY <1>2, <1>3

LEMMA SubscribeStep ==
    ASSUME NEW c \in Clients PROVE Inv /\ (Subscribe(c) \/ Unsubscribe(c)) => Inv'
<1> SUFFICES ASSUME Inv, Subscribe(c) \/ Unsubscribe(c) PROVE Inv'
  OBVIOUS
<1>1. /\ TypeInv /\ LogInv /\ ShownInv /\ EventInv /\ RunInv
      /\ UNCHANGED <<run, keys, file, broken, chain, view, shown, crashes, excused>>
      /\ run = "ready"
  BY DEF Inv, Subscribe, Unsubscribe, procVars
<1>2. /\ subs \subseteq Clients
      /\ buf \in [Clients -> Seq(Nat)] /\ heard \in [Clients -> Nat]
      /\ \A d \in Clients : Len(buf[d]) <= Buffer
      /\ \A d \in Clients : d \notin subs => buf[d] = <<>> /\ heard[d] = 0
      /\ Buffer \in Nat /\ Len(<<>>) = 0 /\ <<>> \in Seq(Nat)
      /\ Len(chain) \in Nat
  BY <1>1, BufferAssumption, StateFacts DEF TypeInv
<1>3. /\ subs' \subseteq Clients
      /\ buf' \in [Clients -> Seq(Nat)] /\ heard' \in [Clients -> Nat]
      /\ \A d \in Clients : Len(buf'[d]) <= Buffer
      /\ \A d \in Clients : d \notin subs' => buf'[d] = <<>> /\ heard'[d] = 0
      /\ \A d \in subs' : \/ d \in subs /\ buf'[d] = buf[d] /\ heard'[d] = heard[d]
                          \/ buf'[d] = <<>> /\ heard'[d] = 0
  <2>1. CASE Subscribe(c)
    BY <1>2, <2>1 DEF Subscribe
  <2>2. CASE Unsubscribe(c)
    <3>1. /\ subs' = subs \ {c}
          /\ \A d \in Clients : /\ buf'[d] = IF d = c THEN <<>> ELSE buf[d]
                                /\ heard'[d] = IF d = c THEN 0 ELSE heard[d]
          /\ buf' \in [Clients -> Seq(Nat)] /\ heard' \in [Clients -> Nat]
      BY <1>2, <2>2 DEF Unsubscribe
    <3> QED
      BY <1>2, <3>1
  <2> QED
    BY <2>1, <2>2
<1>4. TypeInv'
  BY <1>1, <1>3 DEF TypeInv
<1>5. RunInv'
  BY <1>1 DEF RunInv, Serving
<1>6. LogInv'
  BY <1>1 DEF LogInv, Genesis
<1>7. ShownInv'
  BY <1>1 DEF ShownInv
<1>8. EventInv'
  <2>1. NextEvent' = NextEvent /\ NextEvent = Len(chain) + 1
    BY <1>1 DEF NextEvent
  <2>2. Rising(0, <<>>, Len(chain) + 1)
    BY <1>2 DEF Rising
  <2> QED
    BY <1>1, <1>3, <2>1, <2>2 DEF EventInv
<1> QED
  BY <1>4, <1>5, <1>6, <1>7, <1>8 DEF Inv

LEMMA ReadEventStep == ASSUME NEW c \in Clients PROVE Inv /\ ReadEvent(c) => Inv'
<1> SUFFICES ASSUME Inv, ReadEvent(c) PROVE Inv'
  OBVIOUS
<1>1. /\ TypeInv /\ LogInv /\ ShownInv /\ EventInv /\ RunInv
      /\ UNCHANGED <<run, keys, file, broken, chain, view, subs, crashes, excused>>
      /\ run \in Serving /\ buf[c] # <<>>
      /\ heard' = [heard EXCEPT ![c] = Head(buf[c])]
      /\ buf' = [buf EXCEPT ![c] = Tail(@)]
      /\ shown' = Shown(Head(buf[c]))
  BY DEF Inv, ReadEvent, procVars
<1>2. /\ subs \subseteq Clients
      /\ buf \in [Clients -> Seq(Nat)] /\ heard \in [Clients -> Nat]
      /\ \A d \in Clients : Len(buf[d]) <= Buffer
      /\ \A d \in Clients : d \notin subs => buf[d] = <<>> /\ heard[d] = 0
      /\ Buffer \in Nat /\ NextEvent \in Nat
  BY <1>1, BufferAssumption, StateFacts DEF TypeInv
<1>3. PICK x, s, t, h : x = heard[c] /\ s = buf[c] /\ t = Tail(buf[c]) /\ h = Head(buf[c])
  OBVIOUS
<1>4. c \in subs /\ x \in Nat /\ s \in Seq(Nat) /\ s # <<>> /\ Rising(x, s, NextEvent)
  BY <1>1, <1>2, <1>3 DEF EventInv
<1>5. /\ h \in Nat /\ x < h /\ h < NextEvent
      /\ t \in Seq(Nat) /\ Len(t) = Len(s) - 1
      /\ Rising(h, t, NextEvent)
  BY <1>2, <1>3, <1>4, RisingTail
<1>6. /\ buf' \in [Clients -> Seq(Nat)] /\ heard' \in [Clients -> Nat]
      /\ \A d \in Clients : /\ buf'[d] = IF d = c THEN t ELSE buf[d]
                            /\ heard'[d] = IF d = c THEN h ELSE heard[d]
  BY <1>1, <1>2, <1>3, <1>5
<1>7. shown' \in Seq(ChainBlocks) /\ ShownIn(shown', Blocks(file))
  BY <1>1, <1>3, <1>5, ShownStep
<1>8. TypeInv'
  <2>1. \A d \in Clients : Len(buf'[d]) <= Buffer
    <3>1. Len(s) \in Nat /\ Len(s) <= Buffer
      BY <1>2, <1>3, <1>4
    <3>2. Len(t) <= Buffer
      BY <1>2, <1>5, <3>1
    <3> QED
      BY <1>2, <1>6, <3>2
  <2>2. \A d \in Clients : d \notin subs => buf'[d] = <<>> /\ heard'[d] = 0
    BY <1>2, <1>4, <1>6
  <2> QED
    BY <1>1, <1>2, <1>6, <1>7, <2>1, <2>2 DEF TypeInv
<1>9. RunInv'
  BY <1>1 DEF RunInv
<1>10. LogInv'
  BY <1>1 DEF LogInv, Genesis
<1>11. ShownInv'
  BY <1>1, <1>7 DEF ShownInv
<1>12. EventInv'
  <2>1. NextEvent' = NextEvent
    BY <1>1 DEF NextEvent
  <2> QED
    BY <1>1, <1>2, <1>5, <1>6, <2>1 DEF EventInv
<1> QED
  BY <1>8, <1>9, <1>10, <1>11, <1>12 DEF Inv

LEMMA SnapshotStep == Inv /\ Snapshot => Inv'
<1> SUFFICES ASSUME Inv, Snapshot PROVE Inv'
  OBVIOUS
<1>1. /\ TypeInv /\ LogInv /\ ShownInv /\ EventInv /\ RunInv
      /\ UNCHANGED <<run, keys, file, broken, chain, view, subs, buf, heard, crashes, excused>>
      /\ run = "ready" /\ shown' = Shown(view.height)
  BY DEF Inv, Snapshot, procVars
<1>2. view.height \in Nat /\ view.height < NextEvent /\ run \in Serving
  <2>1. view.height = Len(chain) /\ Len(chain) \in Nat
    BY <1>1, StateFacts
  <2> QED
    BY <1>1, <2>1 DEF NextEvent, Serving
<1>3. shown' \in Seq(ChainBlocks) /\ ShownIn(shown', Blocks(file))
  BY <1>1, <1>2, ShownStep
<1>4. TypeInv'
  BY <1>1, <1>3 DEF TypeInv
<1>5. RunInv'
  BY <1>1 DEF RunInv
<1>6. LogInv'
  BY <1>1 DEF LogInv, Genesis
<1>7. ShownInv'
  BY <1>1, <1>3 DEF ShownInv
<1>8. EventInv'
  BY <1>1 DEF EventInv, NextEvent
<1> QED
  BY <1>4, <1>5, <1>6, <1>7, <1>8 DEF Inv

LEMMA CrashStep == Inv /\ (ProcessCrash \/ MachineCrash) => Inv'
<1> SUFFICES ASSUME Inv, ProcessCrash \/ MachineCrash PROVE Inv'
  OBVIOUS
<1>1. /\ TypeInv /\ LogInv /\ ShownInv
      /\ run' = "down" /\ broken' = FALSE /\ chain' = <<>> /\ view' = Blank
      /\ crashes' = crashes + 1 /\ crashes < MaxCrashes
      /\ subs' = {} /\ buf' = [c \in Clients |-> <<>>] /\ heard' = [c \in Clients |-> 0]
      /\ \/ UNCHANGED <<keys, file, shown, excused>>
         \/ /\ file' \in {file} \cup Survivors(file)
            /\ keys' \in {keys, Absent, Torn}
            /\ shown' = <<>> /\ excused' = TRUE
  BY DEF Inv, ProcessCrash, MachineCrash, Down
<1>2. /\ MaxCrashes \in Nat /\ crashes \in 0..MaxCrashes /\ keys \in -1..(MaxCrashes + 1)
      /\ file \in Seq(Pieces(LogBlocks)) /\ shown \in Seq(ChainBlocks)
      /\ excused \in BOOLEAN /\ Buffer \in Nat
      /\ file # <<>> => file[1] = Partial \/ file[1].piece = "block"
  BY <1>1, CrashAssumption, BufferAssumption DEF TypeInv, LogInv
<1>3. /\ file' \in Seq(Pieces(LogBlocks))
      /\ file' # <<>> => file'[1] = Partial \/ file'[1].piece = "block"
  <2>1. CASE file' = file
    BY <1>2, <2>1
  <2>2. CASE file' \in Survivors(file)
    <3>1. /\ file' \in Seq(Pieces(LogBlocks))
          /\ file' # <<>> => file'[1] = Partial \/ (file # <<>> /\ file'[1] = file[1])
      BY <1>2, <2>2, SurvivorTypes
    <3> QED
      BY <1>2, <3>1
  <2> QED
    BY <1>1, <2>1, <2>2
<1>4. TypeInv'
  <2>1. <<>> \in Seq(Nat) /\ Len(<<>>) = 0
    OBVIOUS
  <2>2. /\ buf' \in [Clients -> Seq(Nat)] /\ heard' \in [Clients -> Nat]
        /\ \A c \in Clients : Len(buf'[c]) <= Buffer /\ buf'[c] = <<>> /\ heard'[c] = 0
    BY <1>1, <1>2, <2>1
  <2>3. keys' \in -1..(MaxCrashes + 1) /\ crashes' \in 0..MaxCrashes
    BY <1>1, <1>2 DEF Absent, Torn
  <2>4. shown' \in Seq(ChainBlocks) /\ excused' \in BOOLEAN
    <3>1. PICK S : S = ChainBlocks
      OBVIOUS
    <3>2. shown \in Seq(S) /\ <<>> \in Seq(S)
      BY <1>2, <3>1
    <3>3. (shown' = shown /\ excused' = excused) \/ (shown' = <<>> /\ excused' = TRUE)
      BY <1>1
    <3> QED
      BY <1>2, <3>1, <3>2, <3>3
  <2>5. IsChain(chain') /\ view' = Seed(chain')
    BY <1>1, SeedOfEmpty
  <2>6. run' \in Serving \cup {"down", "keys", "open", "fatal"}
    BY <1>1
  <2> QED
    BY <1>1, <1>3, <2>2, <2>3, <2>4, <2>5, <2>6 DEF TypeInv
<1>5. RunInv'
  BY <1>1 DEF RunInv
<1>6. LogInv'
  BY <1>1, <1>3 DEF LogInv, Serving, Locked
<1>7. ShownInv'
  <2>1. CASE UNCHANGED <<file, shown>>
    BY <1>1, <2>1 DEF ShownInv
  <2>2. CASE shown' = <<>>
    <3>1. Len(shown') = 0
      BY <2>2
    <3> QED
      BY <3>1 DEF ShownInv, ShownIn
  <2> QED
    BY <1>1, <2>1, <2>2
<1>8. EventInv'
  BY <1>1 DEF EventInv
<1> QED
  BY <1>4, <1>5, <1>6, <1>7, <1>8 DEF Inv

LEMMA NextInv == Inv /\ [Next]_vars => Inv'
<1> SUFFICES ASSUME Inv, [Next]_vars PROVE Inv'
  OBVIOUS
<1>1. CASE LoadKeys \/ SaveKeys \/ Fresh
  BY <1>1, StartSteps
<1>2. CASE Resume
  BY <1>2, ResumeStep
<1>3. CASE \E b \in Committed : Commit(b)
  BY <1>3, CommitStep
<1>4. CASE WriteLine \/ WriteNewline
  BY <1>4, WriteStep
<1>5. CASE Emit
  BY <1>5, EmitStep
<1>6. CASE \E c \in Clients : Subscribe(c) \/ Unsubscribe(c) \/ ReadEvent(c)
  BY <1>6, SubscribeStep, ReadEventStep
<1>7. CASE Snapshot
  BY <1>7, SnapshotStep
<1>8. CASE ProcessCrash \/ MachineCrash
  BY <1>8, CrashStep
<1>9. CASE UNCHANGED vars
  BY <1>9, StutterStep
<1> QED
  BY <1>1, <1>2, <1>3, <1>4, <1>5, <1>6, <1>7, <1>8, <1>9 DEF Next, Server

LEMMA InvHolds == Spec => []Inv
  BY InitInv, NextInv, PTL DEF Spec

-----------------------------------------------------------------------------
(* What holds of every behaviour *)

\* Whatever the process does and wherever it goes down, its parts are what they
\* should be: the heights of the chain count up from one and no subscriber's
\* channel holds more than its capacity.
THEOREM ClusterTypes == Spec => []TypeOK
<1>1. ASSUME Inv PROVE TypeOK
  <2>1. TypeInv /\ Len(chain) \in Nat
    BY <1>1, StateFacts DEF Inv
  <2>2. \A i \in DOMAIN file : file[i].piece \in {"block", "newline", "part"}
    <3>1. PICK T : T = Pieces(LogBlocks)
      OBVIOUS
    <3>2. file \in Seq(T)
      BY <2>1, <3>1 DEF TypeInv
    <3>3. \A i \in DOMAIN file : file[i] \in T
      BY <3>2
    <3> QED
      BY <3>1, <3>3, PieceKinds
  <2>3. \A i \in DOMAIN chain : chain[i].height = i /\ chain[i].proposer \in Proposers
    <3>1. PICK S : S = ChainBlocks
      OBVIOUS
    <3>2. chain \in Seq(S) /\ \A i \in 1..Len(chain) : chain[i].height = i
      BY <2>1, <3>1 DEF TypeInv, IsChain
    <3>3. \A i \in DOMAIN chain : i \in 1..Len(chain) /\ chain[i] \in S
      BY <3>2
    <3> QED
      BY <3>1, <3>2, <3>3 DEF ChainBlocks
  <2> QED
    BY <2>1, <2>2, <2>3 DEF TypeInv, TypeOK
<1> QED
  BY <1>1, InvHolds, PTL

\* The view that recordBlock kept, block by block, is the one seedLiveView would
\* make of the chain, whatever the lengths of the feeds.
THEOREM ViewIsSeedHolds == Spec => []ViewIsSeed
<1>1. Inv => ViewIsSeed
  BY DEF Inv, TypeInv, ViewIsSeed
<1> QED
  BY <1>1, InvHolds, PTL

\* A transaction the feed still shows can be proved, and only at its own height.
THEOREM FeedIsProvableHolds == Spec => []FeedIsProvable
<1>1. Inv => FeedIsProvable
  BY SeedProvable DEF Inv, TypeInv
<1> QED
  BY <1>1, InvHolds, PTL

\* No height that was shown is lost with the process, nor does another block
\* come back in its place.
THEOREM NothingShownIsLostHolds == Spec => []NothingShownIsLost
<1>1. ASSUME Inv, run = "ready" PROVE IsPrefix(shown, chain)
  <2>1. /\ TypeInv /\ LogOf(Blocks(file), chain, Genesis) /\ ShownIn(shown, Blocks(file))
    BY <1>1 DEF Inv, LogInv, ShownInv, Serving
  <2>2. PICK T, l, c, g, s :
          T = LogBlocks /\ l = Blocks(file) /\ c = chain /\ g = Genesis /\ s = shown
    OBVIOUS
  <2>3. l \in Seq(T) /\ c \in Seq(T) /\ g \in T
    BY <2>1, <2>2, StateFacts
  <2>4. s \in Seq(T)
    <3>1. PICK S : S = ChainBlocks
      OBVIOUS
    <3>2. s \in Seq(S) /\ S \subseteq T
      BY <2>1, <2>2, <3>1 DEF TypeInv, LogBlocks
    <3> QED
      BY <3>2
  <2>5. IsPrefix(s, c)
    BY <2>1, <2>2, <2>3, <2>4, LogPrefix
  <2> QED
    BY <2>2, <2>5
<1>2. Inv => NothingShownIsLost
  BY <1>1 DEF NothingShownIsLost
<1> QED
  BY <1>2, InvHolds, PTL

\* The log never has a gap, even when a write failed and later ones would not.
THEOREM LogIsPrefixHolds == Spec => []LogIsPrefix
<1>1. ASSUME Inv, run \in Serving PROVE IsPrefix(Blocks(file), <<Genesis>> \o chain)
  <2>1. TypeInv /\ LogOf(Blocks(file), chain, Genesis)
    BY <1>1 DEF Inv, LogInv
  <2>2. PICK T, l, c, g : T = LogBlocks /\ l = Blocks(file) /\ c = chain /\ g = Genesis
    OBVIOUS
  <2>3. l \in Seq(T) /\ c \in Seq(T) /\ g \in T
    BY <2>1, <2>2, StateFacts
  <2>4. IsPrefix(l, <<g>> \o c)
    BY <2>1, <2>2, <2>3, LogPrefix
  <2> QED
    BY <2>2, <2>4
<1>2. Inv => LogIsPrefix
  BY <1>1 DEF LogIsPrefix
<1> QED
  BY <1>2, InvHolds, PTL

\* Whatever was dropped, a subscriber hears of blocks in the order of their
\* heights, of each at most once, and of none above the view's.
THEOREM EventsInOrderHolds == Spec => []EventsInOrder
<1>1. ASSUME Inv, NEW c \in subs,
             NEW h, h = <<heard[c]>> \o buf[c] \o <<view.height + 1>>
      PROVE  \A i, j \in DOMAIN h : i < j => h[i] < h[j]
  <2>1. TypeInv /\ EventInv
    BY <1>1 DEF Inv
  <2>2. PICK x, s, next : x = heard[c] /\ s = buf[c] /\ next = view.height + 1
    OBVIOUS
  <2>3. /\ x \in Nat /\ s \in Seq(Nat) /\ Len(chain) \in Nat /\ view.height = Len(chain)
        /\ Rising(x, s, NextEvent)
    BY <2>1, <2>2, StateFacts DEF TypeInv, EventInv
  <2>4. next \in Nat /\ NextEvent \in Nat /\ NextEvent <= next
    BY <2>2, <2>3 DEF NextEvent
  <2>5. Rising(x, s, next)
    <3>1. Len(s) \in Nat /\ \A i \in 1..Len(s) : s[i] \in Nat
      BY <2>3
    <3> QED
      BY <2>3, <2>4, <3>1 DEF Rising
  <2> QED
    BY <1>1, <2>2, <2>3, <2>4, <2>5, RisingConcat
<1>2. Inv => EventsInOrder
  BY <1>1 DEF EventsInOrder
<1> QED
  BY <1>2, InvHolds, PTL

-----------------------------------------------------------------------------
(* Restarts.  That the server fails to come back from its log although no     *)
(* write failed and no machine went down takes a block whose line and newline *)
(* leave in two writes.                                                       *)

ShortLines == (Sizes \cup {0}) \cap Long = {}

Whole(f, k) ==
    /\ Parses(f) /\ Last(f) = Newline
    /\ Len(Blocks(f)) > 0 /\ Blocks(f)[1].keys = k
    /\ \A i \in 1..Len(Blocks(f)) : Blocks(f)[i].height = i - 1

SoundInv ==
    /\ run \in Serving \cup {"open"} => keys > 0
    /\ ~excused =>
        /\ ~broken
        /\ run # "newline"
        /\ run \in {"fatal", "keys"} => file = <<>>
        /\ file # <<>> => keys > 0 /\ Whole(file, keys)

LEMMA WrittenFits ==
    ASSUME TypeInv, ShortLines
    PROVE  OneWrite(Written)
<1>1. CASE chain = <<>>
  <2>1. Written.txs = <<>> /\ Len(<<>>) = 0
    BY <1>1 DEF Written, Genesis
  <2> QED
    BY <2>1 DEF OneWrite, ShortLines
<1>2. CASE chain # <<>>
  <2>1. Len(chain) \in Nat /\ chain \in Seq(ChainBlocks)
        /\ \A i \in 1..Len(chain) : chain[i] \in ChainBlocks
    BY StateFacts
  <2>2. Len(chain) \in 1..Len(chain)
    BY <1>2, <2>1, EmptySeq
  <2>3. Written \in ChainBlocks
    BY <1>2, <2>1, <2>2 DEF Written, Last
  <2>4. PICK n \in Sizes : Written.txs = [i \in 1..n |-> <<Written.height, i>>]
    BY <2>3 DEF ChainBlocks
  <2>5. PICK h : h = Written.height
    OBVIOUS
  <2>6. n \in Nat /\ Written.txs = [i \in 1..n |-> <<h, i>>]
    BY <2>4, <2>5, BufferAssumption
  <2>7. Len(Written.txs) = n
    BY <2>6
  <2> QED
    BY <2>7 DEF OneWrite, ShortLines
<1> QED
  BY <1>1, <1>2

LEMMA WholeGrows ==
    ASSUME TypeInv, LogInv, SoundInv, run = "line", ~excused,
           NEW f, f = file \o <<Line(Written), Newline>>
    PROVE  Whole(f, keys)
<1>1. PICK T, n, x, y : /\ T = Pieces(LogBlocks) /\ n = Len(file)
                        /\ x = Line(Written) /\ y = Newline
  OBVIOUS
<1>2. /\ file \in Seq(T) /\ Written \in LogBlocks
      /\ Blocks(f) = Append(Blocks(file), Written)
  BY <1>1, FileGrows DEF TypeInv
<1>3. x \in T /\ y \in T /\ x # Partial /\ y # Partial
  BY <1>1, <1>2 DEF Pieces, Line, Newline, Partial
<1>4. /\ n \in Nat /\ Len(f) = n + 2 /\ DOMAIN f = 1..(n+2)
      /\ f[n+1] = x /\ f[n+2] = y /\ \A i \in 1..n : f[i] = file[i]
      /\ DOMAIN file = 1..n /\ (file = <<>> <=> n = 0)
  BY <1>1, <1>2, <1>3
<1>5. file # <<>> => Parses(file) /\ file[n] = y
  BY <1>1 DEF SoundInv, Whole, Last
<1>6. Parses(f)
  <2> SUFFICES ASSUME NEW i \in 1..(n+2)
               PROVE  f[i] # Partial /\ (i > 1 => f[i] = Newline \/ f[i-1] = Newline)
    BY <1>4 DEF Parses
  <2>1. CASE i \in 1..n
    <3>1. file # <<>> /\ i \in DOMAIN file /\ f[i] = file[i] /\ (i > 1 => i - 1 \in 1..n)
      BY <1>4, <2>1
    <3>2. file[i] # Partial /\ (i > 1 => file[i] = Newline \/ file[i-1] = Newline)
      BY <1>5, <3>1 DEF Parses
    <3> QED
      BY <1>4, <3>1, <3>2
  <2>2. CASE i = n + 1
    <3>1. i > 1 => file # <<>> /\ i - 1 = n /\ n \in 1..n
      BY <1>4, <2>2
    <3> QED
      BY <1>1, <1>3, <1>4, <1>5, <2>2, <3>1
  <2>3. CASE i = n + 2
    BY <1>1, <1>3, <1>4, <2>3
  <2> QED
    BY <1>4, <2>1, <2>2, <2>3
<1>7. Last(f) = Newline
  BY <1>1, <1>4 DEF Last
<1>8. PICK S, l, w, m : S = LogBlocks /\ l = Blocks(file) /\ w = Written /\ m = Len(chain)
  OBVIOUS
<1>9. /\ l \in Seq(S) /\ w \in S /\ m \in Nat /\ chain \in Seq(ChainBlocks)
      /\ \A i \in 1..m : chain[i].height = i
      /\ Len(l) = m
  <2>1. Len(Blocks(file)) = Len(chain) + 0 /\ Len(chain) \in Nat
    BY StateFacts DEF LogInv, SoundInv, Serving, Locked
  <2> QED
    BY <1>2, <1>8, <2>1, StateFacts
<1>10. /\ Len(Append(l, w)) = m + 1
       /\ \A i \in 1..m : Append(l, w)[i] = l[i]
       /\ Append(l, w)[m+1] = w
  BY <1>9
<1>11. w.height = m /\ (m = 0 => w.keys = keys)
  <2>1. CASE chain = <<>>
    <3>1. m = 0 /\ w = Genesis
      BY <1>8, <2>1 DEF Written
    <3> QED
      BY <3>1 DEF Genesis
  <2>2. CASE chain # <<>>
    <3>1. m # 0
      BY <1>8, <1>9, <2>2, EmptySeq
    <3>2. w = chain[m] /\ m \in 1..m
      BY <1>8, <1>9, <2>2, <3>1 DEF Written, Last
    <3> QED
      BY <1>9, <3>1, <3>2
  <2> QED
    BY <2>1, <2>2
<1>12. m > 0 => l[1].keys = keys /\ \A i \in 1..m : l[i].height = i - 1
  <2>1. m > 0 => file # <<>>
    <3>1. file = <<>> => Blocks(file) = <<>> /\ Len(<<>>) = 0
      BY BlocksOfEmpty
    <3> QED
      BY <1>8, <1>9, <3>1
  <2> QED
    BY <1>8, <1>9, <2>1 DEF SoundInv, Whole
<1>13. PICK b : b = Append(l, w)
  OBVIOUS
<1>14. /\ Len(b) > 0 /\ b[1].keys = keys
       /\ \A i \in 1..Len(b) : b[i].height = i - 1
  <2>1. Len(b) = m + 1 /\ Len(b) > 0
    BY <1>9, <1>10, <1>13
  <2>2. b[1].keys = keys
    <3>1. CASE m = 0
      <4>1. b[1] = w
        BY <1>10, <1>13, <3>1
      <4> QED
        BY <1>11, <3>1, <4>1
    <3>2. CASE m > 0
      <4>1. b[1] = l[1]
        BY <1>9, <1>10, <1>13, <3>2
      <4> QED
        BY <1>12, <3>2, <4>1
    <3> QED
      BY <1>9, <3>1, <3>2
  <2>3. ASSUME NEW i \in 1..Len(b) PROVE b[i].height = i - 1
    <3>1. CASE i \in 1..m
      BY <1>9, <1>10, <1>12, <1>13, <3>1
    <3>2. CASE i = m + 1
      BY <1>9, <1>10, <1>11, <1>13, <3>2
    <3> QED
      BY <1>9, <2>1, <3>1, <3>2
  <2> QED
    BY <2>1, <2>2, <2>3
<1> QED
  BY <1>2, <1>6, <1>7, <1>8, <1>13, <1>14 DEF Whole

LEMMA SoundStep ==
    ASSUME ShortLines
    PROVE  Inv /\ SoundInv /\ [Next]_vars => SoundInv'
<1> SUFFICES ASSUME Inv, SoundInv, [Next]_vars PROVE SoundInv'
  OBVIOUS
<1>1. TypeInv /\ LogInv /\ RunInv
  BY DEF Inv
<1>2. /\ MaxCrashes \in Nat /\ crashes \in 0..MaxCrashes /\ keys \in -1..(MaxCrashes + 1)
      /\ broken \in BOOLEAN /\ excused \in BOOLEAN
  BY <1>1, CrashAssumption DEF TypeInv
<1>3. CASE LoadKeys
  <2>1. /\ UNCHANGED <<file, broken, excused>>
        /\ \/ keys' = Torn /\ run' = "keys" /\ keys = Absent
           \/ keys' = keys /\ run' = "fatal" /\ keys = Torn
           \/ keys' = keys /\ run' = "open" /\ keys \notin {Absent, Torn}
    BY <1>3 DEF LoadKeys
  <2>2. /\ ~(Absent > 0) /\ ~(Torn > 0)
        /\ keys \notin {Absent, Torn} => keys > 0
    BY <1>2 DEF Absent, Torn
  <2> QED
    BY <2>1, <2>2 DEF SoundInv, Serving, Locked
<1>4. CASE SaveKeys
  <2>1. /\ UNCHANGED <<file, broken>> /\ run = "keys"
        /\ \/ run' = "open" /\ keys' > 0 /\ UNCHANGED excused
           \/ run' = "fatal" /\ excused'
    BY <1>2, <1>4 DEF SaveKeys
  <2> QED
    BY <2>1 DEF SoundInv, Serving, Locked
<1>5. CASE Fresh
  BY <1>5 DEF Fresh, SoundInv
<1>6. CASE Resume
  <2>1. /\ UNCHANGED <<keys, file, broken, excused>> /\ run = "open" /\ file # <<>>
        /\ run' \in {"ready", "fatal"} /\ (Resumable => run' = "ready")
    BY <1>6 DEF Resume
  <2>2. ASSUME ~excused PROVE Resumable
    <3>1. Whole(file, keys)
      BY <2>1, <2>2 DEF SoundInv
    <3>2. PICK S, l : S = LogBlocks /\ l = Blocks(file)
      OBVIOUS
    <3>3. l \in Seq(S)
      BY <1>1, <3>2, StateFacts
    <3>4. DOMAIN l = 1..Len(l) /\ (Len(l) > 0 => 1 \in 1..Len(l) /\ 1 - 1 = 0)
      BY <3>3
    <3> QED
      BY <3>1, <3>2, <3>4 DEF Whole, Resumable
  <2> QED
    BY <2>1, <2>2 DEF SoundInv
<1>7. CASE WriteLine
  <2>1. /\ keys' = keys /\ run = "line"
        /\ run' \in {"ready", "emit", "newline"} /\ keys > 0
    BY <1>7 DEF WriteLine, Done, SoundInv, Serving, Locked
  <2>2. OneWrite(Written)
    BY <1>1, WrittenFits
  <2>3. ASSUME ~excused'
        PROVE  ~broken' /\ run' # "newline" /\ ~excused /\ Whole(file', keys)
    <3>1. ~broken
      BY <1>7, <2>3 DEF WriteLine, SoundInv, Stuck, Fail
    <3>2. /\ file' = file \o <<Line(Written), Newline>>
          /\ run' = Done /\ UNCHANGED <<broken, excused>>
      BY <1>7, <2>2, <2>3, <3>1 DEF WriteLine, Stuck, Fail
    <3>3. Whole(file', keys)
      BY <1>1, <2>1, <2>3, <3>2, WholeGrows
    <3> QED
      BY <2>3, <3>1, <3>2, <3>3 DEF Done
  <2> QED
    BY <2>1, <2>3 DEF SoundInv
<1>8. CASE WriteNewline
  <2>1. /\ keys' = keys /\ run = "newline" /\ run' \in {"ready", "emit"} /\ keys > 0
        /\ excused
    BY <1>8 DEF WriteNewline, Done, SoundInv, Serving, Locked
  <2>2. excused'
    BY <1>8, <2>1 DEF WriteNewline, Fail
  <2> QED
    BY <2>1, <2>2 DEF SoundInv
<1>9. CASE ProcessCrash
  BY <1>9 DEF ProcessCrash, Down, SoundInv, Serving, Locked
<1>10. CASE MachineCrash
  BY <1>10 DEF MachineCrash, Down, SoundInv, Serving, Locked
<1>11. CASE \/ UNCHANGED vars \/ Emit \/ Snapshot
            \/ \E b \in Committed : Commit(b)
            \/ \E c \in Clients : Subscribe(c) \/ Unsubscribe(c) \/ ReadEvent(c)
  <2>1. /\ UNCHANGED <<keys, file, broken, excused>>
        /\ \/ run' = run
           \/ run \in Serving /\ run' \in {"ready", "line"}
    BY <1>11 DEF vars, procVars, clientVars, Emit, Snapshot, Commit, Subscribe, Unsubscribe,
                 ReadEvent, Serving, Locked
  <2> QED
    BY <2>1 DEF SoundInv
<1> QED
  BY <1>3, <1>4, <1>5, <1>6, <1>7, <1>8, <1>9, <1>10, <1>11 DEF Next, Server

\* If every line left with its newline in one write, the promise of persist.go
\* would hold: a process that is killed, at any step and any number of times,
\* always comes back from its log.
THEOREM RestartsWhenLinesFit ==
    ASSUME ShortLines
    PROVE  Spec => []RestartsFromLog
<1>1. Init => SoundInv
  BY DEF Init, SoundInv, Serving, Locked
<1>2. Inv /\ SoundInv /\ [Next]_vars => SoundInv'
  BY SoundStep
<1>3. SoundInv => RestartsFromLog
  BY DEF SoundInv, RestartsFromLog
<1> QED
  BY <1>1, <1>2, <1>3, InvHolds, PTL DEF Spec
=============================================================================
