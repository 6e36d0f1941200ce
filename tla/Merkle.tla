------------------------------- MODULE Merkle -------------------------------
(***************************************************************************)
(* The Merkle trees of chain/transaction.go and the proofs that            *)
(* chain/block.go makes from them.                                         *)
(*                                                                         *)
(* A hash is the term it was computed from: SHA-256 is taken to have no    *)
(* collisions, and the prefixes 0x00 and 0x01 keep the hash of a leaf from *)
(* being the hash of a node.  Indices into a list of transactions start at *)
(* zero, as in the code.                                                   *)
(***************************************************************************)
EXTENDS Naturals, SequencesExt

Leaf(tx)   == <<"leaf", tx>>
Node(l, r) == <<"node", l, r>>
ZeroRoot   == <<"zero">>

\* An odd layer duplicates its last element, so that every node has a partner.
Even(layer) == IF Len(layer) % 2 = 0 THEN layer ELSE Append(layer, Last(layer))

NextLayer(layer) ==
    LET e == Even(layer) IN [i \in 1..(Len(e) \div 2) |-> Node(e[2*i - 1], e[2*i])]

\* The layers of the tree over txs, leaves first; the root repeats itself.
Layers(txs) ==
    LET up[k \in 0..Len(txs)] ==
            IF k = 0 THEN [i \in DOMAIN txs |-> Leaf(txs[i])]
            ELSE IF Len(up[k-1]) <= 1 THEN up[k-1] ELSE NextLayer(up[k-1])
    IN  up

Root(txs) == IF txs = <<>> THEN ZeroRoot ELSE Layers(txs)[Len(txs)][1]

\* The neighbour of the node at index i: its own hash for the last of an odd
\* layer.
Sibling_First(layer, i) ==
    IF i % 2 = 1 THEN layer[i]
    ELSE IF i = Len(layer) - 1 THEN layer[1] ELSE layer[i + 2]
Sibling(layer, i) ==
    IF i % 2 = 1 THEN layer[i]
    ELSE IF i = Len(layer) - 1 THEN layer[i + 1] ELSE layer[i + 2]

\* The index of the node above, and so on, n times.
Halved(i, n) ==
    LET at[k \in 0..n] == IF k = 0 THEN i ELSE at[k-1] \div 2
    IN  at

\* merkleProof: the siblings on the path from transaction i to the root.
Proof(txs, i) ==
    LET layer == Layers(txs)
        index == Halved(i, Len(txs))
        below == {k \in DOMAIN layer : Len(layer[k]) > 1}
    IN  [k \in 1..Cardinality(below) |-> Sibling(layer[k-1], index[k-1])]

\* verifyMerkleProof: the parity of the halved index tells left from right.
Verify(leaf, i, proof, root) ==
    LET index == Halved(i, Len(proof))
        fold[k \in 0..Len(proof)] ==
            IF k = 0 THEN leaf
            ELSE IF index[k-1] % 2 = 0 THEN Node(fold[k-1], proof[k])
            ELSE Node(proof[k], fold[k-1])
    IN  fold[Len(proof)] = root
=============================================================================
