------------------------------ MODULE LiveView ------------------------------
(***************************************************************************)
(* The live view of chain/cluster.go: what Snapshot and InclusionProof     *)
(* answer from.  It holds only the newest blocks and transactions, and the *)
(* code has two ways to it: recordBlock adds one block to it, under the    *)
(* cluster's lock, and seedLiveView makes it from a replayed chain.        *)
(*                                                                         *)
(* A block is its height, its proposer and its transactions.  A chain is   *)
(* the sequence of the blocks after genesis.  The ledger after the newest  *)
(* block, which the view also points to, is that of module Ledger.         *)
(***************************************************************************)
EXTENDS Merkle, Integers

CONSTANTS
    RecentBlocks,   \* how many blocks the feed of blocks keeps
    RecentTxs,      \* how many transactions the feed of transactions keeps
    Proposers       \* who may propose a block

ASSUME FeedsAssumption == RecentBlocks \in Nat \ {0} /\ RecentTxs \in Nat \ {0}

\* The last k of a sequence.
Newest(s, k) == IF Len(s) > k THEN SubSeq(s, Len(s) - k + 1, Len(s)) ELSE s

BlockInfo(b) == [height |-> b.height, proposer |-> b.proposer, txs |-> Len(b.txs)]
TxInfos(b)   == [i \in DOMAIN b.txs |-> [tx |-> b.txs[i], height |-> b.height]]

Blank ==
    [height |-> 0, proposed |-> [p \in Proposers |-> 0],
     recent |-> <<>>, txs |-> <<>>, fullBlocks |-> <<>>]

\* How many of the blocks that carry transactions are kept whole.
Kept == RecentTxs

\* recordBlock.
Record_KeepsEmpty(view, b) ==
    [height |-> b.height, proposed |-> [view.proposed EXCEPT ![b.proposer] = @ + 1],
     recent |-> Newest(Append(view.recent, BlockInfo(b)), RecentBlocks),
     txs |-> Newest(view.txs \o TxInfos(b), RecentTxs),
     fullBlocks |-> Newest(Append(view.fullBlocks, b), Kept)]

Record(view, b) ==
    [height     |-> b.height,
     proposed   |-> [view.proposed EXCEPT ![b.proposer] = @ + 1],
     recent     |-> Newest(Append(view.recent, BlockInfo(b)), RecentBlocks),
     txs        |-> Newest(view.txs \o TxInfos(b), RecentTxs),
     fullBlocks |-> IF b.txs = <<>> THEN view.fullBlocks
                    ELSE Newest(Append(view.fullBlocks, b), Kept)]

\* seedLiveView: everything of every block, and then the newest of that.
Added(all, b) ==
    [height     |-> b.height,
     proposed   |-> [all.proposed EXCEPT ![b.proposer] = @ + 1],
     recent     |-> Append(all.recent, BlockInfo(b)),
     txs        |-> all.txs \o TxInfos(b),
     fullBlocks |-> IF b.txs = <<>> THEN all.fullBlocks ELSE Append(all.fullBlocks, b)]

Trimmed(all) ==
    [all EXCEPT !.recent = Newest(@, RecentBlocks), !.txs = Newest(@, RecentTxs),
                !.fullBlocks = Newest(@, Kept)]

Seed(chain) ==
    LET all[i \in 0..Len(chain)] == IF i = 0 THEN Blank ELSE Added(all[i-1], chain[i])
    IN  Trimmed(all[Len(chain)])

\* InclusionProof: of the block of that height, if it is still kept whole, the
\* transaction with that hash, its index, its siblings and the root.
Positions(b, hash) == {i \in DOMAIN b.txs : Leaf(b.txs[i]) = hash}

NotFound == [index |-> -1]

InclusionProof(view, height, hash) ==
    LET holds == {b \in ToSet(view.fullBlocks) :
                    b.height = height /\ Positions(b, hash) # {}}
    IN  IF holds = {} THEN NotFound
        ELSE LET b == CHOOSE b \in holds : TRUE
                 i == Min(Positions(b, hash)) - 1
             IN  [leaf |-> hash, index |-> i,
                  siblings |-> Proof(b.txs, i), root |-> Root(b.txs)]
=============================================================================
