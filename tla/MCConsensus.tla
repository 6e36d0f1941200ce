---------------------------- MODULE MCConsensus ----------------------------
(***************************************************************************)
(* Values for the constants of Consensus in its runs.                      *)
(***************************************************************************)
EXTENDS Consensus

FromGenesis == <<>>

\* Two validators that carry a commit together and a third that does not
\* matter for it: 3 * 4 > 2 * 5, and no other pair of them has two thirds.
TwoTwoOne == <<2, 2, 1>>

\* One validator that carries a commit alone, beside one below a third.
ThreeOne == <<3, 1>>

\* Two validators, neither of which can commit without the other.
OneOne == <<1, 1>>

NoBond == [v \in Nodes |-> 0]
BondTo(v, amount) == [NoBond EXCEPT ![v] = amount]

\* Blocks without delegations.
NoBondings == {NoBond}

\* Every block leaves two coins bonded behind the last validator.
BondedLast == {BondTo(N, 2)}

\* A block leaves one coin bonded behind the last validator, or none: the
\* threshold moves between one that the first of ThreeOne meets alone and one
\* that takes both.
MaybeLast == {NoBond, BondTo(N, 1)}

\* The log of a cluster that had committed one block before it was restarted.
FromLog == <<[proposer |-> 1, bonded |-> BondTo(N, 2)]>>

\* A block may also delegate enough to the last validator to give it more
\* than two thirds of the voting weight.
HeavyLast == {NoBond, BondTo(N, 7)}
=============================================================================
