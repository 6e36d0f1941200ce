----------------------------- MODULE Validators -----------------------------
(***************************************************************************)
(* The validator set of chain/validator.go: an ordered group of validators *)
(* with a stake each.  The order fixes how ties between proposers are      *)
(* broken, the stakes fix the commit threshold.  A validator is its index  *)
(* in the set; its address and its keys are not modelled, because the only *)
(* use the consensus makes of them is to tell validators apart and to let  *)
(* nobody speak for another (a model in which nobody does).                *)
(***************************************************************************)
EXTENDS Integers

CONSTANTS
    N,      \* how many validators there are
    Stake   \* Stake[v]: the self-stake validator v had when the set was built

Nodes == 1..N

ASSUME NAssumption     == N \in Nat \ {0}
ASSUME StakeAssumption == Stake \in [Nodes -> Nat]

\* The sum of the weights w of the validators in S, as the Go loops over the
\* members compute it: an accumulator over the indices 1..N.
Power(w, S) ==
    LET acc[k \in 0..N] ==
            IF k = 0 THEN 0 ELSE acc[k-1] + (IF k \in S THEN w[k] ELSE 0)
    IN  acc[N]

Total(w) == Power(w, Nodes)

\* The threshold of a commit: strictly more than two thirds of the weight.
Quorum(w, S) == 3 * Power(w, S) > 2 * Total(w)
=============================================================================
