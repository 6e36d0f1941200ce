------------------------------- MODULE Ledger -------------------------------
(***************************************************************************)
(* The ledger of chain/state.go: what one transaction and one block do to  *)
(* balances, nonces and delegations.                                       *)
(*                                                                         *)
(* An address is a member of Nodes.  Stake[a] is the entry of a in         *)
(* validatorBase, its self-stake at genesis, zero when it is no validator. *)
(* A map of the code is a function on Nodes, with zero for an absent key.  *)
(* Amounts are natural numbers: the supply is far below 2^64, and the one  *)
(* product that is not is computed at 128 bits (mulDiv).  A transaction    *)
(* exists only with the signature of its sender.                           *)
(***************************************************************************)
EXTENDS Validators, Sequences

CONSTANT Reward   \* BlockReward

ASSUME RewardAssumption == Reward \in Nat

Kinds == {"transfer", "delegate", "undelegate"}

Transaction ==
    [kind : Kinds, from : Nodes, to : Nodes, amount : Nat, nonce : Nat]

LedgerState ==
    [balance : [Nodes -> Nat], nonce : [Nodes -> Nat], bonded : [Nodes -> [Nodes -> Nat]]]

\* Every token that exists, in an account or bonded behind a validator.
Supply(s) ==
    Total(s.balance) + Total([d \in Nodes |-> Total(s.bonded[d])])

-----------------------------------------------------------------------------
(* applyTx *)

\* What a transaction draws on: the sender's balance, or its bond.
Funds(s, tx) ==
    IF tx.kind = "undelegate" THEN s.bonded[tx.from][tx.to] ELSE s.balance[tx.from]

Applies_AnyNonce(s, tx) ==
    /\ tx.amount > 0
    /\ tx.kind = "transfer" => tx.from # tx.to
    /\ tx.amount <= Funds(s, tx)

Applies_Overdraft(s, tx) ==
    /\ tx.amount > 0
    /\ tx.kind = "transfer" => tx.from # tx.to
    /\ tx.nonce = s.nonce[tx.from]
    /\ Funds(s, tx) > 0

Applies(s, tx) ==
    /\ tx.amount > 0
    /\ tx.kind = "transfer" => tx.from # tx.to
    /\ tx.nonce = s.nonce[tx.from]
    /\ tx.amount <= Funds(s, tx)

Moved(s, tx) ==
    CASE tx.kind = "transfer" ->
            [s EXCEPT !.balance[tx.from] = @ - tx.amount, !.balance[tx.to] = @ + tx.amount]
      [] tx.kind = "delegate" ->
            [s EXCEPT !.balance[tx.from] = @ - tx.amount,
                      !.bonded[tx.from][tx.to] = @ + tx.amount]
      [] tx.kind = "undelegate" ->
            [s EXCEPT !.bonded[tx.from][tx.to] = @ - tx.amount,
                      !.balance[tx.from] = @ + tx.amount]

Effect(s, tx) == [Moved(s, tx) EXCEPT !.nonce[tx.from] = @ + 1]

-----------------------------------------------------------------------------
(* distributeReward *)

Behind(s, p) == [d \in Nodes |-> s.bonded[d][p]]

\* A delegator's part of the reward of a block by p, rounded down.
Share(s, p) ==
    LET total == Stake[p] + Total(Behind(s, p))
    IN  [d \in Nodes |-> IF total = 0 THEN 0 ELSE (Reward * s.bonded[d][p]) \div total]

\* What the delegators leave is the proposer's: its own part and the dust.
Remainder_OwnPart(s, p) ==
    (Reward * Stake[p]) \div (Stake[p] + Total(Behind(s, p)))
Remainder(s, p) == Reward - Total(Share(s, p))

Rewarded(s, p) ==
    [s EXCEPT !.balance = [a \in Nodes |->
        @[a] + Share(s, p)[a] + (IF a = p THEN Remainder(s, p) ELSE 0)]]

-----------------------------------------------------------------------------
(* Apply, and the proposer's choice of transactions *)

\* The states before and after each transaction of a block, applied in order.
Run(s, txs) ==
    LET after[i \in 0..Len(txs)] ==
            IF i = 0 THEN s ELSE Effect(after[i-1], txs[i])
    IN  after

\* Apply accepts a block whose transactions all apply, each after the others.
Valid(s, txs) == \A i \in 1..Len(txs) : Applies(Run(s, txs)[i-1], txs[i])

Apply(s, p, txs) == Rewarded(Run(s, txs)[Len(txs)], p)

\* applicable: the transactions that apply, in order, each after the kept ones.
Applicable_OneByOne(s, txs) == SelectSeq(txs, LAMBDA tx : Applies(s, tx))

Applicable(s, txs) ==
    LET kept[i \in 0..Len(txs)] ==
            IF i = 0 THEN <<>>
            ELSE LET k == kept[i-1]
                 IN  IF Applies(Run(s, k)[Len(k)], txs[i]) THEN Append(k, txs[i]) ELSE k
    IN  kept[Len(txs)]
=============================================================================
