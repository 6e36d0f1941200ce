------------------------------ MODULE Election ------------------------------
(***************************************************************************)
(* The proposer election of chain/proposer.go: every node owns a copy of   *)
(* the priority accumulator and advances it once per height.  These are    *)
(* the operators of one copy; the state they act on (a priority and a      *)
(* "slashed" flag per validator, the delegations last synced) belongs to   *)
(* the modules that use them.                                              *)
(***************************************************************************)
EXTENDS Validators

\* A validator's voting weight: self-stake and delegations, zero while slashed.
Effective(excluded, bonded) ==
    [v \in Nodes |-> IF excluded[v] THEN 0 ELSE Stake[v] + bonded[v]]

Weighted(w) == {v \in Nodes : w[v] > 0}

\* next() panics when nobody is electable.
Electable(w) == Weighted(w) # {}

\* Every priority rises by the validator's weight ...
Raised(prio, w) == [v \in Nodes |-> prio[v] + w[v]]

\* ... the highest among those that have weight is elected, ties by index ...
Winner_LastOfTies(prio, w) ==
    LET r == Raised(prio, w)
    IN  CHOOSE v \in Weighted(w) :
            \A u \in Weighted(w) : r[u] < r[v] \/ (r[u] = r[v] /\ v >= u)
Winner(prio, w) ==
    LET r == Raised(prio, w)
    IN  CHOOSE v \in Weighted(w) :
            \A u \in Weighted(w) : r[u] < r[v] \/ (r[u] = r[v] /\ v <= u)

\* ... and pays for it with the total weight.
Advance_NotKept(prio, w) == prio
Advance_Unpaid(prio, w) == Raised(prio, w)
Advance(prio, w) ==
    [Raised(prio, w) EXCEPT ![Winner(prio, w)] = @ - Total(w)]

\* restore() for every validator of R: each rejoins at the lowest priority
\* among the others that have weight w, at zero when there is none.  The code
\* restores one at a time, in the order of a map iteration: a validator just
\* restored counts for the next one, at that same lowest priority, so the
\* order does not show and neither does it when they are restored together.
Rejoined_Stale(prio, w, R) == prio
Rejoined(prio, w, R) ==
    LET others == {prio[v] : v \in Weighted(w) \ R}
        low    == IF others = {} THEN 0
                  ELSE CHOOSE x \in others : \A y \in others : x <= y
    IN  [v \in Nodes |-> IF v \in R THEN low ELSE prio[v]]
=============================================================================
