----------------------------- MODULE MCTraffic ------------------------------
(***************************************************************************)
(* Values for the constants of Traffic in its runs: a validator (1), an    *)
(* account of the server (2), a person (3).                                *)
(***************************************************************************)
EXTENDS Traffic

OneValidator == <<2, 0, 0>>
Funded       == <<0, 3, 2>>

\* Sends, bonds and unbonds of one coin, and a bond of more than there may be.
Ask(k, v, x) == [kind |-> k, to |-> v, amount |-> x]
AllKinds == {Ask("transfer", 3, 2), Ask("delegate", 1, 2), Ask("undelegate", 1, 1)}
Grants   == {Ask("transfer", 3, 1)}

\* A bond and its release, each of which may be submitted again.
BondAndBack ==
    {[kind |-> "delegate",   from |-> 3, to |-> 1, amount |-> 2, nonce |-> 0],
     [kind |-> "undelegate", from |-> 3, to |-> 1, amount |-> 1, nonce |-> 1]}
NobodyElse == {}
=============================================================================
