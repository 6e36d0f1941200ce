------------------------------ MODULE MCServer ------------------------------
(***************************************************************************)
(* Values for the constants of Server in its runs.                         *)
(***************************************************************************)
EXTENDS Server, TLC

\* Four validators, the fewest a server runs with; any two are too many.
FourEqual == <<1, 1, 1, 1>>

\* One kind of request at a time: they share no variable.
EachAlone  == {{k} : k \in Kinds}
FaultsOnly == {{"fault"}}

\* Event streams and faults never look at the clock; it stands still for them.
ClockMatters == now > 0 => mix \cap {"read", "faucet"} # {}

\* Handlers, hosts and accounts are told apart by nothing but their names.
Alike == Permutations(Handlers) \cup Permutations(Hosts) \cup Permutations(Accounts)
=============================================================================
