------------------------------ MODULE Rotation ------------------------------
(***************************************************************************)
(* One node's election (chain/proposer.go) over as many heights as one     *)
(* likes, beside the ProposerForHeight that chain/validator.go keeps as a  *)
(* reference for tests.                                                    *)
(*                                                                         *)
(* Module Consensus says when a node slashes and heals whom; here slashes, *)
(* heals and delegations come at any height, as many as Changes allows.    *)
(* A height with nobody left to elect ends the process, as Consensus says, *)
(* and is not taken here.                                                  *)
(***************************************************************************)
EXTENDS Election, FiniteSets

CONSTANTS
    Bondings,     \* tallies of delegated stake a block can leave
    MaxChanges,   \* bound: how often somebody's weight changes
    MaxCounted    \* bound: heights that are counted and compared

\* Nothing is delegated at genesis.
NoBond == [v \in Nodes |-> 0]

ASSUME BondingsAssumption ==
    Bondings \subseteq [Nodes -> Nat] /\ IsFiniteSet(Bondings) /\ NoBond \in Bondings
ASSUME BoundsAssumption   == MaxChanges \in Nat /\ MaxCounted \in Nat

VARIABLES
    excluded,   \* election.slashed
    bonded,     \* election.delegated
    priority,   \* election.priorities
    proposer,   \* whom the height elected, 0 before the first
    height,     \* the height, as far as it is counted
    changes,    \* how often a weight has changed
    atBack,     \* who started with the last change of members: the validators
                \* it let rejoin, everybody at genesis
    owed        \* since then each height gives such a validator its weight and
                \* each block it proposes costs it the total weight

vars == <<excluded, bonded, priority, proposer, height, changes, atBack, owed>>

Init ==
    /\ excluded = [v \in Nodes |-> FALSE]
    /\ bonded = NoBond
    /\ priority = [v \in Nodes |-> 0]
    /\ proposer = 0 /\ height = 0 /\ changes = 0
    /\ atBack = Nodes
    /\ owed = [v \in Nodes |-> 0]

\* The top of a node's loop: slash those of S, heal those of H, sync the
\* delegations, elect.
NextHeight(S, H, b) ==
    LET out    == [v \in Nodes |-> excluded[v] \/ v \in S]
        back   == [v \in Nodes |-> out[v] /\ v \notin H]
        w      == Effective(back, b)
        prio   == Rejoined(priority, Effective(out, bonded), H)
        winner == Winner(prio, w)
    IN  /\ Electable(w)
        /\ excluded' = back
        /\ bonded' = b
        /\ priority' = Advance(prio, w)
        /\ proposer' = winner
        /\ height' = IF height < MaxCounted THEN height + 1 ELSE height
        /\ atBack' = IF S \cup H = {} THEN atBack ELSE H
        /\ owed' = [v \in Nodes |->
                        IF v \notin atBack' THEN 0
                        ELSE (IF v \in H THEN 0 ELSE owed[v]) + w[v]
                                - (IF v = winner THEN Total(w) ELSE 0)]

Unchanged ==
    /\ NextHeight({}, {}, bonded)
    /\ UNCHANGED changes

\* Evidence that comes late makes a slash and its heal fall due together, and
\* then one validator is slashed and healed at the top of one height.
Changed ==
    /\ changes < MaxChanges
    /\ \E S \in SUBSET {v \in Nodes : ~excluded[v]} :
       \E H \in SUBSET {v \in Nodes : excluded[v] \/ v \in S}, b \in Bondings :
        /\ <<S, H, b>> # <<{}, {}, bonded>>
        /\ NextHeight(S, H, b)
    /\ changes' = changes + 1

Next == Unchanged \/ Changed

Spec == Init /\ [][Next]_vars

\* The node goes on from height to height; nothing need ever change.
FairSpec == Spec /\ WF_vars(Unchanged)

-----------------------------------------------------------------------------
(* ProposerForHeight recomputes the priorities from the first height on. *)

ProposerForHeight(h) ==
    LET Highest(p) == CHOOSE v \in Weighted(Stake) :
            \A u \in Weighted(Stake) : p[u] <= p[v] /\ (p[u] = p[v] => v <= u)
        prio[i \in 0..h] ==
            IF i = 0 THEN [v \in Nodes |-> 0]
            ELSE LET p == [v \in Nodes |-> prio[i-1][v] + Stake[v]]
                 IN  [p EXCEPT ![Highest(p)] = @ - Total(Stake)]
    IN  Highest([v \in Nodes |-> prio[h-1][v] + Stake[v]])

-----------------------------------------------------------------------------
(* Properties *)

W == Effective(excluded, bonded)

\* The most weight there can be.
Largest == LET totals == {Total(Effective([v \in Nodes |-> FALSE], b)) : b \in Bondings}
           IN  CHOOSE t \in totals : \A u \in totals : u <= t

\* "No centering/scaling step: priorities stay bounded, so it is not needed"
\* (NOTES.md): after any number of heights the priorities of the validators that
\* take part lie within a fixed distance of one another, whatever slashes, heals
\* and delegations came in between.
SpreadBounded ==
    \A u, v \in Weighted(W) : priority[u] - priority[v] <= (N - 1) * Largest

\* "It rejoins the rotation at the back rather than proposing several blocks in a
\* row to work off a stale priority" (proposer.go, the comment on restore): until
\* somebody else leaves or rejoins, a validator that has rejoined proposes less
\* than one block more than its share of the weight since, and so does everybody
\* since genesis.
NoCatchingUp == \A v \in atBack : owed[v] > -Largest

\* Every validator that has weight proposes again and again, also one that
\* rejoined at the lowest priority.
EverybodyProposes == \A v \in Nodes : []<>(proposer = v \/ W[v] = 0)

\* Without slashes and delegations the election that is carried from height to
\* height elects whom the reference, which starts over for every height, elects.
FollowsReference ==
    height \in 1..(MaxCounted - 1) /\ changes = 0 => proposer = ProposerForHeight(height)
=============================================================================
