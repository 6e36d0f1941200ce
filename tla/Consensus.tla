----------------------------- MODULE Consensus -----------------------------
(***************************************************************************)
(* One-step consensus of dylchain (chain/consensus.go, with the parts of   *)
(* chain/proposer.go, evidence.go, chain.go and cluster.go it calls).      *)
(*                                                                         *)
(* Every validator is a goroutine that loops over heights: it elects the   *)
(* height's proposer from its own accumulator, proposes if elected, waits  *)
(* for the height's proposal, votes for it, counts votes until more than   *)
(* two thirds of the stake accepted, commits.  All communication is the    *)
(* in-process bus: one FIFO inbox per validator, and a broadcast that      *)
(* sends to the inboxes one after the other, so that two broadcasts may    *)
(* reach two inboxes in different orders and one goroutine may stay behind *)
(* while the others go on.  A validator made faulty double-votes; whoever  *)
(* pulls both votes schedules a slash, and maybe a heal, some heights      *)
(* later in its own copy of the election.                                  *)
(*                                                                         *)
(* A step of this model is the code between two points where another       *)
(* goroutine can notice: a channel operation, an atomic load, a section    *)
(* under the cluster's lock.                                               *)
(***************************************************************************)
EXTENDS Election, Sequences, SequencesExt

CONSTANTS
    MaxHeight,    \* Run's argument: the last height
    HealDelay,    \* SetHealDelay: heights from a slash to its heal, 0: never
    InboxCap,     \* capacity of an inbox: newBus makes it max(1024, 16 * N)
    Faultable,    \* the validators MakeFaulty may be called on
    Bondings,     \* tallies of delegated stake a block's transactions can leave
    Replayed,     \* the blocks after genesis a resumed cluster starts from
    Cancellable   \* is the context one that can be cancelled (RunContext)?

VoteMemory == 2

SlashDelay_NextHeight == 1
SlashDelay == 2

-----------------------------------------------------------------------------
(***************************************************************************)
(* Blocks and messages.  A block's hash covers the hash of its parent, and *)
(* a validator signs at most one block on top of a given parent, so a      *)
(* block is identified with its history: the sequence of the headers from  *)
(* the first block after genesis to itself.  Of the transactions only what *)
(* the consensus reads is kept, the tally of the stake delegated to each   *)
(* validator after the block.                                              *)
(***************************************************************************)

Header == [proposer : Nodes, bonded : Bondings]
Block  == Seq(Header)

NoBlock == <<>>   \* no block has the empty history: genesis is not proposed
Junk    == <<>>   \* "equivocation", the bytes a faulty validator also votes for

Message == [kind : {"proposal", "vote"}, height : Nat, from : Nodes, block : Block]

DoubleVote == Nodes \X Nat   \* by whom and at which height

Proposal(n, b) == [kind |-> "proposal", height |-> Len(b), from |-> n, block |-> b]
Vote(n, h, b)  == [kind |-> "vote", height |-> h, from |-> n, block |-> b]

ASSUME HeightAssumption    == MaxHeight \in Nat
ASSUME HealAssumption      == HealDelay \in Nat
ASSUME CapAssumption       == InboxCap \in Nat
ASSUME FaultableAssumption == Faultable \subseteq Nodes
ASSUME BondingsAssumption  == Bondings \subseteq [Nodes -> Nat]
ASSUME ReplayedAssumption  == Replayed \in Block /\ Len(Replayed) <= MaxHeight
ASSUME CancelAssumption    == Cancellable \in BOOLEAN

VARIABLES
    pc,            \* where each node is in its loop
    chain,         \* the blocks it committed, after genesis
    draft,         \* the block it is broadcasting, while it proposes
    cand,          \* the candidate it accepted for this height
    counted,       \* the voters whose stake it has counted for cand
    to,            \* the inbox the broadcast under way sends to next
    inbox,         \* the messages on their way to it
    pending,       \* the messages it pulled before it needed them
    seen,          \* seenVotes: first vote seen per height and voter
    slashed,       \* offenders it detected and has not healed
    pendingSlash,  \* height at which it will apply a slash, 0: none
    pendingHeal,   \* height at which it will apply a heal, 0: none
    excluded,      \* election.slashed: validators without weight in its view
    priority,      \* election.priorities
    byz,           \* is the node double-voting? (an atomic flag)
    recorded,      \* the blocks the cluster recorded, in the order it did
    flagged,       \* the validators the cluster shows as slashed
    zeroed,        \* the validators whose stake is zero in the shared set
    cancelled,     \* has the context been cancelled?
    junked,        \* history: who sent a second vote, and at which height
    caught         \* history: the double votes a node detected, in its order

netVars    == <<to, inbox, pending>>
roundVars  == <<draft, cand, counted>>
faultVars  == <<seen, slashed, pendingSlash, pendingHeal, flagged, zeroed>>
viewVars   == <<excluded, priority>>
\* Nothing the code keeps: no step looks at them, NoFalseSlash is about them.
history    == <<junked, caught>>
vars == <<pc, chain, netVars, roundVars, faultVars, viewVars, byz, recorded, cancelled,
          history>>

Height(n) == Len(chain[n]) + 1

\* The newest block the cluster recorded: its live view, what is on its log.
LiveChain == IF recorded = <<>> THEN Replayed ELSE Last(recorded)

Bonded(c) == IF c = <<>> THEN [v \in Nodes |-> 0] ELSE Last(c).bonded

\* What syncDelegations reads: the delegations after the node's own tip.
Synced_LiveView(n) == Bonded(LiveChain)
Synced(n) == Bonded(chain[n])

\* The weights of node n's view once its delegations are synced.
Weight(n) == Effective(excluded[n], Synced(n))

Init ==
    /\ pc = [n \in Nodes |-> IF Len(Replayed) < MaxHeight THEN "height" ELSE "done"]
    /\ chain = [n \in Nodes |-> Replayed]
    /\ draft = [n \in Nodes |-> NoBlock]
    /\ cand = [n \in Nodes |-> NoBlock]
    /\ counted = [n \in Nodes |-> {}]
    /\ to = [n \in Nodes |-> 1]
    /\ inbox = [n \in Nodes |-> <<>>]
    /\ pending = [n \in Nodes |-> <<>>]
    /\ seen = [n \in Nodes |-> {}]
    /\ slashed = [n \in Nodes |-> {}]
    /\ pendingSlash = [n \in Nodes |-> [v \in Nodes |-> 0]]
    /\ pendingHeal = [n \in Nodes |-> [v \in Nodes |-> 0]]
    /\ excluded = [n \in Nodes |-> [v \in Nodes |-> FALSE]]
    /\ priority = [n \in Nodes |-> [v \in Nodes |-> 0]]
    /\ byz = [n \in Nodes |-> FALSE]
    /\ recorded = <<>>
    /\ flagged = {}
    /\ zeroed = {}
    /\ cancelled = FALSE
    /\ junked = {}
    /\ caught = [n \in Nodes |-> <<>>]

-----------------------------------------------------------------------------
(***************************************************************************)
(* The top of the loop: due slashes, due heals, the sync of delegations,   *)
(* one step of the accumulator, and the proposal if the node elected       *)
(* itself.                                                                 *)
(***************************************************************************)

Due(n)     == {v \in Nodes : pendingSlash[n][v] \in 1..Height(n)}
Healing(n) == {v \in Nodes : pendingHeal[n][v] \in 1..Height(n)}

AfterSlashes(n) == [v \in Nodes |-> excluded[n][v] \/ v \in Due(n)]
AfterHeals_StillOut(n) == AfterSlashes(n)
AfterHeals(n)   == [v \in Nodes |-> AfterSlashes(n)[v] /\ v \notin Healing(n)]

\* Heals come before the sync, so restore still sees the delegations of the
\* height before.
StaleBonded(n) ==
    IF Len(chain[n]) > Len(Replayed) THEN Bonded(Front(chain[n])) ELSE Bonded(Replayed)

HealedPriority(n) ==
    Rejoined(priority[n], Effective(AfterSlashes(n), StaleBonded(n)), Healing(n))

NextWeight(n) == Effective(AfterHeals(n), Synced(n))

Elected(n) == Winner(HealedPriority(n), NextWeight(n))

\* recordHeal: the first node to heal a validator clears its flag.
Unflagged_Never(n) == flagged
Unflagged(n) == flagged \ Healing(n)

StartHeight(n) ==
    /\ pc[n] = "height"
    /\ ~cancelled
    /\ Electable(NextWeight(n))
    /\ pendingSlash' = [pendingSlash EXCEPT ![n] =
                            [v \in Nodes |-> IF v \in Due(n) THEN 0 ELSE @[v]]]
    /\ pendingHeal' = [pendingHeal EXCEPT ![n] =
                            [v \in Nodes |-> IF v \in Healing(n) THEN 0 ELSE @[v]]]
    /\ byz' = [byz EXCEPT ![n] = @ /\ n \notin Due(n)]
    /\ slashed' = [slashed EXCEPT ![n] = @ \ Healing(n)]
    /\ flagged' = Unflagged(n)
    /\ zeroed' = (zeroed \cup Due(n)) \ Healing(n)
    /\ excluded' = [excluded EXCEPT ![n] = AfterHeals(n)]
    /\ priority' = [priority EXCEPT ![n] = Advance(HealedPriority(n), NextWeight(n))]
    /\ \/ /\ Elected(n) = n
          /\ pc' = [pc EXCEPT ![n] = "propose"]
          /\ \E b \in Bondings :
                draft' = [draft EXCEPT ![n] =
                              Append(chain[n], [proposer |-> n, bonded |-> b])]
       \/ /\ Elected(n) # n
          /\ pc' = [pc EXCEPT ![n] = "candidate"]
          /\ UNCHANGED draft
    /\ UNCHANGED <<chain, netVars, cand, counted, seen, recorded, cancelled,
                   history>>

\* next() finds nobody with stake and panics with a plain string, which run
\* does not recover: the process, and every node in it, is gone.
NoProposer(n) ==
    /\ pc[n] = "height"
    /\ ~cancelled
    /\ ~Electable(NextWeight(n))
    /\ pc' = [m \in Nodes |-> "crashed"]
    /\ UNCHANGED <<chain, netVars, roundVars, faultVars, viewVars, byz, recorded, cancelled,
                   history>>

-----------------------------------------------------------------------------
(***************************************************************************)
(* bus.broadcast: one channel send per recipient, in the order of the set, *)
(* each blocking while that inbox is full.                                 *)
(***************************************************************************)

Broadcasting == {"propose", "vote", "equivocate"}

Outgoing(n) ==
    CASE pc[n] = "propose"    -> Proposal(n, draft[n])
      [] pc[n] = "vote"       -> Vote(n, Height(n), cand[n])
      [] pc[n] = "equivocate" -> Vote(n, Height(n), Junk)

AfterBroadcast(n) ==
    CASE pc[n] = "propose"    -> "candidate"
      [] pc[n] = "vote"       -> "voted"
      [] pc[n] = "equivocate" -> "tally"

MoreInboxes_PastTheLast(n) == to[n] <= N
MoreInboxes(n) == to[n] < N

Send(n) ==
    /\ pc[n] \in Broadcasting
    /\ Len(inbox[to[n]]) < InboxCap
    /\ inbox' = [inbox EXCEPT ![to[n]] = Append(@, Outgoing(n))]
    /\ \/ /\ MoreInboxes(n)
          /\ to' = [to EXCEPT ![n] = @ + 1]
          /\ UNCHANGED <<pc, draft>>
       \/ /\ ~MoreInboxes(n)
          /\ to' = [to EXCEPT ![n] = 1]
          /\ pc' = [pc EXCEPT ![n] = AfterBroadcast(n)]
          /\ draft' = [draft EXCEPT ![n] = NoBlock]
    /\ junked' = IF pc[n] = "equivocate" THEN junked \cup {<<n, Height(n)>>} ELSE junked
    /\ UNCHANGED <<chain, cand, counted, pending, faultVars, viewVars, byz, recorded,
                   cancelled, caught>>

\* The load of the byzantine flag, once the vote is with everybody.
AfterVote(n) ==
    /\ pc[n] = "voted"
    /\ pc' = [pc EXCEPT ![n] = IF byz[n] THEN "equivocate" ELSE "tally"]
    /\ UNCHANGED <<chain, netVars, roundVars, faultVars, viewVars, byz, recorded, cancelled,
                   history>>

-----------------------------------------------------------------------------
(***************************************************************************)
(* waitFor: the first stashed message that fits, else the inbox, observing *)
(* every message pulled and stashing the ones that do not fit.             *)
(***************************************************************************)

Accepted(n) == Quorum(Weight(n), counted[n])

Wants_AnyBlock(n, m) ==
    /\ m.height = Height(n)
    /\ \/ pc[n] = "candidate" /\ m.kind = "proposal"
       \/ /\ pc[n] = "tally" /\ ~Accepted(n)
          /\ m.kind = "vote" /\ m.from \notin counted[n]

Wants_AnyHeight(n, m) ==
    \/ pc[n] = "candidate" /\ m.kind = "proposal"
    \/ /\ pc[n] = "tally" /\ ~Accepted(n)
       /\ m.kind = "vote" /\ m.block = cand[n] /\ m.from \notin counted[n]

Wants(n, m) ==
    /\ m.height = Height(n)
    /\ \/ pc[n] = "candidate" /\ m.kind = "proposal"
       \/ /\ pc[n] = "tally" /\ ~Accepted(n)
          /\ m.kind = "vote" /\ m.block = cand[n] /\ m.from \notin counted[n]

Fitting_NoRescan(n) == {}
Fitting(n) == {i \in DOMAIN pending[n] : Wants(n, pending[n][i])}

Waiting(n) ==
    /\ \/ pc[n] = "candidate"
       \/ pc[n] = "tally" /\ ~Accepted(n)
    /\ Fitting(n) = {}

\* checkCandidate: the height is the awaited one; the block must extend the
\* tip.  Its signature, transaction root and transactions are the ones an
\* honest proposer made for that parent.
Extends(n, b) == Front(b) = chain[n]

\* What the caller of waitFor does with the message it gets.
Take(n, m) ==
    \/ /\ pc[n] = "candidate" /\ Extends(n, m.block)
       /\ cand' = [cand EXCEPT ![n] = m.block]
       /\ pc' = [pc EXCEPT ![n] = "vote"]
       /\ UNCHANGED counted
    \/ /\ pc[n] = "candidate" /\ ~Extends(n, m.block)
       /\ pc' = [pc EXCEPT ![n] = "halted"]
       /\ UNCHANGED <<cand, counted>>
    \/ /\ pc[n] = "tally"
       /\ counted' = [counted EXCEPT ![n] = @ \cup {m.from}]
       /\ UNCHANGED <<pc, cand>>

TakeStashed(n) ==
    /\ \E i \in Fitting(n) :
        /\ \A j \in Fitting(n) : i <= j
        /\ pending' = [pending EXCEPT ![n] = RemoveAt(@, i)]
        /\ Take(n, pending[n][i])
    /\ UNCHANGED <<chain, draft, to, inbox, faultVars, viewVars, byz, recorded, cancelled,
                   history>>

FirstVotes_AnyHeight(n, m) == {v \in seen[n] : v.from = m.from}
FirstVotes(n, m) == {v \in seen[n] : v.height = m.height /\ v.from = m.from}

Equivocation(n, m) ==
    /\ m.kind = "vote"
    /\ m.from \notin slashed[n]
    /\ \E v \in FirstVotes(n, m) : v.block # m.block

\* observe: keep a first vote; on a conflicting one schedule the slash, and
\* the heal if there is to be one, and tell the cluster.
Observe(n, m) ==
    /\ seen' = [seen EXCEPT ![n] =
                    IF m.kind = "vote" /\ m.from \notin slashed[n] /\ FirstVotes(n, m) = {}
                    THEN @ \cup {m} ELSE @]
    /\ \/ /\ Equivocation(n, m)
          /\ slashed' = [slashed EXCEPT ![n] = @ \cup {m.from}]
          /\ pendingSlash' = [pendingSlash EXCEPT ![n][m.from] = m.height + SlashDelay]
          /\ pendingHeal' = [pendingHeal EXCEPT ![n][m.from] =
                IF HealDelay > 0 THEN m.height + SlashDelay + HealDelay ELSE @]
          /\ flagged' = flagged \cup {m.from}
          /\ caught' = [caught EXCEPT ![n] = Append(@, <<m.from, m.height>>)]
       \/ /\ ~Equivocation(n, m)
          /\ UNCHANGED <<slashed, pendingSlash, pendingHeal, flagged, caught>>

Receive(n) ==
    /\ Waiting(n)
    /\ inbox[n] # <<>>
    /\ LET m == Head(inbox[n]) IN
        /\ inbox' = [inbox EXCEPT ![n] = Tail(@)]
        /\ Observe(n, m)
        /\ \/ /\ Wants(n, m)
              /\ Take(n, m)
              /\ UNCHANGED pending
           \/ /\ ~Wants(n, m)
              /\ pending' = [pending EXCEPT ![n] = Append(@, m)]
              /\ UNCHANGED <<pc, cand, counted>>
    /\ UNCHANGED <<chain, draft, to, zeroed, viewVars, byz, recorded, cancelled,
                   junked>>

-----------------------------------------------------------------------------
\* prunePending: the messages above height h, in the order they were stashed.
Undecided_Nothing(msgs, h) == <<>>
Undecided(msgs, h) ==
    LET kept[i \in 0..Len(msgs)] ==
            IF i = 0 THEN <<>>
            ELSE IF msgs[i].height > h THEN Append(kept[i-1], msgs[i])
            ELSE kept[i-1]
    IN  kept[Len(msgs)]

NewHeight_Any(n) == TRUE
NewHeight(n) == Height(n) > Len(LiveChain)

\* The threshold is passed: commit, let the cluster record the block if its
\* height is new to it, forget what is decided, go on to the next height.
Commit(n) ==
    /\ pc[n] = "tally"
    /\ Accepted(n)
    /\ chain' = [chain EXCEPT ![n] = cand[n]]
    /\ recorded' = IF NewHeight(n) THEN Append(recorded, cand[n]) ELSE recorded
    /\ pending' = [pending EXCEPT ![n] = Undecided(@, Height(n))]
    /\ seen' = [seen EXCEPT ![n] = {v \in @ : v.height > Height(n) - VoteMemory}]
    /\ cand' = [cand EXCEPT ![n] = NoBlock]
    /\ counted' = [counted EXCEPT ![n] = {}]
    /\ pc' = [pc EXCEPT ![n] = IF Height(n) < MaxHeight THEN "height" ELSE "done"]
    /\ UNCHANGED <<draft, to, inbox, slashed, pendingSlash, pendingHeal, flagged,
                   zeroed, viewVars, byz, cancelled, history>>

MakeFaulty(v) ==
    /\ v \in Faultable
    /\ ~byz[v]
    /\ byz' = [byz EXCEPT ![v] = TRUE]
    /\ UNCHANGED <<pc, chain, netVars, roundVars, faultVars, viewVars, recorded, cancelled,
                   history>>

Cancel ==
    /\ Cancellable
    /\ ~cancelled
    /\ cancelled' = TRUE
    /\ UNCHANGED <<pc, chain, netVars, roundVars, faultVars, viewVars, byz, recorded,
                   history>>

\* A node notices the cancellation at the top of its loop and in waitFor, not
\* in a broadcast that is blocked.
Interruptible_LoopTop(n) == pc[n] = "height"
Interruptible(n) == pc[n] = "height" \/ Waiting(n)

Stop(n) ==
    /\ cancelled
    /\ Interruptible(n)
    /\ pc' = [pc EXCEPT ![n] = "stopped"]
    /\ UNCHANGED <<chain, netVars, roundVars, faultVars, viewVars, byz, recorded, cancelled,
                   history>>

Ended == {"done", "halted", "stopped", "crashed"}

\* Run returns once every goroutine has unwound.
Returned ==
    /\ \A n \in Nodes : pc[n] \in Ended
    /\ UNCHANGED vars

Step(n) ==
    \/ StartHeight(n) \/ NoProposer(n)
    \/ Send(n) \/ AfterVote(n)
    \/ TakeStashed(n) \/ Receive(n)
    \/ Commit(n)
    \/ Stop(n)

Next ==
    \/ \E n \in Nodes : Step(n) \/ MakeFaulty(n)
    \/ Cancel
    \/ Returned

Spec == Init /\ [][Next]_vars

\* The Go scheduler runs every goroutine that can run.
FairSpec == Spec /\ \A n \in Nodes : WF_vars(Step(n))

-----------------------------------------------------------------------------
(* Properties *)

PC == {"height", "propose", "candidate", "vote", "voted", "equivocate", "tally"}
      \cup Ended

TypeOK ==
    /\ pc \in [Nodes -> PC]
    /\ chain \in [Nodes -> Block]
    /\ draft \in [Nodes -> Block]
    /\ cand \in [Nodes -> Block]
    /\ counted \in [Nodes -> SUBSET Nodes]
    /\ to \in [Nodes -> Nodes]
    /\ inbox \in [Nodes -> Seq(Message)]
    /\ pending \in [Nodes -> Seq(Message)]
    /\ seen \in [Nodes -> SUBSET Message]
    /\ slashed \in [Nodes -> SUBSET Nodes]
    /\ pendingSlash \in [Nodes -> [Nodes -> Nat]]
    /\ pendingHeal \in [Nodes -> [Nodes -> Nat]]
    /\ excluded \in [Nodes -> [Nodes -> BOOLEAN]]
    /\ priority \in [Nodes -> [Nodes -> Int]]
    /\ byz \in [Nodes -> BOOLEAN]
    /\ recorded \in Seq(Block)
    /\ flagged \subseteq Nodes
    /\ zeroed \subseteq Nodes
    /\ cancelled \in BOOLEAN
    /\ junked \subseteq DoubleVote
    /\ caught \in [Nodes -> Seq(DoubleVote)]

\* A commit is final (README.md, "no fork choice, no reversion"): no two
\* nodes ever commit different blocks at a height, whatever each of them
\* thinks of who is slashed.
Agreement ==
    \A m, n \in Nodes : IsPrefix(chain[m], chain[n]) \/ IsPrefix(chain[n], chain[m])

\* The same for the cluster: the blocks it records, which a server appends to
\* its log one by one, are one growing chain, no height left out or recorded
\* twice, and every node's chain is at all times a prefix of it.
ServerLog == Replayed \o [i \in DOMAIN recorded |-> Last(recorded[i])]
Final == INSTANCE FinalLog WITH
            Replica <- Nodes, Item <- Header, Start <- Replayed,
            log <- ServerLog, copy <- chain

FinalSpec == Final!Spec

\* Nodes that work on the same height elected its proposer from the same
\* priorities and count votes against the same threshold (proposer.go, the
\* comment on slashDelay).
SameElection ==
    \A m, n \in Nodes :
        /\ Height(m) = Height(n)
        /\ {pc[m], pc[n]} \cap ({"height"} \cup Ended) = {}
        => /\ excluded[m] = excluded[n]
           /\ priority[m] = priority[n]
           /\ Weight(m) = Weight(n)

\* No node ever meets a block that does not extend its tip, the "impossible
\* state" of checkCandidate that stops a node for good.
NeverHalts == \A n \in Nodes : pc[n] # "halted"

\* The validators node n has detected, now or before.
CaughtBy(n) == {d[1] : d \in ToSet(caught[n])}

\* Whoever is detected, slashed or shown as slashed has really double-voted by
\* then: a node schedules a slash for a second vote that was sent at that height
\* and for each such vote once, so that a validator that healed is caught again
\* only when it double-votes again; a node that knows of no double vote of a
\* validator holds nothing against it, and neither does the cluster when no node
\* does.
NoFalseSlash ==
    /\ \A n \in Nodes :
        /\ ToSet(caught[n]) \subseteq junked /\ IsInjective(caught[n])
        /\ slashed[n] \subseteq CaughtBy(n)
        /\ \A v \in Nodes : excluded[n][v] => v \in CaughtBy(n)
    /\ flagged \cup zeroed \subseteq UNION {CaughtBy(n) : n \in Nodes}

\* The books a node keeps on one offender stay consistent: an offender is
\* either still to be excluded or excluded, and where slashes heal it has its
\* heal ahead of it until it is forgiven; nobody else has anything pending or
\* is excluded.  No exclusion and no re-detection guard is ever left behind.
SlashLifecycle ==
    \A n, v \in Nodes :
        LET toCome == pendingSlash[n][v] # 0
        IN  /\ v \in slashed[n] <=> (toCome \/ excluded[n][v])
            /\ ~(toCome /\ excluded[n][v])
            /\ pendingHeal[n][v] # 0 <=> (HealDelay > 0 /\ v \in slashed[n])
            /\ toCome /\ HealDelay > 0 => pendingHeal[n][v] > pendingSlash[n][v]

\* The cluster never shows a validator as slashed that no node holds anything
\* against any more, or without stake when no node excludes it any more, however
\* far apart the nodes slash and heal it: nobody would be left to clear the flag
\* and the budget of the fault button would never come back.
NoStaleFlag ==
    /\ flagged \subseteq UNION {slashed[n] : n \in Nodes}
    /\ zeroed \subseteq {v \in Nodes : \E n \in Nodes : excluded[n][v]}

\* RunContext returns once its context is cancelled, stalled or not.
CancelReturns == cancelled ~> \A n \in Nodes : pc[n] \in Ended

\* Run returns, every node having committed every height, unless the process
\* runs out of validators with stake or is cancelled.
RunReturns == <>(\A n \in Nodes : pc[n] \in {"done", "stopped", "crashed"})
=============================================================================
