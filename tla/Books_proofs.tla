---------------------------- MODULE Books_proofs ----------------------------
(***************************************************************************)
(* Proofs about what is kept beside the chains in Consensus: the books of  *)
(* each node on offenders and the flags the cluster shows, the cluster's   *)
(* log, and the priorities of each node's election.                        *)
(***************************************************************************)
EXTENDS Consensus_proofs

-----------------------------------------------------------------------------
(***************************************************************************)
(* Offenders.  These proofs hold whoever is made faulty and whenever, also *)
(* where the commits no longer agree: SlashLifecycle and NoStaleFlag are   *)
(* inductive beside the types.                                             *)
(***************************************************************************)

\* The top of the loop: what is due is applied, what heals is forgiven.
LEMMA StartHeightBooks ==
    ASSUME TypeOK, SlashLifecycle, NEW n \in Nodes, StartHeight(n)
    PROVE  SlashLifecycle'
<1>1. \A m, v \in Nodes :
        /\ m # n => /\ slashed'[m] = slashed[m] /\ excluded'[m] = excluded[m]
                    /\ pendingSlash'[m] = pendingSlash[m]
                    /\ pendingHeal'[m] = pendingHeal[m]
        /\ slashed'[n] = slashed[n] \ Healing(n)
        /\ excluded'[n][v] = AfterHeals(n)[v]
        /\ pendingSlash'[n][v] = IF v \in Due(n) THEN 0 ELSE pendingSlash[n][v]
        /\ pendingHeal'[n][v] = IF v \in Healing(n) THEN 0 ELSE pendingHeal[n][v]
  BY DEF StartHeight, TypeOK
<1>2. Height(n) \in Nat \ {0} /\ HealDelay \in Nat
  BY HeightType, HealAssumption
<1>3. SUFFICES ASSUME NEW m \in Nodes, NEW v \in Nodes
               PROVE  LET toCome == pendingSlash'[m][v] # 0
                      IN  /\ v \in slashed'[m] <=> (toCome \/ excluded'[m][v])
                          /\ ~(toCome /\ excluded'[m][v])
                          /\ pendingHeal'[m][v] # 0 <=> (HealDelay > 0 /\ v \in slashed'[m])
                          /\ toCome /\ HealDelay > 0 => pendingHeal'[m][v] > pendingSlash'[m][v]
  BY DEF SlashLifecycle
<1>4. CASE m # n
  BY <1>1, <1>4 DEF SlashLifecycle
<1>5. CASE m = n
  <2> DEFINE p == pendingSlash[n][v]
             q == pendingHeal[n][v]
  <2>1. p \in Nat /\ q \in Nat /\ excluded[n][v] \in BOOLEAN
    BY DEF TypeOK
  <2>2. /\ v \in slashed[n] <=> (p # 0 \/ excluded[n][v])
        /\ ~(p # 0 /\ excluded[n][v])
        /\ q # 0 <=> (HealDelay > 0 /\ v \in slashed[n])
        /\ p # 0 /\ HealDelay > 0 => q > p
    BY DEF SlashLifecycle
  <2>3. /\ v \in Due(n) <=> p \in 1..Height(n)
        /\ v \in Healing(n) <=> q \in 1..Height(n)
        /\ AfterHeals(n)[v] <=> (excluded[n][v] \/ v \in Due(n)) /\ v \notin Healing(n)
    BY DEF Due, Healing, AfterHeals, AfterSlashes
  <2> HIDE DEF p, q
  <2>4. v \in Due(n) => p # 0
    BY <2>1, <2>3
  <2>5. v \in Healing(n) => q # 0 /\ (p # 0 => v \in Due(n))
    BY <1>2, <2>1, <2>2, <2>3
  <2> QED
    BY <1>1, <1>5, <2>1, <2>2, <2>3, <2>4, <2>5 DEF p, q
<1> QED
  BY <1>4, <1>5

\* An offender is new to the books of whoever detects it.
LEMMA ObserveBooks ==
    ASSUME TypeOK, SlashLifecycle, NEW n \in Nodes, NEW m \in Message, Observe(n, m),
           excluded' = excluded
    PROVE  SlashLifecycle'
<1>1. CASE ~Equivocation(n, m)
  BY <1>1 DEF Observe, SlashLifecycle
<1>2. CASE Equivocation(n, m)
  <2> DEFINE o == m.from
             p == m.height + SlashDelay
             q == m.height + SlashDelay + HealDelay
  <2>1. o \in Nodes /\ o \notin slashed[n] /\ m.height \in Nat
    BY <1>2 DEF Equivocation, Message
  <2>2. p \in Nat \ {0} /\ q \in Nat \ {0} /\ (HealDelay > 0 => q > p)
    BY <2>1, HealAssumption DEF SlashDelay
  <2>3. /\ slashed' = [slashed EXCEPT ![n] = @ \cup {o}]
        /\ pendingSlash' = [pendingSlash EXCEPT ![n][o] = p]
        /\ pendingHeal' = [pendingHeal EXCEPT ![n][o] = IF HealDelay > 0 THEN q ELSE @]
    BY <1>2 DEF Observe
  <2>4. ~excluded[n][o] /\ pendingHeal[n][o] = 0
    BY <2>1 DEF SlashLifecycle
  <2> HIDE DEF o, p, q
  <2>5. /\ slashed'[n] = slashed[n] \cup {o}
        /\ pendingSlash'[n][o] = p
        /\ pendingHeal'[n][o] = IF HealDelay > 0 THEN q ELSE 0
        /\ \A v \in Nodes \ {o} : /\ pendingSlash'[n][v] = pendingSlash[n][v]
                                  /\ pendingHeal'[n][v] = pendingHeal[n][v]
        /\ \A k \in Nodes \ {n} : /\ slashed'[k] = slashed[k]
                                  /\ pendingSlash'[k] = pendingSlash[k]
                                  /\ pendingHeal'[k] = pendingHeal[k]
    BY <2>1, <2>3, <2>4 DEF TypeOK
  <2> QED
    BY <2>1, <2>2, <2>4, <2>5 DEF SlashLifecycle
<1> QED
  BY <1>1, <1>2

LEMMA BooksStep == TypeOK /\ SlashLifecycle /\ [Next]_vars => SlashLifecycle'
<1> SUFFICES ASSUME TypeOK, SlashLifecycle, [Next]_vars PROVE SlashLifecycle'
  OBVIOUS
<1>1. ASSUME NEW n \in Nodes, StartHeight(n) PROVE SlashLifecycle'
  BY <1>1, StartHeightBooks
<1>2. ASSUME NEW n \in Nodes, Receive(n) PROVE SlashLifecycle'
  <2>1. Head(inbox[n]) \in Message
    BY <1>2, HeadTailSeq DEF Receive, TypeOK
  <2>2. Observe(n, Head(inbox[n])) /\ excluded' = excluded
    BY <1>2 DEF Receive, viewVars
  <2> QED
    BY <2>1, <2>2, ObserveBooks
<1>3. ASSUME UNCHANGED <<slashed, pendingSlash, pendingHeal, excluded>>
      PROVE  SlashLifecycle'
  BY <1>3 DEF SlashLifecycle
<1>4. ASSUME NEW n \in Nodes,
             \/ NoProposer(n) \/ Send(n) \/ AfterVote(n) \/ TakeStashed(n)
             \/ Commit(n) \/ Stop(n) \/ MakeFaulty(n)
      PROVE  UNCHANGED <<slashed, pendingSlash, pendingHeal, excluded>>
  BY <1>4 DEF NoProposer, Send, AfterVote, TakeStashed, Commit, Stop, MakeFaulty,
              faultVars, viewVars
<1>5. Cancel \/ UNCHANGED vars => UNCHANGED <<slashed, pendingSlash, pendingHeal, excluded>>
  BY DEF Cancel, vars, faultVars, viewVars
<1> QED
  BY <1>1, <1>2, <1>3, <1>4, <1>5 DEF Next, Step, Returned

\* The books on an offender stay consistent from its detection to its heal,
\* however late each node pulls the evidence: nobody stays excluded without a
\* heal to come, and nobody is detected twice for the same slash.
THEOREM SlashLifecycleHolds == Spec => []SlashLifecycle
<1>1. Init => SlashLifecycle
  BY DEF Init, SlashLifecycle
<1>2. TypeOK /\ SlashLifecycle /\ [Next]_vars => SlashLifecycle'
  BY BooksStep
<1> QED
  BY <1>1, <1>2, TypeCorrect, PTL DEF Spec

\* The flag a node's heal clears is one no other node's books need: whatever the
\* others still hold was flagged for a slash of their own.
LEMMA FlagStep == TypeOK /\ NoStaleFlag /\ [Next]_vars => NoStaleFlag'
<1> SUFFICES ASSUME TypeOK, NoStaleFlag, [Next]_vars PROVE NoStaleFlag'
  OBVIOUS
<1>1. ASSUME NEW n \in Nodes, StartHeight(n) PROVE NoStaleFlag'
  <2>1. /\ flagged' = flagged \ Healing(n)
        /\ zeroed' = (zeroed \cup Due(n)) \ Healing(n)
        /\ slashed'[n] = slashed[n] \ Healing(n)
        /\ \A v \in Nodes : excluded'[n][v] <=>
                (excluded[n][v] \/ v \in Due(n)) /\ v \notin Healing(n)
        /\ \A m \in Nodes \ {n} : slashed'[m] = slashed[m] /\ excluded'[m] = excluded[m]
    BY <1>1 DEF StartHeight, Unflagged, AfterHeals, AfterSlashes, TypeOK
  <2>2. Due(n) \subseteq Nodes /\ zeroed \subseteq Nodes
    BY DEF Due, TypeOK
  <2>3. ASSUME NEW v \in flagged' PROVE \E m \in Nodes : v \in slashed'[m]
    <3>1. v \notin Healing(n) /\ \E m \in Nodes : v \in slashed[m]
      BY <2>1, <2>3 DEF NoStaleFlag
    <3> QED
      BY <2>1, <3>1
  <2>4. ASSUME NEW v \in zeroed' PROVE v \in Nodes /\ \E m \in Nodes : excluded'[m][v]
    <3>1. /\ v \in Nodes /\ v \notin Healing(n)
          /\ v \in Due(n) \/ \E m \in Nodes : excluded[m][v]
      BY <2>1, <2>2, <2>4 DEF NoStaleFlag
    <3> QED
      BY <2>1, <3>1
  <2> QED
    BY <2>3, <2>4 DEF NoStaleFlag
<1>2. ASSUME NEW n \in Nodes, Receive(n) PROVE NoStaleFlag'
  <2> DEFINE m == Head(inbox[n])
  <2>1. Observe(n, m) /\ excluded' = excluded /\ zeroed' = zeroed
    BY <1>2 DEF Receive, viewVars
  <2> HIDE DEF m
  <2>2. \/ flagged' = flagged /\ slashed' = slashed
        \/ /\ flagged' = flagged \cup {m.from}
           /\ slashed' = [slashed EXCEPT ![n] = @ \cup {m.from}]
    BY <2>1 DEF Observe
  <2>3. ASSUME NEW v \in flagged' PROVE \E k \in Nodes : v \in slashed'[k]
    <3>1. slashed \in [Nodes -> SUBSET Nodes]
      BY DEF TypeOK
    <3>2. \A k \in Nodes : slashed[k] \subseteq slashed'[k]
      BY <2>2, <3>1
    <3>3. CASE v \in flagged
      BY <3>2, <3>3 DEF NoStaleFlag
    <3>4. CASE v \notin flagged
      BY <2>2, <2>3, <3>1, <3>4
    <3> QED
      BY <3>3, <3>4
  <2> QED
    BY <2>1, <2>3 DEF NoStaleFlag
<1>3. ASSUME UNCHANGED <<slashed, flagged, zeroed, excluded>> PROVE NoStaleFlag'
  BY <1>3 DEF NoStaleFlag
<1>4. ASSUME NEW n \in Nodes,
             \/ NoProposer(n) \/ Send(n) \/ AfterVote(n) \/ TakeStashed(n)
             \/ Commit(n) \/ Stop(n) \/ MakeFaulty(n)
      PROVE  UNCHANGED <<slashed, flagged, zeroed, excluded>>
  BY <1>4 DEF NoProposer, Send, AfterVote, TakeStashed, Commit, Stop, MakeFaulty,
              faultVars, viewVars
<1>5. Cancel \/ UNCHANGED vars => UNCHANGED <<slashed, flagged, zeroed, excluded>>
  BY DEF Cancel, vars, faultVars, viewVars
<1> QED
  BY <1>1, <1>2, <1>3, <1>4, <1>5 DEF Next, Step, Returned

\* Whoever the cluster shows as slashed is in some node's books, and whoever it
\* shows without stake is excluded by some node: a flag that nobody is left to
\* clear never comes about, however far apart the nodes slash and heal.
THEOREM NoStaleFlagHolds == Spec => []NoStaleFlag
<1>1. Init => NoStaleFlag
  BY DEF Init, NoStaleFlag
<1>2. TypeOK /\ NoStaleFlag /\ [Next]_vars => NoStaleFlag'
  BY FlagStep
<1> QED
  BY <1>1, <1>2, TypeCorrect, PTL DEF Spec

-----------------------------------------------------------------------------
(***************************************************************************)
(* Double votes.  An inbox is a queue and a validator sends a height's     *)
(* vote before its second one and both before the next height's: what a    *)
(* node pulls from one validator goes up in rank.  A vote that conflicts   *)
(* with one seen before is therefore a second vote, and one not pulled     *)
(* before.  Nothing is assumed of who is faulty.                           *)
(***************************************************************************)

Voting == {"vote", "voted", "equivocate", "tally"}

\* The place of a vote among those its voter sends: the second vote of a height
\* comes after the first.
Rank(m) == IF m.block = Junk THEN 2 * m.height + 1 ELSE 2 * m.height

\* No vote that v may still send to n ranks below this.
Phase(v, n) ==
    IF pc[v] \in {"height", "propose", "candidate"} THEN 0
    ELSE IF pc[v] = "vote" THEN IF to[v] <= n THEN 0 ELSE 1
    ELSE IF pc[v] = "voted" THEN 1
    ELSE IF pc[v] = "equivocate" THEN IF to[v] <= n THEN 1 ELSE 2
    ELSE 2
Floor(v, n) == 2 * Height(v) + Phase(v, n)

\* A proposal is for the height of its block, and so is the candidate.
Timely == {m \in Message : m.kind = "proposal" => Len(m.block) = m.height}
Rounds ==
    /\ \A n \in Nodes : pc[n] \in Voting => Len(cand[n]) = Height(n)
    /\ inbox \in [Nodes -> Seq(Timely)] /\ pending \in [Nodes -> Seq(Timely)]

Votes(n) == {i \in DOMAIN inbox[n] : inbox[n][i].kind = "vote"}

\* n keeps or has caught a vote of v of rank r.
Past(n, v, r) ==
    \/ \E s \in seen[n] : s.from = v /\ r = Rank(s)
    \/ \E d \in ToSet(caught[n]) : d[1] = v /\ r = 2 * d[2] + 1

InOrder(n) ==
    /\ \A i \in Votes(n) : inbox[n][i].block = Junk =>
            <<inbox[n][i].from, inbox[n][i].height>> \in junked
    /\ \A v \in Nodes, i \in Votes(n) :
        inbox[n][i].from = v => Rank(inbox[n][i]) < Floor(v, n)
    /\ \A i, j \in Votes(n) :
        i < j /\ inbox[n][i].from = inbox[n][j].from =>
            Rank(inbox[n][i]) < Rank(inbox[n][j])
    /\ \A v \in Nodes, r \in Nat :
        Past(n, v, r) =>
            /\ r < Floor(v, n)
            /\ \A i \in Votes(n) : inbox[n][i].from = v => r < Rank(inbox[n][i])

Order == \A n \in Nodes : InOrder(n)

LEMMA RankType == ASSUME NEW m \in Message PROVE Rank(m) \in Nat
<1>1. m.height \in Nat
  BY DEF Message
<1> QED
  BY <1>1 DEF Rank

LEMMA FloorType ==
    ASSUME TypeOK, NEW v \in Nodes, NEW n \in Nodes
    PROVE  Height(v) \in Nat \ {0} /\ Phase(v, n) \in 0..2 /\ Floor(v, n) \in Nat
<1>1. Height(v) \in Nat \ {0}
  BY HeightType
<1>2. Phase(v, n) \in 0..2
  BY DEF Phase
<1> QED
  BY <1>1, <1>2 DEF Floor

\* What a step leaves in the inbox and the books of one node stays in order as
\* long as no validator goes back.
LEMMA InOrderKept ==
    ASSUME TypeOK, TypeOK', NEW n \in Nodes, InOrder(n),
           inbox'[n] = inbox[n], caught'[n] = caught[n], seen'[n] \subseteq seen[n],
           junked \subseteq junked',
           \A v \in Nodes : Floor(v, n) <= Floor(v, n)'
    PROVE  InOrder(n)'
<1>1. inbox[n] \in Seq(Message) /\ Votes(n)' = Votes(n)
  BY DEF TypeOK, Votes
<1>2. \A i \in Votes(n) : inbox[n][i] \in Message /\ inbox[n][i].from \in Nodes
  <2>1. PICK Q \in Seq(Message) : Q = inbox[n]
    BY <1>1
  <2>2. \A i \in DOMAIN Q : Q[i] \in Message
    OBVIOUS
  <2>3. \A m \in Message : m.from \in Nodes
    BY DEF Message
  <2> QED
    BY <2>1, <2>2, <2>3 DEF Votes
<1>3. \A v \in Nodes : Floor(v, n) \in Nat /\ Floor(v, n)' \in Nat
  <2>1. ASSUME NEW v \in Nodes PROVE Floor(v, n) \in Nat
    BY FloorType
  <2>2. ASSUME NEW v \in Nodes PROVE Floor(v, n)' \in Nat
    <3>1. Height(v)' \in Nat
      <4>1. chain'[v] \in Seq(Header)
        BY DEF TypeOK, Block
      <4> QED
        BY <4>1 DEF Height
    <3>2. Phase(v, n)' \in 0..2
      BY DEF Phase
    <3> QED
      BY <3>1, <3>2 DEF Floor
  <2> QED
    BY <2>1, <2>2
<1>4. ASSUME NEW i \in Votes(n), NEW v \in Nodes
      PROVE  /\ inbox[n][i].from = v => Rank(inbox[n][i]) < Floor(v, n)'
             /\ inbox[n][i].block = Junk =>
                   <<inbox[n][i].from, inbox[n][i].height>> \in junked'
  <2>1. /\ inbox[n][i].from = v => Rank(inbox[n][i]) < Floor(v, n)
        /\ inbox[n][i].block = Junk =>
              <<inbox[n][i].from, inbox[n][i].height>> \in junked
    BY DEF InOrder
  <2>2. Rank(inbox[n][i]) \in Nat
    BY <1>2, RankType
  <2> QED
    BY <1>2, <1>3, <2>1, <2>2
<1>5. ASSUME NEW v \in Nodes, NEW r \in Nat, Past(n, v, r)'
      PROVE  /\ r < Floor(v, n)'
             /\ \A i \in Votes(n) : inbox[n][i].from = v => r < Rank(inbox[n][i])
  <2>1. Past(n, v, r)
    BY <1>5 DEF Past
  <2>2. /\ r < Floor(v, n)
        /\ \A i \in Votes(n) : inbox[n][i].from = v => r < Rank(inbox[n][i])
    BY <2>1 DEF InOrder
  <2> QED
    BY <1>3, <2>2
<1>6. \A i, j \in Votes(n) :
        i < j /\ inbox[n][i].from = inbox[n][j].from =>
            Rank(inbox[n][i]) < Rank(inbox[n][j])
  BY DEF InOrder
<1> HIDE DEF Rank, Floor, Past, Votes
<1> QED
  BY <1>1, <1>4, <1>5, <1>6 DEF InOrder

\* The steps within a height, a broadcast aside, take a validator forward.
LEMMA FloorForward ==
    ASSUME TypeOK, chain' = chain, to' = to,
           \A v \in Nodes :
              \/ pc'[v] = pc[v] \/ pc'[v] \in Ended
              \/ pc[v] = "height" /\ pc'[v] \in {"propose", "candidate"}
              \/ pc[v] = "voted" /\ pc'[v] \in {"equivocate", "tally"}
              \/ pc[v] = "candidate" /\ pc'[v] = "vote"
    PROVE  \A v, n \in Nodes : Floor(v, n) <= Floor(v, n)'
<1> SUFFICES ASSUME NEW v \in Nodes, NEW n \in Nodes
             PROVE  Floor(v, n) <= Floor(v, n)'
  OBVIOUS
<1>1. Height(v) \in Nat /\ Height(v)' = Height(v)
  BY FloorType DEF Height
<1>2. Phase(v, n) \in 0..2 /\ Phase(v, n)' \in 0..2 /\ Phase(v, n) <= Phase(v, n)'
  BY DEF Phase, Ended
<1> QED
  BY <1>1, <1>2 DEF Floor

LEMMA SendForward ==
    ASSUME TypeOK, Rounds, NEW n \in Nodes, NEW k \in Nodes, k = to[n], Send(n)
    PROVE  /\ \A v, j \in Nodes : Floor(v, j) <= Floor(v, j)'
           /\ Outgoing(n).kind = "vote" =>
                /\ Outgoing(n).from = n /\ Rank(Outgoing(n)) = Floor(n, k)
                /\ Rank(Outgoing(n)) < Floor(n, k)'
                /\ Outgoing(n).block = Junk =>
                      <<Outgoing(n).from, Outgoing(n).height>> \in junked'
<1>1. /\ N \in Nat \ {0} /\ to \in [Nodes -> Nodes] /\ pc \in [Nodes -> PC]
      /\ pc[n] \in {"propose", "vote", "equivocate"}
      /\ \A v \in Nodes : Height(v) \in Nat \ {0} /\ Height(v)' = Height(v)
  BY NAssumption, FloorType DEF TypeOK, Send, Broadcasting, Height
<1>2. \/ to[n] < N /\ to' = [to EXCEPT ![n] = @ + 1] /\ pc' = pc
      \/ /\ to[n] = N
         /\ pc' = [pc EXCEPT ![n] = AfterBroadcast(n)]
  <2>1. to[n] \in Nodes
    BY <1>1
  <2>2. to[n] \in 1..N /\ N \in Nat
    BY <1>1, <2>1 DEF Nodes
  <2>3. to[n] < N \/ to[n] = N
    BY <2>2
  <2> QED
    BY <2>2, <2>3 DEF Send, MoreInboxes
<1>3. ASSUME NEW v \in Nodes, NEW j \in Nodes
      PROVE  /\ Phase(v, j) <= Phase(v, j)'
             /\ Phase(v, j) \in 0..2 /\ Phase(v, j)' \in 0..2
  <2>1. CASE v # n
    <3>1. pc'[v] = pc[v] /\ to'[v] = to[v]
      BY <1>1, <2>1 DEF Send
    <3> QED
      BY <3>1 DEF Phase
  <2>2. CASE v = n /\ to[n] < N
    <3>1. pc'[n] = pc[n] /\ to'[n] = to[n] + 1 /\ to[n] \in Int /\ j \in Int
      <4>1. to[n] \in Nodes
        BY <1>1
      <4>2. to[n] \in Int /\ j \in Int
        BY <1>1, <4>1 DEF Nodes
      <4>3. to' = [to EXCEPT ![n] = @ + 1] /\ pc' = pc
        BY <1>2, <2>2, <4>2
      <4> QED
        BY <1>1, <4>2, <4>3
    <3> QED
      BY <1>1, <2>2, <3>1 DEF Phase
  <2>3. CASE v = n /\ to[n] = N
    <3>1. pc'[n] = AfterBroadcast(n) /\ j <= N
      BY <1>1, <1>2, <2>3 DEF Nodes
    <3> QED
      BY <1>1, <2>3, <3>1 DEF Phase, AfterBroadcast
  <2> QED
    BY <1>2, <2>1, <2>2, <2>3
<1>4. \A v, j \in Nodes : Floor(v, j) <= Floor(v, j)'
  BY <1>1, <1>3 DEF Floor
<1>5. ASSUME Outgoing(n).kind = "vote"
      PROVE  /\ Outgoing(n).from = n /\ Rank(Outgoing(n)) = Floor(n, k)
             /\ Rank(Outgoing(n)) < Floor(n, k)'
             /\ Outgoing(n).block = Junk =>
                   <<Outgoing(n).from, Outgoing(n).height>> \in junked'
  <2>1. k = to[n] /\ to[n] \in Int
    BY <1>1 DEF Nodes
  <2>2. pc[n] \in {"vote", "equivocate"}
    BY <1>1, <1>5 DEF Outgoing, Proposal
  <2>3. /\ Outgoing(n).from = n /\ Outgoing(n).height = Height(n)
        /\ pc[n] = "vote" => Outgoing(n).block = cand[n]
        /\ pc[n] = "equivocate" => Outgoing(n).block = Junk
    BY <2>2 DEF Outgoing, Vote
  <2>4. pc[n] = "vote" => cand[n] # Junk
    <3>1. pc[n] = "vote" => Len(cand[n]) = Height(n)
      BY DEF Rounds, Voting
    <3> QED
      BY <1>1, <3>1 DEF Junk
  <2>5. Phase(n, k) = IF pc[n] = "vote" THEN 0 ELSE 1
    BY <2>1, <2>2 DEF Phase
  <2>6. Phase(n, k)' = Phase(n, k) + 1
    <3>1. Phase(n, k)' = IF pc[n] = "vote" THEN 1 ELSE 2
      <4>1. CASE to[n] < N
        <5>1. pc'[n] = pc[n] /\ to'[n] = to[n] + 1
          BY <1>1, <1>2, <4>1
        <5> QED
          BY <2>1, <2>2, <5>1 DEF Phase
      <4>2. CASE to[n] = N
        <5>1. pc'[n] = AfterBroadcast(n)
          BY <1>1, <1>2, <4>2
        <5> QED
          BY <2>2, <5>1 DEF Phase, AfterBroadcast
      <4> QED
        BY <1>2, <4>1, <4>2
    <3> QED
      BY <2>5, <3>1
  <2>7. Rank(Outgoing(n)) = Floor(n, k)
    BY <1>1, <2>2, <2>3, <2>4, <2>5 DEF Rank, Floor
  <2>8. Floor(n, k) < Floor(n, k)'
    BY <1>1, <1>3, <2>1, <2>6 DEF Floor
  <2>9. Outgoing(n).block = Junk => <<n, Height(n)>> \in junked'
    BY <2>2, <2>3, <2>4 DEF Send
  <2> QED
    BY <2>3, <2>7, <2>8, <2>9
<1> QED
  BY <1>4, <1>5

\* A vote joins the queue of an inbox behind all its voter sent there before.
LEMMA SendOrder ==
    ASSUME TypeOK, TypeOK', Rounds, Order, NEW n \in Nodes, Send(n)
    PROVE  Order'
<1>1. PICK k \in Nodes, m \in Message :
        k = to[n] /\ m = Outgoing(n) /\ inbox[k] \in Seq(Message)
  BY OutgoingType DEF TypeOK, Send
<1>2. /\ inbox' = [inbox EXCEPT ![k] = Append(inbox[k], m)]
      /\ seen' = seen /\ caught' = caught /\ junked \subseteq junked'
  BY <1>1 DEF Send, faultVars
<1>3. /\ \A v, j \in Nodes : Floor(v, j) <= Floor(v, j)'
      /\ m.kind = "vote" =>
            /\ m.from = n /\ Rank(m) = Floor(n, k) /\ Rank(m) < Floor(n, k)'
            /\ m.block = Junk => <<m.from, m.height>> \in junked'
  BY <1>1, SendForward
<1>4. ASSUME NEW j \in Nodes, j # k PROVE InOrder(j)'
  <2>1. inbox'[j] = inbox[j] /\ InOrder(j)
    BY <1>2, <1>4 DEF TypeOK, Order
  <2> QED
    BY <1>2, <1>3, <2>1, InOrderKept
<1>5. InOrder(k)'
  <2>1. PICK Q \in Seq(Message) : Q = inbox[k]
    BY <1>1
  <2>2. /\ inbox'[k] = Append(Q, m) /\ Len(Q) \in Nat
        /\ DOMAIN Q = 1..Len(Q) /\ DOMAIN inbox'[k] = 1..(Len(Q) + 1)
        /\ \A i \in 1..Len(Q) : inbox'[k][i] = Q[i] /\ Q[i] \in Message
        /\ inbox'[k][Len(Q) + 1] = m
    <3>1. inbox'[k] = Append(Q, m)
      BY <1>1, <1>2, <2>1 DEF TypeOK
    <3>2. /\ Len(Q) \in Nat /\ DOMAIN Q = 1..Len(Q)
          /\ DOMAIN Append(Q, m) = 1..(Len(Q) + 1)
          /\ \A i \in 1..Len(Q) : Append(Q, m)[i] = Q[i] /\ Q[i] \in Message
          /\ Append(Q, m)[Len(Q) + 1] = m
      OBVIOUS
    <3> QED
      BY <3>1, <3>2
  <2> DEFINE top == Len(Q) + 1
             R == inbox'[k]
  <2>3. /\ Votes(k) \subseteq 1..Len(Q)
        /\ \A i \in Votes(k)' : i \in Votes(k) \/ (i = top /\ m.kind = "vote")
        /\ Votes(k) \subseteq Votes(k)'
    BY <2>1, <2>2 DEF Votes
  <2>4. /\ \A v \in Nodes : Floor(v, k) \in Nat /\ Floor(v, k) <= Floor(v, k)'
        /\ \A i \in Votes(k) : /\ R[i] = inbox[k][i] /\ R[i].from \in Nodes
                               /\ Rank(R[i]) \in Nat
        /\ Rank(m) \in Nat
    BY <1>1, <1>3, <2>1, <2>2, <2>3, FloorType, RankType DEF Message
  <2>5. /\ \A v \in Nodes : Floor(v, k)' \in Nat
    <3> SUFFICES ASSUME NEW v \in Nodes PROVE Floor(v, k)' \in Nat
      OBVIOUS
    <3>1. Height(v)' \in Nat
      BY HeightType DEF Height, Send
    <3>2. Phase(v, k)' \in 0..2
      BY DEF Phase
    <3> QED
      BY <3>1, <3>2 DEF Floor
  <2>6. InOrder(k)
    BY <1>1 DEF Order
  <2> HIDE DEF R, top
  <2>7. ASSUME NEW i \in Votes(k)', NEW v \in Nodes
        PROVE  /\ R[i].from = v => Rank(R[i]) < Floor(v, k)'
               /\ R[i].block = Junk => <<R[i].from, R[i].height>> \in junked'
    <3>1. CASE i \in Votes(k)
      <4>1. /\ R[i].from = v => Rank(R[i]) < Floor(v, k)
            /\ R[i].block = Junk => <<R[i].from, R[i].height>> \in junked
        BY <2>4, <2>6, <3>1 DEF InOrder
      <4> QED
        BY <1>2, <2>4, <2>5, <3>1, <4>1
    <3>2. CASE i = top /\ m.kind = "vote"
      <4>1. R[i] = m
        BY <2>2, <3>2 DEF R, top
      <4> QED
        BY <1>3, <3>2, <4>1
    <3> QED
      BY <2>3, <3>1, <3>2
  <2>8. ASSUME NEW i \in Votes(k)', NEW j \in Votes(k)', i < j, R[i].from = R[j].from
        PROVE  Rank(R[i]) < Rank(R[j])
    <3>1. i \in Votes(k)
      BY <2>2, <2>3, <2>8 DEF top
    <3>2. CASE j \in Votes(k)
      BY <2>4, <2>6, <2>8, <3>1, <3>2 DEF InOrder
    <3>3. CASE j = top /\ m.kind = "vote"
      <4>1. R[j] = m /\ m.from = n /\ Rank(m) = Floor(n, k)
        BY <1>3, <2>2, <3>3 DEF R, top
      <4>2. Rank(R[i]) < Floor(R[i].from, k)
        BY <2>4, <2>6, <3>1 DEF InOrder
      <4> QED
        BY <2>8, <4>1, <4>2
    <3> QED
      BY <2>3, <3>2, <3>3
  <2>9. ASSUME NEW v \in Nodes, NEW r \in Nat, Past(k, v, r)'
        PROVE  /\ r < Floor(v, k)'
               /\ \A i \in Votes(k)' : R[i].from = v => r < Rank(R[i])
    <3>1. Past(k, v, r)
      BY <1>2, <2>9 DEF Past
    <3>2. /\ r < Floor(v, k)
          /\ \A i \in Votes(k) : inbox[k][i].from = v => r < Rank(inbox[k][i])
      BY <1>1, <2>6, <3>1 DEF InOrder
    <3>3. r < Floor(v, k)'
      BY <2>4, <2>5, <3>2
    <3>4. ASSUME NEW i \in Votes(k)', R[i].from = v PROVE r < Rank(R[i])
      <4>1. CASE i \in Votes(k)
        BY <2>4, <3>2, <3>4, <4>1
      <4>2. CASE i = top /\ m.kind = "vote"
        <5>1. R[i] = m /\ m.from = n /\ Rank(m) = Floor(n, k)
          BY <1>3, <2>2, <4>2 DEF R, top
        <5> QED
          BY <3>2, <3>4, <5>1
      <4> QED
        BY <2>3, <4>1, <4>2
    <3> QED
      BY <3>3, <3>4
  <2> HIDE DEF Rank, Floor, Past, Votes
  <2> QED
    BY <2>7, <2>8, <2>9 DEF InOrder, R
<1> QED
  BY <1>4, <1>5 DEF Order

LEMMA ToSetAppend ==
    ASSUME NEW S, NEW s \in Seq(S), NEW e \in S
    PROVE  /\ ToSet(Append(s, e)) = ToSet(s) \cup {e}
           /\ IsInjective(s) /\ e \notin ToSet(s) => IsInjective(Append(s, e))
<1>1. /\ Len(s) \in Nat /\ DOMAIN s = 1..Len(s)
      /\ DOMAIN Append(s, e) = 1..(Len(s) + 1)
      /\ \A i \in 1..Len(s) : Append(s, e)[i] = s[i]
      /\ Append(s, e)[Len(s) + 1] = e
  OBVIOUS
<1>2. ToSet(Append(s, e)) = ToSet(s) \cup {e}
  BY <1>1 DEF ToSet
<1>3. ASSUME IsInjective(s), e \notin ToSet(s) PROVE IsInjective(Append(s, e))
  <2>1. \A i \in 1..Len(s) : s[i] # e
    BY <1>1, <1>3 DEF ToSet
  <2> SUFFICES ASSUME NEW i \in 1..(Len(s) + 1), NEW j \in 1..(Len(s) + 1),
                      Append(s, e)[i] = Append(s, e)[j]
               PROVE  i = j
    BY <1>1 DEF IsInjective
  <2>2. \A a \in 1..(Len(s) + 1) : a \in 1..Len(s) \/ a = Len(s) + 1
    BY <1>1
  <2>3. CASE i \in 1..Len(s) /\ j \in 1..Len(s)
    BY <1>1, <1>3, <2>3 DEF IsInjective
  <2>4. CASE i = Len(s) + 1 \/ j = Len(s) + 1
    BY <1>1, <2>1, <2>2, <2>4
  <2> QED
    BY <2>2, <2>3, <2>4
<1> QED
  BY <1>2, <1>3

\* A vote that conflicts with a first vote its receiver keeps is the second vote
\* of its height, really sent, and was not caught before.
LEMMA ConflictIsDoubleVote ==
    ASSUME TypeOK, NEW n \in Nodes, InOrder(n), inbox[n] # <<>>,
           Equivocation(n, Head(inbox[n]))
    PROVE  LET m == Head(inbox[n])
           IN  /\ Rank(m) = 2 * m.height + 1
               /\ <<m.from, m.height>> \in junked
               /\ <<m.from, m.height>> \notin ToSet(caught[n])
<1>1. PICK m \in Message : m = Head(inbox[n]) /\ m = inbox[n][1] /\ 1 \in DOMAIN inbox[n]
  BY HeadTailSeq DEF TypeOK
<1>2. m.from \in Nodes /\ m.height \in Nat /\ 1 \in Votes(n)
  BY <1>1 DEF Message, Equivocation, Votes
<1>3. PICK s \in seen[n] : s.height = m.height /\ s.from = m.from /\ s.block # m.block
  BY <1>1 DEF Equivocation, FirstVotes
<1>4. s \in Message /\ Rank(s) \in Nat
  BY RankType DEF TypeOK
<1>5. Rank(s) < Rank(m)
  <2>1. Past(n, m.from, Rank(s))
    BY <1>3 DEF Past
  <2> QED
    BY <1>1, <1>2, <1>4, <2>1 DEF InOrder
<1>6. m.block = Junk /\ Rank(m) = 2 * m.height + 1
  BY <1>2, <1>3, <1>5 DEF Rank
<1>7. <<m.from, m.height>> \in junked
  BY <1>1, <1>2, <1>6 DEF InOrder
<1>8. ASSUME <<m.from, m.height>> \in ToSet(caught[n]) PROVE FALSE
  <2>1. Past(n, m.from, 2 * m.height + 1)
    <3>1. <<m.from, m.height>>[1] = m.from /\ <<m.from, m.height>>[2] = m.height
      OBVIOUS
    <3> QED
      BY <1>8, <3>1 DEF Past
  <2>2. 2 * m.height + 1 \in Nat
    BY <1>2
  <2>3. 2 * m.height + 1 < Rank(m)
    BY <1>1, <1>2, <2>1, <2>2 DEF InOrder
  <2> QED
    BY <1>2, <1>6, <2>3
<1> QED
  BY <1>1, <1>6, <1>7, <1>8

\* What n keeps and catches of the message it pulls is that message's rank.
LEMMA ReceiveOrder ==
    ASSUME TypeOK, TypeOK', Order, NEW n \in Nodes, Receive(n)
    PROVE  Order'
<1>1. PICK Q \in Seq(Message), m \in Message :
        /\ Q = inbox[n] /\ m = Head(Q) /\ m = Q[1] /\ Len(Q) \in Nat \ {0}
        /\ Tail(Q) \in Seq(Message) /\ DOMAIN Tail(Q) = 1..(Len(Q) - 1)
        /\ \A i \in 1..(Len(Q) - 1) : Tail(Q)[i] = Q[i + 1]
  <2>1. inbox[n] \in Seq(Message) /\ inbox[n] # <<>>
    BY DEF TypeOK, Receive
  <2>2. PICK Q \in Seq(Message) : Q = inbox[n] /\ Q # <<>>
    BY <2>1
  <2>3. /\ Head(Q) \in Message /\ Head(Q) = Q[1] /\ Len(Q) \in Nat \ {0}
        /\ Tail(Q) \in Seq(Message) /\ DOMAIN Tail(Q) = 1..(Len(Q) - 1)
        /\ \A i \in 1..(Len(Q) - 1) : Tail(Q)[i] = Q[i + 1]
    BY <2>2
  <2> QED
    BY <2>2, <2>3
<1>2. /\ inbox' = [inbox EXCEPT ![n] = Tail(Q)] /\ Observe(n, m)
      /\ chain' = chain /\ to' = to /\ junked' = junked
  BY <1>1 DEF Receive
<1>3. \A v, k \in Nodes : Floor(v, k) <= Floor(v, k)'
  <2>1. pc' = pc \/ Take(n, m)
    BY <1>1 DEF Receive
  <2>2. \/ pc' = pc
        \/ pc[n] = "candidate" /\ pc' = [pc EXCEPT ![n] = "vote"]
        \/ pc' = [pc EXCEPT ![n] = "halted"]
    BY <2>1 DEF Take
  <2>3. \A v \in Nodes : \/ pc'[v] = pc[v] \/ pc'[v] \in Ended
                         \/ pc[v] = "candidate" /\ pc'[v] = "vote"
    <3>1. pc \in [Nodes -> PC]
      BY DEF TypeOK
    <3> QED
      BY <2>2, <3>1 DEF Ended
  <2> QED
    BY <1>2, <2>3, FloorForward
<1>4. /\ seen'[n] \subseteq seen[n] \cup {m} /\ (seen'[n] = seen[n] \/ m.kind = "vote")
      /\ \A k \in Nodes \ {n} : seen'[k] = seen[k] /\ caught'[k] = caught[k]
      /\ \/ caught'[n] = caught[n]
         \/ Equivocation(n, m) /\ caught'[n] = Append(caught[n], <<m.from, m.height>>)
  <2>1. seen \in [Nodes -> SUBSET Message] /\ caught \in [Nodes -> Seq(DoubleVote)]
    BY DEF TypeOK
  <2>2. seen' = [seen EXCEPT ![n] =
                    IF m.kind = "vote" /\ m.from \notin slashed[n] /\ FirstVotes(n, m) = {}
                    THEN @ \cup {m} ELSE @]
    BY <1>2 DEF Observe
  <2>3. \/ caught' = caught
        \/ /\ Equivocation(n, m)
           /\ caught' = [caught EXCEPT ![n] = Append(@, <<m.from, m.height>>)]
    BY <1>2 DEF Observe
  <2> QED
    BY <2>1, <2>2, <2>3
<1>5. ASSUME NEW k \in Nodes, k # n PROVE InOrder(k)'
  <2>1. inbox'[k] = inbox[k] /\ InOrder(k)
    BY <1>2, <1>5 DEF TypeOK, Order
  <2> QED
    BY <1>2, <1>3, <1>4, <1>5, <2>1, InOrderKept
<1>6. InOrder(n)'
  <2> DEFINE R == inbox'[n]
  <2>1. InOrder(n)
    BY DEF Order
  <2>2. R = Tail(Q)
    BY <1>2 DEF TypeOK
  <2>3. ASSUME NEW i \in Votes(n)'
        PROVE  /\ i \in Int /\ i + 1 \in Votes(n) /\ i + 1 > 1 /\ R[i] = inbox[n][i + 1]
               /\ R[i] \in Message /\ R[i].from \in Nodes /\ Rank(R[i]) \in Nat
    <3>1. i \in 1..(Len(Q) - 1) /\ R[i].kind = "vote"
      BY <1>1, <2>2 DEF Votes
    <3>2. i + 1 \in 1..Len(Q) /\ R[i] = Q[i + 1]
      BY <1>1, <2>2, <3>1
    <3>3. R[i] \in Message
      BY <1>1, <3>2
    <3> QED
      BY <1>1, <3>1, <3>2, <3>3, RankType DEF Votes, Message
  <2>4. \A v \in Nodes : Floor(v, n) \in Nat /\ Floor(v, n)' \in Nat
    <3> SUFFICES ASSUME NEW v \in Nodes PROVE Floor(v, n) \in Nat /\ Floor(v, n)' \in Nat
      OBVIOUS
    <3>1. Height(v)' \in Nat /\ Floor(v, n) \in Nat
      BY <1>2, FloorType DEF Height
    <3>2. Phase(v, n)' \in 0..2
      BY DEF Phase
    <3> QED
      BY <3>1, <3>2 DEF Floor
  <2>5. m.from \in Nodes /\ m.height \in Nat /\ Rank(m) \in Nat
    BY RankType DEF Message
  <2>6. m.kind = "vote" =>
          /\ 1 \in Votes(n) /\ Rank(m) < Floor(m.from, n)
          /\ \A i \in Votes(n)' : R[i].from = m.from => Rank(m) < Rank(R[i])
    <3> SUFFICES ASSUME m.kind = "vote"
                 PROVE  /\ 1 \in Votes(n) /\ Rank(m) < Floor(m.from, n)
                        /\ \A i \in Votes(n)' : R[i].from = m.from => Rank(m) < Rank(R[i])
      OBVIOUS
    <3>1. 1 \in Votes(n) /\ inbox[n][1] = m
      BY <1>1 DEF Votes
    <3>2. Rank(m) < Floor(m.from, n)
      BY <2>1, <2>5, <3>1 DEF InOrder
    <3>3. ASSUME NEW i \in Votes(n)', R[i].from = m.from PROVE Rank(m) < Rank(R[i])
      <4>1. i + 1 \in Votes(n) /\ 1 < i + 1 /\ R[i] = inbox[n][i + 1]
        BY <2>3
      <4> QED
        BY <2>1, <3>1, <3>3, <4>1 DEF InOrder
    <3> QED
      BY <3>1, <3>2, <3>3
  <2>7. ASSUME NEW v \in Nodes, NEW r \in Nat, Past(n, v, r)'
        PROVE  Past(n, v, r) \/ (m.kind = "vote" /\ v = m.from /\ r = Rank(m))
    <3>1. CASE \E s \in seen'[n] : s.from = v /\ r = Rank(s)
      BY <1>4, <3>1 DEF Past
    <3>2. CASE \E d \in ToSet(caught'[n]) : d[1] = v /\ r = 2 * d[2] + 1
      <4>1. CASE caught'[n] = caught[n]
        BY <3>2, <4>1 DEF Past
      <4>2. CASE Equivocation(n, m) /\ caught'[n] = Append(caught[n], <<m.from, m.height>>)
        <5>1. /\ Rank(m) = 2 * m.height + 1 /\ m.kind = "vote"
          <6>1. Equivocation(n, Head(inbox[n])) /\ inbox[n] # <<>> /\ m = Head(inbox[n])
            BY <1>1, <4>2 DEF Receive
          <6>2. Rank(m) = 2 * m.height + 1
            BY <2>1, <6>1, ConflictIsDoubleVote
          <6> QED
            BY <4>2, <6>2 DEF Equivocation
        <5>2. <<m.from, m.height>> \in DoubleVote /\ caught[n] \in Seq(DoubleVote)
          BY <2>5 DEF DoubleVote, TypeOK
        <5>3. ToSet(caught'[n]) = ToSet(caught[n]) \cup {<<m.from, m.height>>}
          <6>1. PICK c, e : c = caught[n] /\ e = <<m.from, m.height>>
            OBVIOUS
          <6>2. c \in Seq(DoubleVote) /\ e \in DoubleVote
            BY <5>2, <6>1
          <6> HIDE DEF ToSet
          <6>3. ToSet(Append(c, e)) = ToSet(c) \cup {e}
            BY <6>2, ToSetAppend
          <6> QED
            BY <4>2, <6>1, <6>3
        <5>4. PICK d \in ToSet(caught'[n]) : d[1] = v /\ r = 2 * d[2] + 1
          BY <3>2
        <5>5. CASE d \in ToSet(caught[n])
          BY <5>4, <5>5 DEF Past
        <5>6. CASE d = <<m.from, m.height>>
          BY <5>1, <5>4, <5>6
        <5> QED
          BY <5>3, <5>5, <5>6
      <4> QED
        BY <1>4, <4>1, <4>2
    <3> QED
      BY <2>7, <3>1, <3>2 DEF Past
  <2> HIDE DEF R
  <2>8. ASSUME NEW i \in Votes(n)', NEW v \in Nodes
        PROVE  /\ R[i].from = v => Rank(R[i]) < Floor(v, n)'
               /\ R[i].block = Junk => <<R[i].from, R[i].height>> \in junked'
    <3>1. /\ R[i].from = v => Rank(R[i]) < Floor(v, n)
          /\ R[i].block = Junk => <<R[i].from, R[i].height>> \in junked
      BY <2>1, <2>3 DEF InOrder
    <3> QED
      BY <1>2, <1>3, <2>3, <2>4, <3>1
  <2>9. ASSUME NEW i \in Votes(n)', NEW j \in Votes(n)', i < j, R[i].from = R[j].from
        PROVE  Rank(R[i]) < Rank(R[j])
    <3>1. /\ i + 1 \in Votes(n) /\ j + 1 \in Votes(n) /\ i + 1 < j + 1
          /\ R[i] = inbox[n][i + 1] /\ R[j] = inbox[n][j + 1]
      BY <2>3, <2>9
    <3> QED
      BY <2>1, <2>9, <3>1 DEF InOrder
  <2>10. ASSUME NEW v \in Nodes, NEW r \in Nat, Past(n, v, r)'
         PROVE  /\ r < Floor(v, n)'
                /\ \A i \in Votes(n)' : R[i].from = v => r < Rank(R[i])
    <3>1. /\ r < Floor(v, n)
          /\ \A i \in Votes(n)' : R[i].from = v => r < Rank(R[i])
      <4>1. CASE Past(n, v, r)
        <5>1. /\ r < Floor(v, n)
              /\ \A i \in Votes(n) : inbox[n][i].from = v => r < Rank(inbox[n][i])
          BY <2>1, <4>1 DEF InOrder
        <5> QED
          BY <2>3, <5>1
      <4>2. CASE m.kind = "vote" /\ v = m.from /\ r = Rank(m)
        BY <2>6, <4>2
      <4> QED
        BY <2>7, <2>10, <4>1, <4>2
    <3> QED
      BY <1>3, <2>4, <3>1
  <2> HIDE DEF Rank, Floor, Past, Votes
  <2> QED
    BY <2>8, <2>9, <2>10 DEF InOrder, R
<1> QED
  BY <1>5, <1>6 DEF Order

\* What a node does with a message it waited for.
LEMMA TakeRounds ==
    ASSUME TypeOK, Rounds, NEW n \in Nodes, NEW m \in Timely, Wants(n, m), Take(n, m),
           chain' = chain, inbox' \in [Nodes -> Seq(Timely)],
           pending' \in [Nodes -> Seq(Timely)]
    PROVE  Rounds'
<1>1. pc \in [Nodes -> PC] /\ cand \in [Nodes -> Block]
  BY DEF TypeOK
<1>2. ASSUME NEW v \in Nodes, pc'[v] \in Voting PROVE Len(cand'[v]) = Height(v)
  <2>1. pc[v] \in Voting => Len(cand[v]) = Height(v)
    BY DEF Rounds
  <2>2. CASE /\ pc[n] = "candidate" /\ cand' = [cand EXCEPT ![n] = m.block]
             /\ pc' = [pc EXCEPT ![n] = "vote"]
    <3>1. Len(m.block) = Height(n)
      BY <2>2 DEF Wants, Timely
    <3> QED
      BY <1>1, <1>2, <2>1, <2>2, <3>1
  <2>3. CASE pc' = [pc EXCEPT ![n] = "halted"] /\ cand' = cand
    BY <1>1, <1>2, <2>1, <2>3 DEF Voting
  <2>4. CASE pc' = pc /\ cand' = cand
    BY <1>2, <2>1, <2>4
  <2> QED
    BY <2>2, <2>3, <2>4 DEF Take
<1>3. \A v \in Nodes : Height(v)' = Height(v)
  BY DEF Height
<1> QED
  BY <1>2, <1>3 DEF Rounds

LEMMA RoundsStep == TypeOK /\ Rounds /\ [Next]_vars => Rounds'
<1> SUFFICES ASSUME TypeOK, Rounds, [Next]_vars PROVE Rounds'
  OBVIOUS
<1>1. /\ pc \in [Nodes -> PC] /\ cand \in [Nodes -> Block] /\ chain \in [Nodes -> Block]
      /\ inbox \in [Nodes -> Seq(Timely)] /\ pending \in [Nodes -> Seq(Timely)]
  BY DEF TypeOK, Rounds
<1>2. ASSUME UNCHANGED <<chain, cand, inbox, pending>>,
             \A v \in Nodes : pc'[v] \in Voting => pc[v] \in Voting
      PROVE  Rounds'
  BY <1>2 DEF Rounds, Height
<1>3. ASSUME NEW n \in Nodes, StartHeight(n) PROVE Rounds'
  <2>1. \A v \in Nodes : pc'[v] \in Voting => pc[v] \in Voting
    BY <1>1, <1>3 DEF StartHeight, Voting
  <2> QED
    BY <1>2, <1>3, <2>1 DEF StartHeight, netVars
<1>4. ASSUME NEW n \in Nodes, NoProposer(n) \/ Stop(n) PROVE Rounds'
  <2>1. \A v \in Nodes : pc'[v] \in Voting => pc[v] \in Voting
    BY <1>1, <1>4 DEF NoProposer, Stop, Voting
  <2> QED
    BY <1>2, <1>4, <2>1 DEF NoProposer, Stop, netVars, roundVars
<1>5. ASSUME NEW n \in Nodes, AfterVote(n) PROVE Rounds'
  <2>1. \A v \in Nodes : pc'[v] \in Voting => pc[v] \in Voting
    BY <1>1, <1>5 DEF AfterVote, Voting
  <2> QED
    BY <1>2, <1>5, <2>1 DEF AfterVote, netVars, roundVars
<1>6. ASSUME NEW n \in Nodes, Send(n) PROVE Rounds'
  <2>1. PICK k \in Nodes, m \in Message :
          k = to[n] /\ m = Outgoing(n) /\ inbox[k] \in Seq(Timely)
    BY <1>1, <1>6, OutgoingType DEF TypeOK, Send
  <2>2. m \in Timely
    <3>1. m.kind = "vote" \/ (m.kind = "proposal" /\ m.height = Len(m.block))
      BY <1>6, <2>1 DEF Send, Broadcasting, Outgoing, Proposal, Vote
    <3> QED
      BY <2>1, <3>1 DEF Timely
  <2>3. inbox' \in [Nodes -> Seq(Timely)]
    <3>1. Append(inbox[k], m) \in Seq(Timely)
      BY <2>1, <2>2
    <3>2. inbox' = [inbox EXCEPT ![k] = Append(inbox[k], m)]
      BY <1>6, <2>1 DEF Send
    <3> QED
      BY <1>1, <3>1, <3>2
  <2>4. \A v \in Nodes : pc'[v] \in Voting => pc[v] \in Voting
    <3>1. pc[n] \in Broadcasting /\ (pc' = pc \/ pc' = [pc EXCEPT ![n] = AfterBroadcast(n)])
      BY <1>6 DEF Send
    <3> QED
      BY <1>1, <3>1 DEF Broadcasting, AfterBroadcast, Voting
  <2>5. UNCHANGED <<chain, cand, pending>>
    BY <1>6 DEF Send
  <2> QED
    BY <2>3, <2>4, <2>5 DEF Rounds, Height
<1>7. ASSUME NEW n \in Nodes, TakeStashed(n) PROVE Rounds'
  <2>1. PICK i \in Fitting(n) : /\ pending' = [pending EXCEPT ![n] = RemoveAt(@, i)]
                                /\ Take(n, pending[n][i])
    BY <1>7 DEF TakeStashed
  <2>2. i \in DOMAIN pending[n] /\ Wants(n, pending[n][i])
    BY DEF Fitting
  <2>3. RemoveAt(pending[n], i) \in Seq(Timely) /\ pending[n][i] \in Timely
    BY <1>1, <2>2, RemoveAtSeq
  <2>4. pending' \in [Nodes -> Seq(Timely)] /\ inbox' = inbox /\ chain' = chain
    BY <1>1, <1>7, <2>1, <2>3 DEF TakeStashed
  <2> QED
    BY <1>1, <2>1, <2>2, <2>3, <2>4, TakeRounds
<1>8. ASSUME NEW n \in Nodes, Receive(n) PROVE Rounds'
  <2>1. PICK m \in Timely : m = Head(inbox[n]) /\ Tail(inbox[n]) \in Seq(Timely)
    BY <1>1, <1>8, HeadTailSeq DEF Receive
  <2>2. /\ inbox' = [inbox EXCEPT ![n] = Tail(@)] /\ chain' = chain
        /\ \/ Wants(n, m) /\ Take(n, m) /\ pending' = pending
           \/ /\ pending' = [pending EXCEPT ![n] = Append(@, m)]
              /\ UNCHANGED <<pc, cand>>
    BY <1>8, <2>1 DEF Receive
  <2>3. inbox' \in [Nodes -> Seq(Timely)]
    BY <1>1, <2>1, <2>2
  <2>4. CASE Wants(n, m) /\ Take(n, m) /\ pending' = pending
    BY <1>1, <2>2, <2>3, <2>4, TakeRounds
  <2>5. CASE pending' = [pending EXCEPT ![n] = Append(@, m)] /\ UNCHANGED <<pc, cand>>
    <3>1. Append(pending[n], m) \in Seq(Timely)
      BY <1>1
    <3>2. pending' \in [Nodes -> Seq(Timely)]
      BY <1>1, <2>5, <3>1
    <3> QED
      BY <2>2, <2>3, <2>5, <3>2 DEF Rounds, Height
  <2> QED
    BY <2>2, <2>4, <2>5
<1>9. ASSUME NEW n \in Nodes, Commit(n) PROVE Rounds'
  <2>1. /\ inbox' = inbox /\ pending' \in [Nodes -> Seq(Timely)]
    <3>1. Undecided(pending[n], Height(n)) \in Seq(Timely)
      BY <1>1, UndecidedSeq
    <3> QED
      BY <1>1, <1>9, <3>1 DEF Commit
  <2>2. \A v \in Nodes : pc'[v] \in Voting =>
            v # n /\ pc[v] \in Voting /\ cand'[v] = cand[v] /\ chain'[v] = chain[v]
    BY <1>1, <1>9 DEF Commit, Voting
  <2> QED
    BY <1>1, <2>1, <2>2 DEF Rounds, Height
<1>10. ASSUME NEW n \in Nodes, MakeFaulty(n) PROVE Rounds'
  BY <1>2, <1>10 DEF MakeFaulty, netVars, roundVars
<1>11. Cancel \/ UNCHANGED vars => Rounds'
  BY <1>2 DEF Cancel, vars, netVars, roundVars
<1> QED
  BY <1>3, <1>4, <1>5, <1>6, <1>7, <1>8, <1>9, <1>10, <1>11 DEF Next, Step, Returned

\* Nobody goes back, so what is in order stays in order.
LEMMA OrderStep == TypeOK /\ Rounds /\ Order /\ [Next]_vars => Order'
<1> SUFFICES ASSUME TypeOK, Rounds, Order, [Next]_vars PROVE Order'
  OBVIOUS
<1>1. TypeOK'
  BY TypeStep
<1>2. pc \in [Nodes -> PC]
  BY DEF TypeOK
<1>3. ASSUME inbox' = inbox, caught' = caught, junked' = junked,
             \A n \in Nodes : seen'[n] \subseteq seen[n],
             \A v, n \in Nodes : Floor(v, n) <= Floor(v, n)'
      PROVE  Order'
  <2> SUFFICES ASSUME NEW n \in Nodes PROVE InOrder(n)'
    BY DEF Order
  <2>1. InOrder(n)
    BY DEF Order
  <2> QED
    BY <1>1, <1>3, <2>1, InOrderKept
<1>4. ASSUME UNCHANGED <<inbox, caught, junked, seen, chain, to>>,
             \A v \in Nodes :
                \/ pc'[v] = pc[v] \/ pc'[v] \in Ended
                \/ pc[v] = "height" /\ pc'[v] \in {"propose", "candidate"}
                \/ pc[v] = "voted" /\ pc'[v] \in {"equivocate", "tally"}
                \/ pc[v] = "candidate" /\ pc'[v] = "vote"
      PROVE  Order'
  <2>1. \A v, n \in Nodes : Floor(v, n) <= Floor(v, n)'
    BY <1>4, FloorForward
  <2> QED
    BY <1>3, <1>4, <2>1
<1>5. ASSUME NEW n \in Nodes, StartHeight(n) PROVE Order'
  <2>1. \A v \in Nodes : pc'[v] = pc[v] \/ (pc[v] = "height" /\ pc'[v] \in {"propose", "candidate"})
    BY <1>2, <1>5 DEF StartHeight
  <2> QED
    BY <1>4, <1>5, <2>1 DEF StartHeight, netVars, history
<1>6. ASSUME NEW n \in Nodes, NoProposer(n) \/ Stop(n) PROVE Order'
  <2>1. \A v \in Nodes : pc'[v] = pc[v] \/ pc'[v] \in Ended
    BY <1>2, <1>6 DEF NoProposer, Stop, Ended
  <2> QED
    BY <1>4, <1>6, <2>1 DEF NoProposer, Stop, netVars, faultVars, history
<1>7. ASSUME NEW n \in Nodes, AfterVote(n) PROVE Order'
  <2>1. \A v \in Nodes : pc'[v] = pc[v] \/ (pc[v] = "voted" /\ pc'[v] \in {"equivocate", "tally"})
    BY <1>2, <1>7 DEF AfterVote
  <2> QED
    BY <1>4, <1>7, <2>1 DEF AfterVote, netVars, faultVars, history
<1>8. ASSUME NEW n \in Nodes, Send(n) PROVE Order'
  BY <1>1, <1>8, SendOrder
<1>9. ASSUME NEW n \in Nodes, TakeStashed(n) PROVE Order'
  <2>1. \E i \in Fitting(n) : Take(n, pending[n][i])
    BY <1>9 DEF TakeStashed
  <2>2. \/ pc' = pc
        \/ pc[n] = "candidate" /\ pc' = [pc EXCEPT ![n] = "vote"]
        \/ pc' = [pc EXCEPT ![n] = "halted"]
    BY <2>1 DEF Take
  <2>3. \A v \in Nodes : \/ pc'[v] = pc[v] \/ pc'[v] \in Ended
                         \/ pc[v] = "candidate" /\ pc'[v] = "vote"
    BY <1>2, <2>2 DEF Ended
  <2> QED
    BY <1>4, <1>9, <2>3 DEF TakeStashed, faultVars, history
<1>10. ASSUME NEW n \in Nodes, Receive(n) PROVE Order'
  BY <1>1, <1>10, ReceiveOrder
<1>11. ASSUME NEW n \in Nodes, Commit(n) PROVE Order'
  <2>1. /\ pc[n] = "tally" /\ Len(cand[n]) = Height(n)
        /\ chain' = [chain EXCEPT ![n] = cand[n]] /\ to' = to
        /\ pc' = [pc EXCEPT ![n] = IF Height(n) < MaxHeight THEN "height" ELSE "done"]
    BY <1>11 DEF Commit, Rounds, Voting
  <2>2. ASSUME NEW v \in Nodes, NEW k \in Nodes PROVE Floor(v, k) <= Floor(v, k)'
    <3>1. Height(v) \in Nat /\ Phase(v, k) \in 0..2 /\ Phase(v, k)' \in 0..2
      <4>1. Phase(v, k)' \in 0..2
        BY DEF Phase
      <4> QED
        BY <4>1, FloorType
    <3>2. CASE v = n
      <4>1. Height(v)' = Height(v) + 1
        BY <2>1, <3>2 DEF TypeOK, Height
      <4> QED
        BY <3>1, <4>1 DEF Floor
    <3>3. CASE v # n
      <4>1. chain'[v] = chain[v] /\ pc'[v] = pc[v] /\ to' = to
        BY <2>1, <3>3 DEF TypeOK
      <4>2. Height(v)' = Height(v) /\ Phase(v, k)' = Phase(v, k)
        BY <4>1 DEF Height, Phase
      <4> QED
        BY <3>1, <4>2 DEF Floor
    <3> QED
      BY <3>2, <3>3
  <2>3. \A v \in Nodes : seen'[v] \subseteq seen[v]
    BY <1>11 DEF Commit, TypeOK
  <2> QED
    BY <1>3, <1>11, <2>2, <2>3 DEF Commit, history
<1>12. ASSUME NEW n \in Nodes, MakeFaulty(n) PROVE Order'
  BY <1>4, <1>12 DEF MakeFaulty, netVars, faultVars, history
<1>13. Cancel \/ UNCHANGED vars => Order'
  BY <1>4 DEF Cancel, vars, netVars, faultVars, history
<1> QED
  BY <1>5, <1>6, <1>7, <1>8, <1>9, <1>10, <1>11, <1>12, <1>13 DEF Next, Step, Returned

\* Nothing is held against a validator but a double vote just caught, or caught
\* before and not healed.
LEMMA FalseSlashStep ==
    TypeOK /\ SlashLifecycle /\ Order /\ NoFalseSlash /\ [Next]_vars => NoFalseSlash'
<1> SUFFICES ASSUME TypeOK, SlashLifecycle, Order, NoFalseSlash, [Next]_vars
             PROVE  NoFalseSlash'
  OBVIOUS
<1>1. /\ slashed \in [Nodes -> SUBSET Nodes] /\ caught \in [Nodes -> Seq(DoubleVote)]
      /\ excluded \in [Nodes -> [Nodes -> BOOLEAN]]
      /\ flagged \subseteq Nodes /\ zeroed \subseteq Nodes
  BY DEF TypeOK
<1>2. ASSUME NEW n \in Nodes, StartHeight(n) PROVE NoFalseSlash'
  <2>1. Due(n) \subseteq CaughtBy(n)
    <3>1. Due(n) \subseteq slashed[n]
      BY DEF Due, SlashLifecycle
    <3> QED
      BY <3>1 DEF NoFalseSlash
  <2>2. /\ slashed'[n] \subseteq slashed[n] /\ flagged' \subseteq flagged
        /\ zeroed' \subseteq zeroed \cup Due(n)
        /\ \A v \in Nodes : excluded'[n][v] => excluded[n][v] \/ v \in Due(n)
        /\ \A k \in Nodes \ {n} : slashed'[k] = slashed[k] /\ excluded'[k] = excluded[k]
        /\ caught' = caught /\ junked' = junked
    BY <1>1, <1>2 DEF StartHeight, Unflagged, AfterHeals, AfterSlashes, history
  <2>3. \A k \in Nodes : CaughtBy(k)' = CaughtBy(k)
    BY <2>2 DEF CaughtBy
  <2>4. ASSUME NEW k \in Nodes
        PROVE  /\ ToSet(caught'[k]) \subseteq junked' /\ IsInjective(caught'[k])
               /\ slashed'[k] \subseteq CaughtBy(k)
               /\ \A v \in Nodes : excluded'[k][v] => v \in CaughtBy(k)
    <3>1. /\ ToSet(caught[k]) \subseteq junked /\ IsInjective(caught[k])
          /\ slashed[k] \subseteq CaughtBy(k)
          /\ \A v \in Nodes : excluded[k][v] => v \in CaughtBy(k)
      BY DEF NoFalseSlash
    <3>2. slashed'[k] \subseteq slashed[k]
      BY <2>2
    <3>3. \A v \in Nodes : excluded'[k][v] => v \in CaughtBy(k)
      BY <2>1, <2>2, <3>1
    <3> QED
      BY <2>2, <3>1, <3>2, <3>3
  <2>5. flagged' \cup zeroed' \subseteq UNION {CaughtBy(k) : k \in Nodes}
    BY <2>1, <2>2 DEF NoFalseSlash
  <2> HIDE DEF CaughtBy
  <2> QED
    BY <2>3, <2>4, <2>5 DEF NoFalseSlash
<1>3. ASSUME NEW n \in Nodes, Receive(n) PROVE NoFalseSlash'
  <2>1. PICK m \in Message : m = Head(inbox[n]) /\ inbox[n] # <<>>
    BY <1>3, HeadTailSeq DEF Receive, TypeOK
  <2>2. Observe(n, m) /\ UNCHANGED <<excluded, zeroed, junked>>
    BY <1>3, <2>1 DEF Receive, viewVars
  <2>3. CASE ~Equivocation(n, m)
    BY <2>2, <2>3 DEF Observe, NoFalseSlash, CaughtBy
  <2>4. CASE Equivocation(n, m)
    <3>1. PICK c \in Seq(DoubleVote), e \in DoubleVote :
            c = caught[n] /\ e = <<m.from, m.height>> /\ e[1] = m.from
      <4>1. m.from \in Nodes /\ m.height \in Nat
        BY DEF Message
      <4>2. PICK e : e = <<m.from, m.height>>
        OBVIOUS
      <4>3. e \in DoubleVote /\ e[1] = m.from
        BY <4>1, <4>2 DEF DoubleVote
      <4> QED
        BY <1>1, <4>2, <4>3
    <3>2. InOrder(n)
      BY DEF Order
    <3>3. e \in junked /\ e \notin ToSet(c)
      BY <2>1, <2>4, <3>1, <3>2, ConflictIsDoubleVote
    <3>4. /\ caught' = [caught EXCEPT ![n] = Append(c, e)]
          /\ slashed' = [slashed EXCEPT ![n] = @ \cup {m.from}]
          /\ flagged' = flagged \cup {m.from}
      BY <2>2, <2>4, <3>1 DEF Observe
    <3>5. /\ ToSet(Append(c, e)) = ToSet(c) \cup {e}
          /\ IsInjective(c) => IsInjective(Append(c, e))
      BY <3>3, ToSetAppend
    <3>6. /\ CaughtBy(n)' = CaughtBy(n) \cup {m.from}
          /\ \A k \in Nodes \ {n} : CaughtBy(k)' = CaughtBy(k)
      <4>1. caught'[n] = Append(c, e) /\ \A k \in Nodes \ {n} : caught'[k] = caught[k]
        BY <1>1, <3>4
      <4>2. ToSet(caught'[n]) = ToSet(caught[n]) \cup {e}
        BY <3>1, <3>5, <4>1
      <4>3. CaughtBy(n)' = {d[1] : d \in ToSet(caught'[n])}
        BY DEF CaughtBy
      <4>4. CaughtBy(n)' = CaughtBy(n) \cup {m.from}
        <5> HIDE DEF ToSet
        <5>1. CaughtBy(n) = {d[1] : d \in ToSet(caught[n])}
          BY DEF CaughtBy
        <5> QED
          BY <3>1, <4>2, <4>3, <5>1
      <4> QED
        BY <4>1, <4>4 DEF CaughtBy
    <3>7. ASSUME NEW k \in Nodes
          PROVE  /\ ToSet(caught'[k]) \subseteq junked' /\ IsInjective(caught'[k])
                 /\ slashed'[k] \subseteq CaughtBy(k)'
                 /\ \A v \in Nodes : excluded'[k][v] => v \in CaughtBy(k)'
      <4>1. /\ ToSet(caught[k]) \subseteq junked /\ IsInjective(caught[k])
            /\ slashed[k] \subseteq CaughtBy(k)
            /\ \A v \in Nodes : excluded[k][v] => v \in CaughtBy(k)
        BY DEF NoFalseSlash
      <4> HIDE DEF CaughtBy
      <4>2. CASE k = n
        BY <1>1, <2>2, <3>1, <3>3, <3>4, <3>5, <3>6, <4>1, <4>2
      <4>3. CASE k # n
        BY <1>1, <2>2, <3>4, <3>6, <4>1, <4>3
      <4> QED
        BY <4>2, <4>3
    <3>8. ASSUME NEW v \in flagged' \cup zeroed'
          PROVE  \E k \in Nodes : v \in CaughtBy(k)'
      <4> HIDE DEF CaughtBy
      <4>1. CASE v = m.from
        BY <3>6, <4>1
      <4>2. CASE v # m.from
        <5>1. PICK k \in Nodes : v \in CaughtBy(k)
          BY <2>2, <3>4, <3>8, <4>2 DEF NoFalseSlash
        <5> QED
          BY <3>6, <5>1
      <4> QED
        BY <4>1, <4>2
    <3> HIDE DEF CaughtBy
    <3> QED
      BY <3>7, <3>8 DEF NoFalseSlash
  <2> QED
    BY <2>3, <2>4
<1>4. ASSUME UNCHANGED <<slashed, flagged, zeroed, excluded, caught>>, junked \subseteq junked'
      PROVE  NoFalseSlash'
  BY <1>4 DEF NoFalseSlash, CaughtBy
<1>5. ASSUME NEW n \in Nodes,
             \/ NoProposer(n) \/ Send(n) \/ AfterVote(n) \/ TakeStashed(n)
             \/ Commit(n) \/ Stop(n) \/ MakeFaulty(n)
      PROVE  /\ UNCHANGED <<slashed, flagged, zeroed, excluded, caught>>
             /\ junked \subseteq junked'
  BY <1>5 DEF NoProposer, Send, AfterVote, TakeStashed, Commit, Stop, MakeFaulty,
              faultVars, viewVars, history
<1>6. Cancel \/ UNCHANGED vars =>
        UNCHANGED <<slashed, flagged, zeroed, excluded, caught>> /\ junked \subseteq junked'
  BY DEF Cancel, vars, faultVars, viewVars, history
<1> QED
  BY <1>2, <1>3, <1>4, <1>5, <1>6 DEF Next, Step, Returned

\* Whoever is detected, excluded or shown as slashed has sent a second vote at
\* that height, and no double vote is held against its sender twice by one node,
\* healed or not, however late the votes arrive and whoever is faulty.
THEOREM NoFalseSlashHolds == Spec => []NoFalseSlash
<1>1. Init => Rounds /\ Order /\ NoFalseSlash
  <2> SUFFICES ASSUME Init PROVE Rounds /\ Order /\ NoFalseSlash
    OBVIOUS
  <2>1. Rounds
    <3>1. <<>> \in Seq(Timely)
      OBVIOUS
    <3> QED
      BY <3>1 DEF Init, Rounds, Voting
  <2>2. \A n \in Nodes : /\ Votes(n) = {} /\ ToSet(caught[n]) = {} /\ seen[n] = {}
                         /\ IsInjective(caught[n])
    BY DEF Init, Votes, ToSet, IsInjective
  <2>3. Order
    BY <2>2 DEF Order, InOrder, Past
  <2>4. NoFalseSlash
    BY <2>2 DEF Init, NoFalseSlash
  <2> QED
    BY <2>1, <2>3, <2>4
<1>2. TypeOK /\ Rounds /\ [Next]_vars => Rounds'
  BY RoundsStep
<1>3. TypeOK /\ Rounds /\ Order /\ [Next]_vars => Order'
  BY OrderStep
<1>4. TypeOK /\ SlashLifecycle /\ Order /\ NoFalseSlash /\ [Next]_vars => NoFalseSlash'
  BY FalseSlashStep
<1> QED
  BY <1>1, <1>2, <1>3, <1>4, TypeCorrect, SlashLifecycleHolds, PTL DEF Spec

-----------------------------------------------------------------------------
(***************************************************************************)
(* The cluster's log.  What it records is one growing block: the newest    *)
(* recorded block extends the one before by one header, every node's chain *)
(* is below it, and at least one node has it all.                          *)
(***************************************************************************)

Tails == [i \in DOMAIN recorded |-> Last(recorded[i])]

LogInv ==
    /\ \A i \in DOMAIN recorded : recorded[i] # NoBlock
    /\ ServerLog = LiveChain
    /\ \A n \in Nodes : IsPrefix(chain[n], LiveChain)
    /\ \E n \in Nodes : chain[n] = LiveChain

LEMMA BlockIsAppend ==
    ASSUME NEW b \in Block, b # NoBlock
    PROVE  Last(b) \in Header /\ b = Append(Front(b), Last(b))
<1>1. /\ Len(b) \in Nat \ {0} /\ Front(b) \in Block /\ Last(b) \in Header
      /\ Len(Front(b)) = Len(b) - 1
      /\ \A i \in 1..(Len(b) - 1) : Front(b)[i] = b[i]
  BY FrontOf DEF Block, NoBlock
<1>2. Last(b) = b[Len(b)]
  BY DEF Last
<1> DEFINE c == Append(Front(b), Last(b))
<1>3. /\ c \in Block /\ Len(c) = Len(b)
      /\ \A i \in 1..Len(b) : c[i] = b[i]
  BY <1>1, <1>2 DEF Block
<1> HIDE DEF c
<1>4. b = c
  BY <1>3, BlockEqual
<1> QED
  BY <1>1, <1>4 DEF c

LEMMA TailsType ==
    ASSUME NEW r \in Seq(Block), \A i \in DOMAIN r : r[i] # NoBlock
    PROVE  [i \in DOMAIN r |-> Last(r[i])] \in Seq(Header)
<1>1. Len(r) \in Nat /\ DOMAIN r = 1..Len(r)
  OBVIOUS
<1>2. \A i \in 1..Len(r) : Last(r[i]) \in Header
  BY <1>1, BlockIsAppend
<1>3. [i \in DOMAIN r |-> Last(r[i])] \in [1..Len(r) -> Header]
  BY <1>1, <1>2
<1> QED
  BY <1>1, <1>3

LEMMA LiveChainType ==
    ASSUME TypeOK
    PROVE  LiveChain \in Block
<1>1. CASE recorded = <<>>
  BY <1>1, ReplayedAssumption DEF LiveChain
<1>2. CASE recorded # <<>>
  BY <1>2, FrontOf DEF LiveChain, TypeOK
<1> QED
  BY <1>1, <1>2

\* A block is recorded: the log grows by its header.
LEMMA LogAppends ==
    ASSUME TypeOK, TypeOK', LogInv, NEW b \in Block, b # NoBlock,
           recorded' = Append(recorded, b)
    PROVE  /\ LiveChain' = b
           /\ ServerLog' = Append(ServerLog, Last(b))
           /\ \A i \in DOMAIN recorded' : recorded'[i] # NoBlock
<1>1. recorded \in Seq(Block) /\ Len(recorded) \in Nat
      /\ DOMAIN recorded = 1..Len(recorded)
  BY DEF TypeOK
<1>2. /\ Len(recorded') = Len(recorded) + 1
      /\ DOMAIN recorded' = 1..(Len(recorded) + 1)
      /\ \A i \in 1..Len(recorded) : recorded'[i] = recorded[i]
      /\ recorded'[Len(recorded) + 1] = b
      /\ recorded' # <<>>
  BY <1>1
<1>3. LiveChain' = b
  <2>1. Last(recorded') = b
    BY <1>1, <1>2, Zenon DEF Last
  <2> QED
    BY <1>2, <2>1, Zenon DEF LiveChain
<1>4. \A i \in DOMAIN recorded' : recorded'[i] # NoBlock
  BY <1>1, <1>2 DEF LogInv
<1>5. Tails \in Seq(Header) /\ Tails' \in Seq(Header) /\ Last(b) \in Header
  <2>1. recorded' \in Seq(Block)
    BY DEF TypeOK
  <2>2. Tails \in Seq(Header)
    BY <1>1, TailsType DEF LogInv, Tails
  <2>3. Tails' \in Seq(Header)
    BY <1>4, <2>1, TailsType DEF Tails
  <2> QED
    BY <2>2, <2>3, BlockIsAppend
<1>6. Tails' = Append(Tails, Last(b))
  <2> DEFINE t == Tails
             u == Tails'
             a == Append(t, Last(b))
  <2>1. /\ Len(t) = Len(recorded) /\ Len(u) = Len(recorded) + 1
        /\ \A i \in 1..Len(recorded) : t[i] = Last(recorded[i]) /\ u[i] = Last(recorded[i])
        /\ u[Len(recorded) + 1] = Last(b)
    BY <1>1, <1>2 DEF Tails
  <2> HIDE DEF t, u
  <2>2. t \in Seq(Header) /\ u \in Seq(Header)
    BY <1>5 DEF t, u
  <2>3. a \in Seq(Header) /\ Len(a) = Len(u) /\ \A i \in 1..Len(u) : u[i] = a[i]
    BY <1>1, <1>5, <2>1, <2>2
  <2> HIDE DEF a
  <2>4. u = a
    BY <2>2, <2>3, SeqEqual
  <2> QED
    BY <2>4 DEF t, u, a
<1>7. Replayed \o Append(Tails, Last(b)) = Append(Replayed \o Tails, Last(b))
  <2> DEFINE t == Tails
             x == Last(b)
             r == Replayed
  <2>1. t \in Seq(Header) /\ x \in Header /\ r \in Seq(Header)
    BY <1>5, ReplayedAssumption DEF Block
  <2> HIDE DEF t, x, r
  <2>2. Append(t, x) = t \o <<x>> /\ <<x>> \in Seq(Header)
    BY <2>1, AppendIsConcat
  <2>3. r \o t \in Seq(Header)
    BY <2>1
  <2>4. Append(r \o t, x) = (r \o t) \o <<x>>
    BY <2>1, <2>3, AppendIsConcat
  <2>5. (r \o t) \o <<x>> = r \o (t \o <<x>>)
    BY <2>1, <2>2, ConcatAssociative
  <2> QED
    BY <2>2, <2>4, <2>5 DEF t, x, r
<1> QED
  BY <1>3, <1>4, <1>6, <1>7 DEF ServerLog, Tails

\* A commit is the first of its height and grows the log, or it follows it.
LEMMA CommitFollowsLog ==
    ASSUME FaultyMinority, AgreementInv, LogInv, TypeOK', NEW n \in Nodes, Commit(n)
    PROVE  LogInv' /\ (Final!Extend(n) \/ Final!Follow(n))
<1> DEFINE b == cand[n]
           t == chain[n]
           l == LiveChain
<1>1. /\ pc[n] = "tally" /\ Accepted(n)
      /\ chain' = [chain EXCEPT ![n] = b]
      /\ recorded' = IF NewHeight(n) THEN Append(recorded, b) ELSE recorded
  BY DEF Commit
<1>2. /\ TypeOK /\ chain \in [Nodes -> Block]
      /\ b \in Block /\ b # NoBlock /\ t \in Block /\ Front(b) = t
  BY <1>1, AcceptedIsCertified DEF AgreementInv, TypeOK
<1>3. Len(b) = Len(t) + 1 /\ IsPrefix(t, b)
  BY <1>2, FrontPrefix
<1>4. l \in Block /\ IsPrefix(t, l) /\ ServerLog = l
  BY <1>2, LiveChainType DEF LogInv
<1>5. Len(t) \in Nat /\ Len(l) \in Nat /\ Len(t) <= Len(l)
  BY <1>2, <1>4, BlockType, PrefixDef
<1>6. NewHeight(n) <=> Len(b) > Len(l)
  BY <1>3, <1>5 DEF NewHeight, Height
<1>7. /\ chain'[n] = b
      /\ \A m \in Nodes \ {n} : chain'[m] = chain[m]
  BY <1>1, <1>2
<1> HIDE DEF b, t, l
<1>8. CASE NewHeight(n)
  <2>1. t = l
    BY <1>2, <1>3, <1>4, <1>5, <1>6, <1>8, PrefixOrder
  <2>2. recorded' = Append(recorded, b)
    BY <1>1, <1>8
  <2>3. /\ LiveChain' = b
        /\ ServerLog' = Append(ServerLog, Last(b))
        /\ \A i \in DOMAIN recorded' : recorded'[i] # NoBlock
    BY <1>2, <2>2, LogAppends
  <2>4. Last(b) \in Header /\ b = Append(l, Last(b))
    BY <1>2, <2>1, BlockIsAppend
  <2>5. ServerLog' = LiveChain'
    BY <1>4, <2>3, <2>4
  <2>6. ASSUME NEW m \in Nodes PROVE IsPrefix(chain'[m], b)
    <3>1. CASE m = n
      BY <1>2, <1>7, <3>1, PrefixOrder
    <3>2. CASE m # n
      <4>1. IsPrefix(chain[m], l) /\ chain[m] \in Block
        BY <1>2 DEF LogInv, l
      <4>2. IsPrefix(chain[m], b)
        BY <1>2, <1>3, <1>4, <2>1, <4>1, PrefixOrder
      <4> QED
        BY <1>7, <3>2, <4>2
    <3> QED
      BY <3>1, <3>2
  <2>7. LogInv'
    BY <1>7, <2>3, <2>5, <2>6 DEF LogInv
  <2>8. Final!Extend(n)
    <3>1. chain[n] = ServerLog
      BY <1>4, <2>1 DEF t
    <3>2. \E x \in Header : ServerLog' = Append(ServerLog, x)
      BY <2>3, <2>4
    <3>3. chain' = [chain EXCEPT ![n] = ServerLog']
      BY <1>1, <2>3, <2>5
    <3> QED
      BY <3>1, <3>2, <3>3 DEF Final!Extend
  <2> QED
    BY <2>7, <2>8
<1>9. CASE ~NewHeight(n)
  <2>1. /\ recorded' = recorded /\ LiveChain' = l /\ ServerLog' = ServerLog
        /\ Len(t) < Len(l)
    BY <1>1, <1>3, <1>5, <1>6, <1>9 DEF LiveChain, ServerLog, l
  <2>2. PICK m \in Nodes : chain[m] = l
    BY DEF LogInv, l
  <2>3. IsPrefix(l, b) \/ IsPrefix(b, l)
    <3>1. IsPrefix(chain[m], cand[n]) \/ IsPrefix(cand[n], chain[m])
      BY <1>1, CommitAgrees
    <3> QED
      BY <2>2, <3>1 DEF b
  <2>4. IsPrefix(b, l)
    BY <1>2, <1>3, <1>4, <1>5, <2>1, <2>3, PrefixOrder
  <2>5. LogInv'
    <3>1. \A k \in Nodes : IsPrefix(chain'[k], l)
      BY <1>7, <2>4 DEF LogInv, l
    <3>2. \E k \in Nodes : chain'[k] = l
      BY <1>7, <2>2, <2>1 DEF t
    <3> QED
      BY <1>4, <2>1, <3>1, <3>2 DEF LogInv
  <2>6. Final!Follow(n)
    <3>1. SubSeq(l, 1, Len(b)) = b
      BY <1>2, <1>4, <2>4, PrefixIsBelow
    <3>2. chain' = [chain EXCEPT ![n] = SubSeq(ServerLog, 1, Len(@) + 1)]
      BY <1>1, <1>2, <1>3, <1>4, <3>1 DEF t
    <3> QED
      BY <1>4, <2>1, <3>2 DEF Final!Follow, t
  <2> QED
    BY <2>5, <2>6
<1> QED
  BY <1>8, <1>9

LEMMA LogInit == Init => LogInv /\ Final!Init
<1> SUFFICES ASSUME Init PROVE LogInv /\ Final!Init
  OBVIOUS
<1>1. recorded = <<>> /\ chain = [n \in Nodes |-> Replayed]
  BY DEF Init
<1>2. LiveChain = Replayed /\ Replayed \in Block
  BY <1>1, ReplayedAssumption DEF LiveChain
<1>3. ServerLog = Replayed
  <2>1. Tails = <<>>
    BY <1>1 DEF Tails
  <2>2. Replayed \o <<>> = Replayed
    BY <1>2, ConcatEmptySeq DEF Block
  <2> QED
    BY <2>1, <2>2 DEF ServerLog, Tails
<1>4. 1 \in Nodes
  BY NAssumption DEF Nodes
<1>5. IsPrefix(Replayed, Replayed)
  BY <1>2, PrefixOrder
<1>6. LogInv
  BY <1>1, <1>2, <1>3, <1>4, <1>5 DEF LogInv
<1> QED
  BY <1>1, <1>3, <1>6 DEF Final!Init

LEMMA LogStep ==
    ASSUME FaultyMinority, AgreementInv, LogInv, [Next]_vars
    PROVE  LogInv' /\ [Final!Next]_(Final!vars)
<1>1. TypeOK'
  BY TypeStep DEF AgreementInv
<1>2. ASSUME NEW n \in Nodes, Commit(n) PROVE LogInv' /\ Final!Next
  BY <1>1, <1>2, CommitFollowsLog DEF Final!Next
<1>3. ASSUME UNCHANGED <<chain, recorded>> PROVE LogInv' /\ UNCHANGED Final!vars
  BY <1>3 DEF LogInv, LiveChain, ServerLog, Final!vars
<1>4. ASSUME NEW n \in Nodes,
             \/ StartHeight(n) \/ NoProposer(n) \/ Send(n) \/ AfterVote(n)
             \/ TakeStashed(n) \/ Receive(n) \/ Stop(n) \/ MakeFaulty(n)
      PROVE  UNCHANGED <<chain, recorded>>
  BY <1>4 DEF StartHeight, NoProposer, Send, AfterVote, TakeStashed, Receive, Stop,
              MakeFaulty
<1>5. Cancel \/ UNCHANGED vars => UNCHANGED <<chain, recorded>>
  BY DEF Cancel, vars
<1> QED
  BY <1>2, <1>3, <1>4, <1>5 DEF Next, Step, Returned

\* The cluster implements FinalLog: what it records is one log that grows by one
\* block at a time, no height left out or recorded twice, and every node's chain
\* is a copy of it that only ever grows along it.  As long as the validators that
\* may be made faulty hold at most half of the weight.
THEOREM ImplementsFinalLog ==
    ASSUME FaultyMinority
    PROVE  Spec => FinalSpec
<1>1. Init => AgreementInv /\ LogInv /\ Final!Init
  BY AgreementInit, LogInit
<1>2. AgreementInv /\ LogInv /\ [Next]_vars =>
        AgreementInv' /\ LogInv' /\ [Final!Next]_(Final!vars)
  BY AgreementStep, LogStep
<1> QED
  BY <1>1, <1>2, PTL DEF Spec, FinalSpec, Final!Spec

-----------------------------------------------------------------------------
(***************************************************************************)
(* The election where nobody is faulty.  The priorities of a node are then *)
(* a function of its chain alone, one step of the accumulator per block,   *)
(* each with the delegations of the block below: nodes that reach a height *)
(* at different times elect its proposer alike.                            *)
(***************************************************************************)

Nobody == [v \in Nodes |-> FALSE]

\* The weights of the height on top of c.
HeightWeight(c) == Effective(Nobody, Bonded(c))

\* f[i] is the priorities of a node that has committed the first i blocks of c.
IsHistory(f, c) ==
    /\ f[Len(Replayed)] = [v \in Nodes |-> 0]
    /\ \A i \in (Len(Replayed) + 1)..Len(c) :
            f[i] = Advance(f[i-1], HeightWeight(SubSeq(c, 1, i-1)))

Elects == PC \ ({"height"} \cup Ended)

ElectionInv ==
    \A n \in Nodes : \E f :
        /\ IsHistory(f, chain[n])
        /\ pc[n] \in {"height", "done"} => priority[n] = f[Len(chain[n])]
        /\ pc[n] \in Elects =>
                priority[n] = Advance(f[Len(chain[n])], HeightWeight(chain[n]))

LEMMA NobodyIsMinority ==
    ASSUME Faultable = {}
    PROVE  FaultyMinority
<1>1. SUFFICES ASSUME NEW b \in Bondings \cup {[v \in Nodes |-> 0]}
               PROVE  2 * Power(Weights(b), {}) <= Total(Weights(b))
  BY DEF FaultyMinority
<1>2. b \in [Nodes -> Nat]
  BY BondingsAssumption
<1>3. Weights(b) \in [Nodes -> Nat]
  BY <1>2, StakeAssumption DEF Weights
<1> QED
  BY <1>3, PowerEmpty, PowerNat DEF Total

LEMMA PrefixSubSeq ==
    ASSUME NEW c \in Block, NEW d \in Block, IsPrefix(c, d), NEW k \in 0..Len(c)
    PROVE  SubSeq(c, 1, k) = SubSeq(d, 1, k)
<1>1. Len(c) \in Nat /\ Len(d) \in Nat /\ Len(c) <= Len(d)
  BY BlockType, PrefixDef
<1>2. CASE k = 0
  BY <1>2, SubSeqEmpty
<1>3. CASE k # 0
  <2> DEFINE x == SubSeq(c, 1, k)
             y == SubSeq(d, 1, k)
  <2>1. k \in 1..Len(c) /\ k \in 1..Len(d)
    BY <1>1, <1>3
  <2>2. /\ x \in Block /\ Len(x) = k /\ IsPrefix(x, c)
        /\ y \in Block /\ Len(y) = k /\ IsPrefix(y, d)
    BY <2>1, Below
  <2> HIDE DEF x, y
  <2>3. IsPrefix(x, d)
    BY <2>2, PrefixOrder
  <2>4. x = y
    BY <2>2, <2>3, OneBelow
  <2> QED
    BY <2>4 DEF x, y
<1> QED
  BY <1>2, <1>3

\* A chain has one history of priorities.
LEMMA OneHistory ==
    ASSUME NEW c \in Block, Len(Replayed) <= Len(c),
           NEW f, NEW g, IsHistory(f, c), IsHistory(g, c)
    PROVE  f[Len(c)] = g[Len(c)]
<1> DEFINE L == Len(Replayed)
           M == Len(c)
           T == {i \in L..M : f[i] # g[i]}
<1>1. L \in Nat /\ M \in Nat /\ L <= M
  BY BlockType, ReplayedAssumption
<1>2. /\ f[L] = g[L]
      /\ \A i \in (L+1)..M : /\ f[i] = Advance(f[i-1], HeightWeight(SubSeq(c, 1, i-1)))
                             /\ g[i] = Advance(g[i-1], HeightWeight(SubSeq(c, 1, i-1)))
  BY DEF IsHistory
<1> HIDE DEF L, M
<1>3. SUFFICES ASSUME T # {} PROVE FALSE
  <2>1. M \in L..M
    BY <1>1
  <2> QED
    BY <2>1 DEF M
<1>4. PICK i \in T : \A j \in T : i <= j
  <2>1. T \subseteq Nat
    BY <1>1
  <2> HIDE DEF T
  <2> QED
    BY <1>3, <2>1, LeastElement
<1>5. i # L
  BY <1>2, <1>4
<1>6. i \in (L+1)..M /\ i-1 \in L..M /\ ~(i <= i-1)
  BY <1>1, <1>4, <1>5
<1>7. f[i-1] = g[i-1]
  BY <1>4, <1>6
<1>8. f[i] = g[i]
  BY <1>2, <1>6, <1>7
<1> QED
  BY <1>4, <1>8

\* The history of a chain goes on to the block committed on top of it.
LEMMA HistoryExtends ==
    ASSUME NEW c \in Block, NEW d \in Block, d # NoBlock, Front(d) = c,
           Len(Replayed) <= Len(c), NEW f, IsHistory(f, c)
    PROVE  \E g : /\ IsHistory(g, d)
                  /\ g[Len(d)] = Advance(f[Len(c)], HeightWeight(c))
<1> DEFINE L == Len(Replayed)
           M == Len(c)
           g == [i \in L..(M+1) |-> IF i = M+1 THEN Advance(f[M], HeightWeight(c)) ELSE f[i]]
<1>1. L \in Nat /\ M \in Nat /\ L <= M /\ Len(d) = M + 1 /\ IsPrefix(c, d)
  BY BlockType, FrontPrefix, ReplayedAssumption
<1>2. /\ f[L] = [v \in Nodes |-> 0]
      /\ \A i \in (L+1)..M : f[i] = Advance(f[i-1], HeightWeight(SubSeq(c, 1, i-1)))
  BY DEF IsHistory
<1>3. SubSeq(c, 1, M) = c
  BY SubSeqFull DEF Block
<1>4. \A k \in 0..M : SubSeq(d, 1, k) = SubSeq(c, 1, k)
  BY <1>1, PrefixSubSeq
<1> HIDE DEF L, M
<1>5. g[L] = f[L] /\ g[M+1] = Advance(f[M], HeightWeight(c))
  BY <1>1
<1>6. ASSUME NEW i \in (L+1)..(M+1)
      PROVE  g[i] = Advance(g[i-1], HeightWeight(SubSeq(d, 1, i-1)))
  <2>1. i-1 \in 0..M /\ i-1 \in L..(M+1) /\ i-1 # M+1 /\ i \in L..(M+1)
    BY <1>1
  <2>2. g[i-1] = f[i-1] /\ SubSeq(d, 1, i-1) = SubSeq(c, 1, i-1)
    BY <1>4, <2>1
  <2>3. CASE i = M+1
    <3>1. i-1 = M
      BY <1>1, <2>3
    <3> QED
      BY <1>3, <1>5, <2>2, <2>3, <3>1
  <2>4. CASE i # M+1
    <3>1. i \in (L+1)..M
      BY <1>1, <2>4
    <3>2. g[i] = f[i]
      BY <2>1, <2>4
    <3> QED
      BY <1>2, <2>2, <3>1, <3>2
  <2> QED
    BY <2>3, <2>4
<1> HIDE DEF g
<1>7. IsHistory(g, d)
  BY <1>1, <1>2, <1>5, <1>6 DEF IsHistory, L
<1> QED
  BY <1>1, <1>5, <1>7 DEF M

\* Where nobody can be made faulty, no book holds anything.
LEMMA NobodyBlamed ==
    ASSUME Faultable = {}, TypeOK, Blame, SlashLifecycle, NEW n \in Nodes
    PROVE  /\ excluded[n] = Nobody
           /\ Due(n) = {} /\ Healing(n) = {}
<1>1. \A v \in Nodes : pendingSlash[n][v] = 0 /\ ~excluded[n][v] /\ v \notin slashed[n]
  BY DEF Blame
<1>2. \A v \in Nodes : pendingHeal[n][v] = 0
  BY <1>1 DEF SlashLifecycle
<1>3. excluded[n] = Nobody
  <2>1. excluded[n] \in [Nodes -> BOOLEAN]
    BY DEF TypeOK
  <2>2. \A v \in Nodes : excluded[n][v] = FALSE
    BY <1>1, <2>1
  <2> QED
    BY <2>1, <2>2 DEF Nobody
<1>4. ~(0 \in 1..Height(n))
  BY HeightType
<1> QED
  BY <1>1, <1>2, <1>3, <1>4 DEF Due, Healing

\* A node that starts a height takes one more step of the accumulator.
LEMMA StartHeightElects ==
    ASSUME Faultable = {}, TypeOK, Blame, SlashLifecycle, NEW n \in Nodes, StartHeight(n)
    PROVE  priority'[n] = Advance(priority[n], HeightWeight(chain[n]))
<1>1. excluded[n] = Nobody /\ Due(n) = {} /\ Healing(n) = {}
  BY NobodyBlamed
<1>2. AfterHeals(n) = Nobody
  BY <1>1 DEF AfterHeals, AfterSlashes, Nobody
<1>3. NextWeight(n) = HeightWeight(chain[n])
  BY <1>2 DEF NextWeight, Synced, HeightWeight
<1>4. HealedPriority(n) = priority[n]
  <2>1. priority[n] \in [Nodes -> Int]
    BY DEF TypeOK
  <2>2. HealedPriority(n) = [v \in Nodes |-> priority[n][v]]
    BY <1>1 DEF HealedPriority, Rejoined
  <2> QED
    BY <2>1, <2>2
<1>5. priority'[n] = Advance(HealedPriority(n), NextWeight(n))
  BY DEF StartHeight, TypeOK
<1> QED
  BY <1>3, <1>4, <1>5

LEMMA StartHeightElection ==
    ASSUME Faultable = {}, TypeOK, Blame, SlashLifecycle, ElectionInv,
           NEW n \in Nodes, StartHeight(n)
    PROVE  ElectionInv'
<1>1. priority'[n] = Advance(priority[n], HeightWeight(chain[n]))
  BY StartHeightElects
<1>2. /\ chain' = chain /\ pc[n] = "height" /\ pc'[n] \in {"propose", "candidate"}
      /\ \A m \in Nodes : m # n => pc'[m] = pc[m] /\ priority'[m] = priority[m]
  BY DEF StartHeight, TypeOK
<1>3. ASSUME NEW m \in Nodes
      PROVE  \E f : /\ IsHistory(f, chain[m])
                    /\ pc'[m] \in {"height", "done"} => priority'[m] = f[Len(chain[m])]
                    /\ pc'[m] \in Elects =>
                         priority'[m] = Advance(f[Len(chain[m])], HeightWeight(chain[m]))
  <2>1. PICK f : /\ IsHistory(f, chain[m])
                 /\ pc[m] \in {"height", "done"} => priority[m] = f[Len(chain[m])]
                 /\ pc[m] \in Elects =>
                      priority[m] = Advance(f[Len(chain[m])], HeightWeight(chain[m]))
    BY DEF ElectionInv
  <2> QED
    BY <1>1, <1>2, <2>1
<1> QED
  BY <1>2, <1>3 DEF ElectionInv

\* A commit ends a height: what it elected from is in the history of its chain.
LEMMA CommitElection ==
    ASSUME AgreementInv, ElectionInv, NEW n \in Nodes, Commit(n)
    PROVE  ElectionInv'
<1>1. /\ pc[n] = "tally" /\ Accepted(n) /\ priority' = priority
      /\ chain'[n] = cand[n] /\ pc'[n] \in {"height", "done"}
      /\ \A m \in Nodes : m # n => pc'[m] = pc[m] /\ chain'[m] = chain[m]
  BY DEF Commit, viewVars, AgreementInv, TypeOK
<1>2. /\ cand[n] # NoBlock /\ cand[n] \in Block
      /\ chain[n] \in Block /\ Front(cand[n]) = chain[n]
  BY <1>1, AcceptedIsCertified
<1>3. Len(Replayed) <= Len(chain[n])
  BY <1>2, PrefixDef, ReplayedAssumption DEF AgreementInv, Certified
<1>4. ASSUME NEW m \in Nodes
      PROVE  \E f : /\ IsHistory(f, chain'[m])
                    /\ pc'[m] \in {"height", "done"} => priority'[m] = f[Len(chain'[m])]
                    /\ pc'[m] \in Elects =>
                         priority'[m] = Advance(f[Len(chain'[m])], HeightWeight(chain'[m]))
  <2>1. PICK f : /\ IsHistory(f, chain[m])
                 /\ pc[m] \in {"height", "done"} => priority[m] = f[Len(chain[m])]
                 /\ pc[m] \in Elects =>
                      priority[m] = Advance(f[Len(chain[m])], HeightWeight(chain[m]))
    BY DEF ElectionInv
  <2>2. CASE m # n
    BY <1>1, <2>1, <2>2
  <2>3. CASE m = n
    <3>1. pc[n] \in Elects /\ pc'[n] \notin Elects
      BY <1>1 DEF Elects, PC, Ended
    <3>2. priority'[n] = Advance(f[Len(chain[n])], HeightWeight(chain[n]))
      BY <1>1, <2>1, <2>3, <3>1
    <3>3. \E g : /\ IsHistory(g, cand[n])
                 /\ g[Len(cand[n])] = Advance(f[Len(chain[n])], HeightWeight(chain[n]))
      BY <1>2, <1>3, <2>1, <2>3, HistoryExtends
    <3> QED
      BY <1>1, <2>3, <3>1, <3>2, <3>3
  <2> QED
    BY <2>2, <2>3
<1> QED
  BY <1>4 DEF ElectionInv

\* No other step touches the priorities, or takes a node from one height to
\* another.
LEMMA MovesWithinHeight ==
    ASSUME ElectionInv, UNCHANGED <<chain, priority>>,
           \A n \in Nodes : \/ pc'[n] = pc[n]
                            \/ pc[n] \in Elects /\ pc'[n] \in Elects
                            \/ pc'[n] \in {"halted", "stopped", "crashed"}
    PROVE  ElectionInv'
<1>1. ASSUME NEW m \in Nodes
      PROVE  \E f : /\ IsHistory(f, chain'[m])
                    /\ pc'[m] \in {"height", "done"} => priority'[m] = f[Len(chain'[m])]
                    /\ pc'[m] \in Elects =>
                         priority'[m] = Advance(f[Len(chain'[m])], HeightWeight(chain'[m]))
  <2>1. PICK f : /\ IsHistory(f, chain[m])
                 /\ pc[m] \in {"height", "done"} => priority[m] = f[Len(chain[m])]
                 /\ pc[m] \in Elects =>
                      priority[m] = Advance(f[Len(chain[m])], HeightWeight(chain[m]))
    BY DEF ElectionInv
  <2>2. pc'[m] \in {"halted", "stopped", "crashed"} => pc'[m] \notin Elects
    BY DEF Elects, Ended
  <2>3. pc'[m] \in Elects => pc'[m] \notin {"height", "done"}
    BY DEF Elects, Ended
  <2> QED
    BY <2>1, <2>2, <2>3
<1> QED
  BY <1>1 DEF ElectionInv

LEMMA ElectionStep ==
    ASSUME Faultable = {}, AgreementInv, SlashLifecycle, ElectionInv, [Next]_vars
    PROVE  ElectionInv'
<1>1. TypeOK /\ Blame
  BY DEF AgreementInv
<1>2. ASSUME NEW n \in Nodes, StartHeight(n) PROVE ElectionInv'
  BY <1>1, <1>2, StartHeightElection
<1>3. ASSUME NEW n \in Nodes, Commit(n) PROVE ElectionInv'
  BY <1>3, CommitElection
<1> DEFINE Within == /\ UNCHANGED <<chain, priority>>
                     /\ \A m \in Nodes : \/ pc'[m] = pc[m]
                                         \/ pc[m] \in Elects /\ pc'[m] \in Elects
                                         \/ pc'[m] \in {"halted", "stopped", "crashed"}
<1>4. ASSUME NEW n \in Nodes, NoProposer(n) \/ Stop(n) PROVE Within
  <2>1. pc \in [Nodes -> PC]
    BY <1>1 DEF TypeOK
  <2> QED
    BY <1>4, <2>1 DEF NoProposer, Stop, viewVars
<1>5. ASSUME NEW n \in Nodes, Send(n) \/ AfterVote(n) PROVE Within
  <2>1. UNCHANGED <<chain, priority>>
    BY <1>5 DEF Send, AfterVote, viewVars
  <2>2. pc \in [Nodes -> PC]
    BY <1>1 DEF TypeOK
  <2>3. CASE Send(n)
    <3>1. /\ pc[n] \in Broadcasting
          /\ pc' = pc \/ pc' = [pc EXCEPT ![n] = AfterBroadcast(n)]
      BY <2>3 DEF Send
    <3>2. pc[n] \in Elects /\ AfterBroadcast(n) \in Elects
      BY <3>1 DEF AfterBroadcast, Broadcasting, Elects, PC, Ended
    <3> QED
      BY <2>1, <2>2, <3>1, <3>2
  <2>4. CASE AfterVote(n)
    <3>1. /\ pc[n] = "voted"
          /\ pc' = [pc EXCEPT ![n] = IF byz[n] THEN "equivocate" ELSE "tally"]
      BY <2>4 DEF AfterVote
    <3>2. {"voted", "equivocate", "tally"} \subseteq Elects
      BY DEF Elects, PC, Ended
    <3> QED
      BY <2>1, <2>2, <3>1, <3>2
  <2> QED
    BY <1>5, <2>3, <2>4
<1>6. ASSUME NEW n \in Nodes, TakeStashed(n) \/ Receive(n) PROVE Within
  <2>1. UNCHANGED <<chain, priority>>
    BY <1>6 DEF TakeStashed, Receive, viewVars
  <2>2. UNCHANGED pc \/ \E m \in Message : Take(n, m)
    <3>1. CASE TakeStashed(n)
      <4>1. \A i \in Fitting(n) : pending[n][i] \in Message
        BY <1>1 DEF Fitting, TypeOK
      <4> QED
        BY <3>1, <4>1 DEF TakeStashed
    <3>2. CASE Receive(n)
      <4>1. Head(inbox[n]) \in Message
        BY <1>1, <3>2, HeadTailSeq DEF Receive, TypeOK
      <4> QED
        BY <3>2, <4>1 DEF Receive
    <3> QED
      BY <1>6, <3>1, <3>2
  <2>3. ASSUME NEW m \in Message, Take(n, m) PROVE Within
    <3>1. pc \in [Nodes -> PC]
      BY <1>1 DEF TypeOK
    <3>2. /\ pc[n] \in {"candidate", "tally"}
          /\ \/ pc' = pc
             \/ pc' = [pc EXCEPT ![n] = "vote"] \/ pc' = [pc EXCEPT ![n] = "halted"]
      BY <2>3 DEF Take
    <3>3. {"candidate", "tally", "vote"} \subseteq Elects
      BY DEF Elects, PC, Ended
    <3> QED
      BY <2>1, <3>1, <3>2, <3>3
  <2> QED
    BY <2>1, <2>2, <2>3
<1>7. ASSUME NEW n \in Nodes, MakeFaulty(n) PROVE Within
  BY <1>7 DEF MakeFaulty, viewVars
<1>8. Cancel \/ UNCHANGED vars => Within
  BY DEF Cancel, vars, viewVars
<1>9. Within => ElectionInv'
  BY MovesWithinHeight
<1> HIDE DEF Within
<1> QED
  BY <1>2, <1>3, <1>4, <1>5, <1>6, <1>7, <1>8, <1>9 DEF Next, Step, Returned

\* Nodes at the same height have committed the same chain.
LEMMA SameHeightSameElection ==
    ASSUME Faultable = {}, AgreementInv, SlashLifecycle, ElectionInv
    PROVE  SameElection
<1>1. SUFFICES ASSUME NEW m \in Nodes, NEW n \in Nodes, Height(m) = Height(n),
                      {pc[m], pc[n]} \cap ({"height"} \cup Ended) = {}
               PROVE  /\ excluded[m] = excluded[n]
                      /\ priority[m] = priority[n]
                      /\ Weight(m) = Weight(n)
  BY DEF SameElection
<1>2. chain[m] \in Block /\ chain[n] \in Block
  BY DEF AgreementInv, TypeOK
<1>3. Len(chain[m]) = Len(chain[n])
  BY <1>1, <1>2, BlockType DEF Height
<1>4. chain[m] = chain[n]
  <2>1. IsPrefix(chain[m], chain[n]) \/ IsPrefix(chain[n], chain[m])
    BY DEF AgreementInv, Agreement
  <2>2. Len(chain[m]) \in Nat
    BY <1>2, BlockType
  <2> QED
    BY <1>2, <1>3, <2>1, <2>2, PrefixOrder
<1>5. excluded[m] = Nobody /\ excluded[n] = Nobody
  BY NobodyBlamed DEF AgreementInv
<1>6. pc[m] \in Elects /\ pc[n] \in Elects
  BY <1>1 DEF Elects, AgreementInv, TypeOK
<1>7. PICK f : /\ IsHistory(f, chain[m])
               /\ priority[m] = Advance(f[Len(chain[m])], HeightWeight(chain[m]))
  BY <1>6 DEF ElectionInv
<1>8. PICK g : /\ IsHistory(g, chain[n])
               /\ priority[n] = Advance(g[Len(chain[n])], HeightWeight(chain[n]))
  BY <1>6 DEF ElectionInv
<1>9. Len(Replayed) <= Len(chain[m])
  BY <1>2, PrefixDef, ReplayedAssumption DEF AgreementInv, Certified
<1>10. f[Len(chain[m])] = g[Len(chain[m])]
  BY <1>2, <1>4, <1>7, <1>8, <1>9, OneHistory
<1> QED
  BY <1>4, <1>5, <1>7, <1>8, <1>10 DEF Weight, Synced

\* Nodes that work on one height elected its proposer from the same priorities
\* and count votes against the same threshold, in whatever order they reached
\* it and whatever stake the blocks delegate, as long as nobody is faulty.
THEOREM SameElectionHolds ==
    ASSUME Faultable = {}
    PROVE  Spec => []SameElection
<1>1. Init => AgreementInv /\ SlashLifecycle /\ ElectionInv
  <2>1. Init => AgreementInv
    BY AgreementInit
  <2>2. Init => SlashLifecycle
    BY DEF Init, SlashLifecycle
  <2>3. ASSUME Init PROVE ElectionInv
    <3> DEFINE f == [i \in {Len(Replayed)} |-> [v \in Nodes |-> 0]]
    <3>1. f[Len(Replayed)] = [v \in Nodes |-> 0]
      OBVIOUS
    <3>2. (Len(Replayed) + 1)..Len(Replayed) = {}
      BY ReplayedAssumption, BlockType
    <3> HIDE DEF f
    <3>3. IsHistory(f, Replayed)
      BY <3>1, <3>2 DEF IsHistory
    <3>4. ASSUME NEW n \in Nodes
          PROVE  /\ IsHistory(f, chain[n]) /\ priority[n] = f[Len(chain[n])]
                 /\ pc[n] \notin Elects
      BY <2>3, <3>1, <3>3 DEF Init, Elects, Ended
    <3> QED
      BY <3>4 DEF ElectionInv
  <2> QED
    BY <2>1, <2>2, <2>3
<1>2. AgreementInv /\ SlashLifecycle /\ ElectionInv /\ [Next]_vars =>
        AgreementInv' /\ SlashLifecycle' /\ ElectionInv'
  BY NobodyIsMinority, AgreementStep, BooksStep, ElectionStep DEF AgreementInv
<1>3. AgreementInv /\ SlashLifecycle /\ ElectionInv => SameElection
  BY SameHeightSameElection
<1> QED
  BY <1>1, <1>2, <1>3, PTL DEF Spec
=============================================================================
