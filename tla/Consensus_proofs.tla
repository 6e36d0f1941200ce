-------------------------- MODULE Consensus_proofs --------------------------
(***************************************************************************)
(* Proofs about Consensus, for any number of validators, any stakes, any   *)
(* height and any heal delay.                                              *)
(***************************************************************************)
EXTENDS Consensus, Election_proofs, SequenceTheorems

-----------------------------------------------------------------------------
(* Sequences *)

LEMMA FrontOf ==
    ASSUME NEW G, NEW s \in Seq(G), s # <<>>
    PROVE  /\ Len(s) \in Nat \ {0}
           /\ Front(s) \in Seq(G)
           /\ Last(s) \in G
           /\ Len(Front(s)) = Len(s) - 1
           /\ \A i \in 1..(Len(s) - 1) : Front(s)[i] = s[i]
<1>1. Len(s) \in Nat \ {0}
  BY EmptySeq, LenProperties
<1>2. Last(s) \in G
  BY <1>1, ElementOfSeq DEF Last
<1>3. SubSeq(s, 1, Len(s) - 1) \in Seq(G)
  BY <1>1, SubSeqProperties
<1>4. /\ Len(Front(s)) = Len(s) - 1
      /\ \A i \in 1..(Len(s) - 1) : Front(s)[i] = s[i]
  <2> DEFINE n == Len(s) - 1
  <2>0. 1 \in Int /\ n \in Nat /\ n \in Int /\ \A i \in 1..n : s[i] \in G
    BY <1>1, ElementOfSeq
  <2> HIDE DEF n
  <2>1. Len(SubSeq(s, 1, n)) = IF 1 <= n THEN n - 1 + 1 ELSE 0
    BY <2>0, SubSeqProperties
  <2>2. (IF 1 <= n THEN n - 1 + 1 ELSE 0) = n
    BY <2>0
  <2> USE DEF n
  <2>3. \A i \in 1..(Len(s) - 1) : SubSeq(s, 1, Len(s) - 1)[i] = s[i]
    BY <1>1
  <2> QED
    BY <2>1, <2>2, <2>3 DEF Front
<1> QED
  BY <1>1, <1>2, <1>3, <1>4 DEF Front

LEMMA RemoveAtSeq ==
    ASSUME NEW G, NEW s \in Seq(G), NEW i \in DOMAIN s
    PROVE  RemoveAt(s, i) \in Seq(G) /\ s[i] \in G
  BY DEF RemoveAt

LEMMA HeadTailSeq ==
    ASSUME NEW G, NEW s \in Seq(G), s # <<>>
    PROVE  Tail(s) \in Seq(G) /\ Head(s) \in G
  OBVIOUS

LEMMA SeqMonotone ==
    ASSUME NEW G, NEW H, G \subseteq H, NEW s \in Seq(G)
    PROVE  s \in Seq(H)
  OBVIOUS

\* kept is the accumulator of Undecided(msgs, h) over the first m messages.
IsKept(msgs, h, m, kept) ==
    kept = [i \in 0..m |-> IF i = 0 THEN <<>>
                           ELSE IF msgs[i].height > h THEN Append(kept[i-1], msgs[i])
                           ELSE kept[i-1]]

LEMMA KeptExists ==
    ASSUME NEW msgs, NEW h, NEW m \in Nat
    PROVE  \E kept : IsKept(msgs, h, m, kept)
<1> DEFINE T == {k \in Nat : ~ \E f : IsKept(msgs, h, k, f)}
<1>1. SUFFICES ASSUME T # {} PROVE FALSE
  OBVIOUS
<1>2. PICK k \in T : \A y \in T : k <= y
  <2>1. T \subseteq Nat
    OBVIOUS
  <2> HIDE DEF T
  <2> QED
    BY <1>1, <2>1, LeastElement
<1>3. k # 0
  <2>1. IsKept(msgs, h, 0, [j \in 0..0 |-> <<>>])
    BY DEF IsKept
  <2> QED
    BY <2>1
<1>4. k \in Nat /\ k-1 \in Nat /\ ~(k-1 \in T)
  BY <1>2, <1>3
<1>5. PICK f : IsKept(msgs, h, k-1, f)
  BY <1>4
<1> DEFINE g == [j \in 0..k |->
                    IF j = k THEN IF msgs[k].height > h THEN Append(f[k-1], msgs[k])
                                  ELSE f[k-1]
                    ELSE f[j]]
<1>6. IsKept(msgs, h, k, g)
  <2>1. ASSUME NEW j \in 0..k
        PROVE  g[j] = IF j = 0 THEN <<>>
                      ELSE IF msgs[j].height > h THEN Append(g[j-1], msgs[j])
                      ELSE g[j-1]
    <3>1. CASE j = k
      BY <3>1, <1>4, <1>3
    <3>2. CASE j # k
      <4>1. /\ j \in 0..(k-1)
            /\ j # 0 => j-1 \in 0..(k-1) /\ j-1 \in 0..k /\ j-1 # k
        BY <3>2, <1>4
      <4>2. f[j] = IF j = 0 THEN <<>>
                   ELSE IF msgs[j].height > h THEN Append(f[j-1], msgs[j])
                   ELSE f[j-1]
        BY <4>1, <1>5 DEF IsKept
      <4> QED
        BY <4>1, <4>2, <3>2
    <3> QED
      BY <3>1, <3>2
  <2> QED
    BY <2>1, Zenon DEF IsKept
<1> QED
  BY <1>2, <1>6

\* Pruning the stash keeps messages of the stash only.
LEMMA UndecidedSeq ==
    ASSUME NEW G, NEW msgs \in Seq(G), NEW h
    PROVE  Undecided(msgs, h) \in Seq(G)
<1> DEFINE M == Len(msgs)
           f == CHOOSE f : IsKept(msgs, h, M, f)
<1>1. M \in Nat
  OBVIOUS
<1>2. IsKept(msgs, h, M, f)
  BY <1>1, KeptExists
<1>3. Undecided(msgs, h) = f[M]
  BY DEF Undecided, IsKept
<1> HIDE DEF f
<1> DEFINE T == {k \in 0..M : f[k] \notin Seq(G)}
<1>4. SUFFICES ASSUME T # {} PROVE FALSE
  <2>1. T = {} => f[M] \in Seq(G)
    BY <1>1
  <2> HIDE DEF T
  <2> QED
    BY <2>1, <1>3
<1>5. PICK k \in T : \A y \in T : k <= y
  <2>1. T \subseteq Nat
    BY <1>1
  <2> HIDE DEF T
  <2> QED
    BY <1>4, <2>1, LeastElement
<1>6. k # 0
  <2>1. f[0] = <<>>
    BY <1>1, <1>2 DEF IsKept
  <2>2. f[k] \notin Seq(G)
    BY <1>5
  <2>3. f[0] \in Seq(G)
    BY <2>1
  <2> QED
    BY <2>2, <2>3
<1>7. k \in 1..M /\ k-1 \in 0..M /\ f[k-1] \in Seq(G) /\ msgs[k] \in G
  BY <1>1, <1>5, <1>6
<1>8. f[k] = IF msgs[k].height > h THEN Append(f[k-1], msgs[k]) ELSE f[k-1]
  <2>1. k \in 0..M /\ k # 0
    BY <1>1, <1>7
  <2> QED
    BY <1>2, <2>1 DEF IsKept
<1>9. f[k] \in Seq(G)
  BY <1>7, <1>8
<1> QED
  BY <1>5, <1>9

-----------------------------------------------------------------------------
(* Type correctness *)

LEMMA BlockType ==
    ASSUME NEW b \in Block
    PROVE  /\ Len(b) \in Nat
           /\ Bonded(b) \in [Nodes -> Nat]
           /\ \A h \in Header : Append(b, h) \in Block
           /\ b # <<>> => Front(b) \in Block
<1>1. Len(b) \in Nat /\ \A h \in Header : Append(b, h) \in Block
  BY DEF Block
<1>2. Bonded(b) \in [Nodes -> Nat]
  <2>1. CASE b = <<>>
    BY <2>1 DEF Bonded
  <2>2. CASE b # <<>>
    <3>1. Last(b) \in Header
      BY <2>2, FrontOf DEF Block
    <3>2. Last(b).bonded \in [Nodes -> Nat]
      BY <3>1, BondingsAssumption DEF Header
    <3> QED
      BY <2>2, <3>2 DEF Bonded
  <2> QED
    BY <2>1, <2>2
<1>3. b # <<>> => Front(b) \in Block
  BY FrontOf DEF Block
<1> QED
  BY <1>1, <1>2, <1>3

LEMMA MessageType ==
    ASSUME NEW n \in Nodes, NEW h \in Nat, NEW b \in Block
    PROVE  Vote(n, h, b) \in Message /\ Proposal(n, b) \in Message
  BY BlockType DEF Vote, Proposal, Message

LEMMA HeightType ==
    ASSUME TypeOK, NEW n \in Nodes
    PROVE  Height(n) \in Nat \ {0}
  BY BlockType DEF TypeOK, Height

LEMMA OutgoingType ==
    ASSUME TypeOK, NEW n \in Nodes, pc[n] \in Broadcasting
    PROVE  Outgoing(n) \in Message
<1>1. draft[n] \in Block /\ cand[n] \in Block /\ Junk \in Block
  BY DEF TypeOK, Junk, Block
<1>2. Height(n) \in Nat
  BY HeightType
<1> QED
  BY <1>1, <1>2, MessageType DEF Outgoing, Broadcasting

LEMMA StartPriorityType ==
    ASSUME TypeOK, NEW n \in Nodes
    PROVE  /\ NextWeight(n) \in [Nodes -> Nat]
           /\ HealedPriority(n) \in [Nodes -> Int]
           /\ Advance(HealedPriority(n), NextWeight(n)) \in [Nodes -> Int]
<1>1. chain[n] \in Block /\ priority[n] \in [Nodes -> Int]
  BY DEF TypeOK
<1>2. Len(chain[n]) \in Nat /\ Len(Replayed) \in Nat /\ Len(<<>>) = 0
  BY <1>1, BlockType, ReplayedAssumption
<1>3. StaleBonded(n) \in [Nodes -> Nat]
  <2>1. CASE Len(chain[n]) > Len(Replayed)
    <3>1. chain[n] # <<>>
      BY <1>2, <2>1
    <3>2. Front(chain[n]) \in Block
      BY <1>1, <3>1, BlockType
    <3> QED
      BY <2>1, <3>2, BlockType DEF StaleBonded
  <2>2. CASE ~(Len(chain[n]) > Len(Replayed))
    BY <2>2, BlockType, ReplayedAssumption DEF StaleBonded
  <2> QED
    BY <2>1, <2>2
<1>4. NextWeight(n) \in [Nodes -> Nat]
  BY <1>1, BlockType, EffectiveType DEF NextWeight, Synced
<1>5. HealedPriority(n) \in [Nodes -> Int]
  BY <1>1, <1>3, EffectiveType, RejoinedType DEF HealedPriority
<1> QED
  BY <1>4, <1>5, AdvanceType

LEMMA TypeInit == Init => TypeOK
<1> SUFFICES ASSUME Init PROVE TypeOK
  OBVIOUS
<1>1. 1 \in Nodes
  BY NAssumption DEF Nodes
<1>2. Replayed \in Block
  BY ReplayedAssumption
<1>3. <<>> \in Block /\ <<>> \in Seq(Message) /\ <<>> \in Seq(Block)
  BY DEF Block
<1>4. pc \in [Nodes -> PC]
  BY DEF Init, PC, Ended
<1>5. /\ chain \in [Nodes -> Block] /\ draft \in [Nodes -> Block]
      /\ cand \in [Nodes -> Block] /\ to \in [Nodes -> Nodes]
      /\ inbox \in [Nodes -> Seq(Message)] /\ pending \in [Nodes -> Seq(Message)]
      /\ recorded \in Seq(Block)
  BY <1>1, <1>2, <1>3 DEF Init, NoBlock
<1>6. /\ counted \in [Nodes -> SUBSET Nodes] /\ seen \in [Nodes -> SUBSET Message]
      /\ slashed \in [Nodes -> SUBSET Nodes]
      /\ flagged \subseteq Nodes /\ zeroed \subseteq Nodes
      /\ byz \in [Nodes -> BOOLEAN] /\ cancelled \in BOOLEAN
  BY DEF Init
<1>8. junked \subseteq DoubleVote /\ caught \in [Nodes -> Seq(DoubleVote)]
  <2>1. <<>> \in Seq(DoubleVote)
    OBVIOUS
  <2> QED
    BY <2>1 DEF Init
<1>7. /\ pendingSlash \in [Nodes -> [Nodes -> Nat]]
      /\ pendingHeal \in [Nodes -> [Nodes -> Nat]]
      /\ excluded \in [Nodes -> [Nodes -> BOOLEAN]]
      /\ priority \in [Nodes -> [Nodes -> Int]]
  BY DEF Init
<1> QED
  BY <1>4, <1>5, <1>6, <1>7, <1>8 DEF TypeOK

LEMMA StartHeightType ==
    ASSUME TypeOK, NEW n \in Nodes, StartHeight(n)
    PROVE  TypeOK'
<1>1. priority' \in [Nodes -> [Nodes -> Int]]
  BY StartPriorityType DEF StartHeight, TypeOK
<1>2. excluded' \in [Nodes -> [Nodes -> BOOLEAN]]
  <2>1. AfterHeals(n) \in [Nodes -> BOOLEAN]
    BY DEF TypeOK, AfterHeals, AfterSlashes
  <2> QED
    BY <2>1 DEF StartHeight, TypeOK
<1>3. /\ pendingSlash' \in [Nodes -> [Nodes -> Nat]]
      /\ pendingHeal' \in [Nodes -> [Nodes -> Nat]]
  BY DEF StartHeight, TypeOK
<1>4. draft' \in [Nodes -> Block]
  <2>1. CASE Elected(n) = n
    <3>1. PICK b \in Bondings :
             draft' = [draft EXCEPT ![n] = Append(chain[n], [proposer |-> n, bonded |-> b])]
      BY <2>1 DEF StartHeight
    <3>2. [proposer |-> n, bonded |-> b] \in Header
      BY DEF Header
    <3>3. Append(chain[n], [proposer |-> n, bonded |-> b]) \in Block
      BY <3>2, BlockType DEF TypeOK
    <3> QED
      BY <3>1, <3>3 DEF TypeOK
  <2>2. CASE Elected(n) # n
    BY <2>2 DEF StartHeight, TypeOK
  <2> QED
    BY <2>1, <2>2
<1>5. pc' \in [Nodes -> PC]
  BY DEF StartHeight, TypeOK, PC
<1>6. /\ byz' \in [Nodes -> BOOLEAN]
      /\ slashed' \in [Nodes -> SUBSET Nodes]
      /\ flagged' \subseteq Nodes /\ zeroed' \subseteq Nodes
  BY DEF StartHeight, TypeOK, Unflagged, Due
<1> QED
  BY <1>1, <1>2, <1>3, <1>4, <1>5, <1>6 DEF StartHeight, TypeOK, netVars, history

LEMMA SendType ==
    ASSUME TypeOK, NEW n \in Nodes, Send(n)
    PROVE  TypeOK'
<1>1. inbox' \in [Nodes -> Seq(Message)]
  <2>1. pc[n] \in Broadcasting /\ Outgoing(n) \in Message
    BY OutgoingType DEF Send
  <2>2. to[n] \in Nodes /\ inbox[to[n]] \in Seq(Message)
    BY DEF TypeOK
  <2>3. Append(inbox[to[n]], Outgoing(n)) \in Seq(Message)
    BY <2>1, <2>2
  <2> QED
    BY <2>2, <2>3 DEF Send, TypeOK
<1>2. to' \in [Nodes -> Nodes]
  <2>1. to[n] \in 1..N /\ N \in Nat \ {0}
    BY NAssumption DEF TypeOK, Nodes
  <2>2. CASE MoreInboxes(n)
    <3>1. to[n] + 1 \in Nodes
      BY <2>1, <2>2 DEF MoreInboxes, Nodes
    <3> QED
      BY <2>2, <3>1 DEF Send, TypeOK
  <2>3. CASE ~MoreInboxes(n)
    <3>1. 1 \in Nodes
      BY <2>1 DEF Nodes
    <3> QED
      BY <2>3, <3>1 DEF Send, TypeOK
  <2> QED
    BY <2>2, <2>3
<1>3. pc' \in [Nodes -> PC] /\ draft' \in [Nodes -> Block]
  <2>1. AfterBroadcast(n) \in {"candidate", "voted", "tally"}
    BY DEF Send, AfterBroadcast, Broadcasting
  <2>3. pc' = pc \/ pc' = [pc EXCEPT ![n] = AfterBroadcast(n)]
    BY DEF Send
  <2>4. draft' = draft \/ draft' = [draft EXCEPT ![n] = NoBlock]
    BY DEF Send
  <2>2. NoBlock \in Block
    BY DEF NoBlock, Block
  <2>5. pc' \in [Nodes -> PC]
    BY <2>1, <2>3 DEF TypeOK, PC
  <2>6. draft' \in [Nodes -> Block]
    BY <2>2, <2>4 DEF TypeOK
  <2> QED
    BY <2>5, <2>6
<1>4. junked' \subseteq DoubleVote
  <2>1. <<n, Height(n)>> \in DoubleVote
    BY HeightType DEF DoubleVote
  <2> QED
    BY <2>1 DEF Send, TypeOK
<1> QED
  BY <1>1, <1>2, <1>3, <1>4 DEF Send, TypeOK, faultVars, viewVars

\* What a node does with a message it waited for keeps the types.
LEMMA TakeType ==
    ASSUME TypeOK, NEW n \in Nodes, NEW m \in Message, Take(n, m)
    PROVE  /\ pc' \in [Nodes -> PC]
           /\ cand' \in [Nodes -> Block]
           /\ counted' \in [Nodes -> SUBSET Nodes]
<1>1. m.block \in Block /\ m.from \in Nodes
  BY DEF Message
<1>2. CASE /\ cand' = [cand EXCEPT ![n] = m.block]
            /\ pc' = [pc EXCEPT ![n] = "vote"]
            /\ UNCHANGED counted
  BY <1>1, <1>2 DEF TypeOK, PC
<1>3. CASE /\ pc' = [pc EXCEPT ![n] = "halted"]
            /\ UNCHANGED <<cand, counted>>
  BY <1>1, <1>3 DEF TypeOK, PC, Ended
<1>4. CASE /\ counted' = [counted EXCEPT ![n] = @ \cup {m.from}]
            /\ UNCHANGED <<pc, cand>>
  BY <1>1, <1>4 DEF TypeOK
<1> QED
  BY <1>2, <1>3, <1>4 DEF Take

LEMMA TakeStashedType ==
    ASSUME TypeOK, NEW n \in Nodes, TakeStashed(n)
    PROVE  TypeOK'
<1>1. PICK i \in DOMAIN pending[n] :
         /\ pending' = [pending EXCEPT ![n] = RemoveAt(@, i)]
         /\ Take(n, pending[n][i])
  BY DEF TakeStashed, Fitting
<1>2. pending[n] \in Seq(Message)
  BY DEF TypeOK
<1>3. RemoveAt(pending[n], i) \in Seq(Message) /\ pending[n][i] \in Message
  BY <1>2, RemoveAtSeq
<1>4. pending' \in [Nodes -> Seq(Message)]
  BY <1>1, <1>3 DEF TypeOK
<1> QED
  BY <1>1, <1>3, <1>4, TakeType DEF TakeStashed, TypeOK, faultVars, viewVars, history

LEMMA ObserveType ==
    ASSUME TypeOK, NEW n \in Nodes, NEW m \in Message, Observe(n, m)
    PROVE  /\ seen' \in [Nodes -> SUBSET Message]
           /\ slashed' \in [Nodes -> SUBSET Nodes]
           /\ pendingSlash' \in [Nodes -> [Nodes -> Nat]]
           /\ pendingHeal' \in [Nodes -> [Nodes -> Nat]]
           /\ flagged' \subseteq Nodes
           /\ caught' \in [Nodes -> Seq(DoubleVote)]
<1>1. m.from \in Nodes /\ m.height \in Nat
  BY DEF Message
<1>2. /\ m.height + SlashDelay \in Nat
      /\ m.height + SlashDelay + HealDelay \in Nat
  BY <1>1, HealAssumption DEF SlashDelay
<1>3. seen' = [seen EXCEPT ![n] =
                  IF m.kind = "vote" /\ m.from \notin slashed[n] /\ FirstVotes(n, m) = {}
                  THEN @ \cup {m} ELSE @]
  BY DEF Observe
<1>4. seen' \in [Nodes -> SUBSET Message]
  BY <1>3 DEF TypeOK
<1>5. CASE Equivocation(n, m)
  <2>1. /\ slashed' = [slashed EXCEPT ![n] = @ \cup {m.from}]
        /\ flagged' = flagged \cup {m.from}
    BY <1>5 DEF Observe
  <2>2. pendingSlash' \in [Nodes -> [Nodes -> Nat]]
    <3>1. pendingSlash' = [pendingSlash EXCEPT ![n][m.from] = m.height + SlashDelay]
      BY <1>5 DEF Observe
    <3> HIDE DEF SlashDelay
    <3> QED
      BY <1>1, <1>2, <3>1 DEF TypeOK
  <2>3. pendingHeal' \in [Nodes -> [Nodes -> Nat]]
    <3>1. pendingHeal' = [pendingHeal EXCEPT ![n][m.from] =
                IF HealDelay > 0 THEN m.height + SlashDelay + HealDelay ELSE @]
      BY <1>5 DEF Observe
    <3> QED
      BY <1>1, <1>2, <3>1 DEF TypeOK
  <2>4. caught' \in [Nodes -> Seq(DoubleVote)]
    <3>1. <<m.from, m.height>> \in DoubleVote
      BY <1>1 DEF DoubleVote
    <3>2. Append(caught[n], <<m.from, m.height>>) \in Seq(DoubleVote)
      BY <3>1 DEF TypeOK
    <3>3. caught \in [Nodes -> Seq(DoubleVote)]
      BY DEF TypeOK
    <3>4. caught' = [caught EXCEPT ![n] = Append(@, <<m.from, m.height>>)]
      BY <1>5 DEF Observe
    <3> QED
      BY <3>2, <3>3, <3>4
  <2> QED
    BY <1>1, <1>4, <2>1, <2>2, <2>3, <2>4 DEF TypeOK
<1>6. CASE ~Equivocation(n, m)
  BY <1>4, <1>6 DEF Observe, TypeOK
<1> QED
  BY <1>5, <1>6

LEMMA ReceiveType ==
    ASSUME TypeOK, NEW n \in Nodes, Receive(n)
    PROVE  TypeOK'
<1> DEFINE m == Head(inbox[n])
<1>1. inbox[n] \in Seq(Message) /\ inbox[n] # <<>> /\ pending[n] \in Seq(Message)
  BY DEF TypeOK, Receive
<1>2. m \in Message /\ Tail(inbox[n]) \in Seq(Message)
  BY <1>1, HeadTailSeq
<1>3. inbox' \in [Nodes -> Seq(Message)]
  BY <1>2 DEF Receive, TypeOK
<1>4. Observe(n, m)
  BY DEF Receive
<1>5. /\ pc' \in [Nodes -> PC]
      /\ cand' \in [Nodes -> Block]
      /\ counted' \in [Nodes -> SUBSET Nodes]
      /\ pending' \in [Nodes -> Seq(Message)]
  <2>1. CASE Wants(n, m)
    BY <1>2, <2>1, TakeType DEF Receive, TypeOK
  <2>2. CASE ~Wants(n, m)
    <3>1. Append(pending[n], m) \in Seq(Message)
      BY <1>1, <1>2
    <3>2. /\ pending' = [pending EXCEPT ![n] = Append(@, m)]
          /\ UNCHANGED <<pc, cand, counted>>
      BY <2>2 DEF Receive
    <3> HIDE DEF m
    <3> QED
      BY <3>1, <3>2 DEF TypeOK
  <2> QED
    BY <2>1, <2>2
<1> HIDE DEF m
<1>6. UNCHANGED <<chain, draft, to, zeroed, viewVars, byz, recorded, cancelled, junked>>
  BY DEF Receive
<1> QED
  BY <1>2, <1>3, <1>4, <1>5, <1>6, ObserveType DEF TypeOK, viewVars

LEMMA CommitType ==
    ASSUME TypeOK, NEW n \in Nodes, Commit(n)
    PROVE  TypeOK'
<1>1. cand[n] \in Block /\ NoBlock \in Block
  BY DEF TypeOK, NoBlock, Block
<1>2. recorded' \in Seq(Block)
  BY <1>1 DEF Commit, TypeOK
<1>3. pending' \in [Nodes -> Seq(Message)]
  <2>1. Undecided(pending[n], Height(n)) \in Seq(Message)
    BY UndecidedSeq DEF TypeOK
  <2> QED
    BY <2>1 DEF Commit, TypeOK
<1>4. seen' \in [Nodes -> SUBSET Message]
  BY DEF Commit, TypeOK
<1>5. pc' \in [Nodes -> PC]
  BY DEF Commit, TypeOK, PC, Ended
<1> QED
  BY <1>1, <1>2, <1>3, <1>4, <1>5 DEF Commit, TypeOK, viewVars, history

\* Every step of the nodes and of their environment keeps the types.
LEMMA TypeStep == TypeOK /\ [Next]_vars => TypeOK'
<1> SUFFICES ASSUME TypeOK, [Next]_vars PROVE TypeOK'
  OBVIOUS
<1>1. ASSUME NEW n \in Nodes, StartHeight(n) PROVE TypeOK'
  BY <1>1, StartHeightType
<1>2. ASSUME NEW n \in Nodes, NoProposer(n) PROVE TypeOK'
  BY <1>2 DEF NoProposer, TypeOK, PC, Ended, netVars, roundVars, faultVars, viewVars, history
<1>3. ASSUME NEW n \in Nodes, Send(n) PROVE TypeOK'
  BY <1>3, SendType
<1>4. ASSUME NEW n \in Nodes, AfterVote(n) PROVE TypeOK'
  BY <1>4 DEF AfterVote, TypeOK, PC, netVars, roundVars, faultVars, viewVars, history
<1>5. ASSUME NEW n \in Nodes, TakeStashed(n) PROVE TypeOK'
  BY <1>5, TakeStashedType
<1>6. ASSUME NEW n \in Nodes, Receive(n) PROVE TypeOK'
  BY <1>6, ReceiveType
<1>7. ASSUME NEW n \in Nodes, Commit(n) PROVE TypeOK'
  BY <1>7, CommitType
<1>8. ASSUME NEW n \in Nodes, Stop(n) PROVE TypeOK'
  BY <1>8 DEF Stop, TypeOK, PC, Ended, netVars, roundVars, faultVars, viewVars, history
<1>9. ASSUME NEW n \in Nodes, MakeFaulty(n) PROVE TypeOK'
  BY <1>9 DEF MakeFaulty, TypeOK, netVars, roundVars, faultVars, viewVars, history
<1>10. CASE Cancel
  BY <1>10 DEF Cancel, TypeOK, netVars, roundVars, faultVars, viewVars, history
<1>11. CASE UNCHANGED vars
  BY <1>11 DEF vars, TypeOK, netVars, roundVars, faultVars, viewVars, history
<1> QED
  BY <1>1, <1>2, <1>3, <1>4, <1>5, <1>6, <1>7, <1>8, <1>9, <1>10, <1>11
     DEF Next, Step, Returned

\* The variables keep their types in every behaviour of the cluster.
THEOREM TypeCorrect == Spec => []TypeOK
<1>1. Init => TypeOK
  BY TypeInit
<1>2. TypeOK /\ [Next]_vars => TypeOK'
  BY TypeStep
<1> QED
  BY <1>1, <1>2, PTL DEF Spec

-----------------------------------------------------------------------------
(***************************************************************************)
(* The inductive invariant behind Agreement.  A validator accepts a block  *)
(* when it adopts it as its candidate, and keeps accepting it once it has  *)
(* committed it.  Every vote that exists is for a block its voter accepts, *)
(* or is the junk vote of a faulty validator; every committed block was    *)
(* accepted by a quorum of somebody's view of who is slashed, and only     *)
(* faulty validators are slashed in anybody's view.                        *)
(***************************************************************************)

Accepts(v, b) == IsPrefix(b, chain[v]) \/ cand[v] = b

\* A vote for a block its voter accepts, or junk by a faulty validator.
GoodVote(m) ==
    IF m.block = Junk THEN m.from \in Faultable
    ELSE m.height = Len(m.block) /\ Accepts(m.from, m.block)

\* A block on top of one that its proposer has committed.
GoodProposal(m) ==
    /\ m.block # NoBlock
    /\ m.height = Len(m.block)
    /\ IsPrefix(Front(m.block), chain[m.from])

GoodMessage ==
    {m \in Message : IF m.kind = "vote" THEN GoodVote(m) ELSE GoodProposal(m)}

\* The candidate is the next block of the node's chain, and there is one
\* exactly from its adoption to its commit; so is the block being proposed.
Links ==
    \A n \in Nodes :
        /\ pc[n] \in {"height", "propose", "candidate"} => cand[n] = NoBlock
        /\ pc[n] \in {"vote", "voted", "equivocate", "tally"} => cand[n] # NoBlock
        /\ cand[n] # NoBlock => Front(cand[n]) = chain[n]
        /\ pc[n] = "propose" => draft[n] # NoBlock /\ Front(draft[n]) = chain[n]

Messages ==
    /\ inbox \in [Nodes -> Seq(GoodMessage)]
    /\ pending \in [Nodes -> Seq(GoodMessage)]
    /\ seen \in [Nodes -> SUBSET {m \in GoodMessage : m.kind = "vote"}]

CountedAccept ==
    \A n \in Nodes : \A v \in counted[n] : cand[n] # NoBlock /\ Accepts(v, cand[n])

\* Only validators that may be made faulty are blamed for anything.
Blame ==
    \A n, v \in Nodes :
        /\ byz[n] \/ pc[n] = "equivocate" => n \in Faultable
        /\ v \in slashed[n] \/ v \in flagged => v \in Faultable
        /\ pendingSlash[n][v] # 0 \/ excluded[n][v] => v \in Faultable

\* A quorum of the view in which S is slashed accepts b.
CertifiedBy(S, Q, b) ==
    /\ Quorum(Effective([v \in Nodes |-> v \in S], Bonded(Front(b))), Q)
    /\ \A v \in Q : Accepts(v, b)

Certified ==
    \A n \in Nodes :
        /\ IsPrefix(Replayed, chain[n])
        /\ \A k \in (Len(Replayed) + 1)..Len(chain[n]) :
              \E S \in SUBSET Faultable, Q \in SUBSET Nodes :
                  CertifiedBy(S, Q, SubSeq(chain[n], 1, k))

AgreementInv ==
    /\ TypeOK /\ Links /\ Messages /\ CountedAccept /\ Blame /\ Certified
    /\ Agreement /\ NeverHalts

-----------------------------------------------------------------------------
(* Prefixes *)

LEMMA PrefixDef ==
    ASSUME NEW b \in Block, NEW c \in Block
    PROVE  IsPrefix(b, c) <=> Len(b) <= Len(c) /\ \A i \in 1..Len(b) : b[i] = c[i]
  BY DEF IsPrefix, Block

LEMMA BlockEqual ==
    ASSUME NEW b \in Block, NEW c \in Block, Len(b) = Len(c),
           \A i \in 1..Len(b) : b[i] = c[i]
    PROVE  b = c
  BY SeqEqual DEF Block

LEMMA PrefixOrder ==
    ASSUME NEW a \in Block, NEW b \in Block, NEW c \in Block
    PROVE  /\ IsPrefix(a, a)
           /\ IsPrefix(a, b) /\ IsPrefix(b, c) => IsPrefix(a, c)
           /\ IsPrefix(a, c) /\ IsPrefix(b, c) /\ Len(a) <= Len(b) => IsPrefix(a, b)
           /\ IsPrefix(a, b) /\ Len(b) <= Len(a) => a = b
<1>1. Len(a) \in Nat /\ Len(b) \in Nat /\ Len(c) \in Nat
  BY BlockType
<1>2. IsPrefix(a, a)
  BY <1>1, PrefixDef
<1>3. IsPrefix(a, b) /\ IsPrefix(b, c) => IsPrefix(a, c)
  BY <1>1, PrefixDef
<1>4. IsPrefix(a, c) /\ IsPrefix(b, c) /\ Len(a) <= Len(b) => IsPrefix(a, b)
  BY <1>1, PrefixDef
<1>5. IsPrefix(a, b) /\ Len(b) <= Len(a) => a = b
  BY <1>1, PrefixDef, BlockEqual
<1> QED
  BY <1>2, <1>3, <1>4, <1>5

\* A block has one block below it at each height.
LEMMA OneBelow ==
    ASSUME NEW a \in Block, NEW b \in Block, NEW c \in Block,
           IsPrefix(a, c), IsPrefix(b, c), Len(a) = Len(b)
    PROVE  a = b
<1>1. Len(a) \in Nat /\ Len(b) \in Nat
  BY BlockType
<1>2. IsPrefix(a, b)
  BY <1>1, PrefixOrder
<1> QED
  BY <1>1, <1>2, PrefixOrder

LEMMA FrontPrefix ==
    ASSUME NEW b \in Block, b # NoBlock
    PROVE  /\ Front(b) \in Block
           /\ Len(b) = Len(Front(b)) + 1
           /\ IsPrefix(Front(b), b)
<1>1. /\ Len(b) \in Nat \ {0} /\ Front(b) \in Block
      /\ Len(Front(b)) = Len(b) - 1
      /\ \A i \in 1..(Len(b) - 1) : Front(b)[i] = b[i]
  BY FrontOf DEF Block, NoBlock
<1> QED
  BY <1>1, PrefixDef

\* The blocks below a block: the first k headers of its history.
LEMMA Below ==
    ASSUME NEW c \in Block, NEW k \in 1..Len(c)
    PROVE  /\ SubSeq(c, 1, k) \in Block
           /\ Len(SubSeq(c, 1, k)) = k
           /\ SubSeq(c, 1, k) # NoBlock
           /\ IsPrefix(SubSeq(c, 1, k), c)
<1>1. Len(c) \in Nat
  BY BlockType
<1>2. /\ SubSeq(c, 1, k) \in Block
      /\ Len(SubSeq(c, 1, k)) = k
      /\ \A i \in 1..k : SubSeq(c, 1, k)[i] = c[i]
  BY <1>1 DEF Block
<1>3. SubSeq(c, 1, k) # NoBlock
  <2>1. Len(NoBlock) = 0
    BY DEF NoBlock
  <2> QED
    BY <1>2, <2>1
<1>4. IsPrefix(SubSeq(c, 1, k), c)
  <2> DEFINE d == SubSeq(c, 1, k)
  <2>1. d \in Block /\ Len(d) = k /\ k \in 1..Len(c) /\ \A i \in 1..k : d[i] = c[i]
    BY <1>2
  <2> HIDE DEF d
  <2>2. IsPrefix(d, c)
    BY <1>1, <2>1, PrefixDef
  <2> QED
    BY <2>2 DEF d
<1> QED
  BY <1>2, <1>3, <1>4

LEMMA PrefixIsBelow ==
    ASSUME NEW b \in Block, NEW c \in Block, b # NoBlock, IsPrefix(b, c)
    PROVE  Len(b) \in 1..Len(c) /\ SubSeq(c, 1, Len(b)) = b
<1>1. Len(b) \in Nat \ {0} /\ Len(c) \in Nat /\ Len(b) <= Len(c)
  BY BlockType, FrontOf, PrefixDef DEF Block, NoBlock
<1>2. Len(b) \in 1..Len(c)
  BY <1>1
<1> DEFINE d == SubSeq(c, 1, Len(b))
<1>3. d \in Block /\ Len(d) = Len(b) /\ IsPrefix(d, c)
  BY <1>2, Below
<1> HIDE DEF d
<1>4. IsPrefix(d, b)
  BY <1>1, <1>3, PrefixOrder
<1>5. d = b
  BY <1>1, <1>3, <1>4, PrefixOrder
<1> QED
  BY <1>2, <1>5 DEF d

-----------------------------------------------------------------------------
(* A validator accepts one block per height, and for ever *)

LEMMA AcceptsOnce ==
    ASSUME TypeOK, Links, NEW v \in Nodes,
           NEW b \in Block, NEW c \in Block, b # NoBlock, c # NoBlock,
           Len(b) = Len(c), Accepts(v, b), Accepts(v, c)
    PROVE  b = c
<1>1. chain[v] \in Block /\ cand[v] \in Block
  BY DEF TypeOK
<1>2. Len(b) \in Nat /\ Len(chain[v]) \in Nat
  BY <1>1, BlockType
<1>3. CASE IsPrefix(b, chain[v]) /\ IsPrefix(c, chain[v])
  BY <1>1, <1>2, <1>3, PrefixOrder
<1>4. cand[v] # NoBlock => Len(cand[v]) = Len(chain[v]) + 1
  BY <1>1, FrontPrefix DEF Links
<1>5. \A x \in Block : IsPrefix(x, chain[v]) => Len(x) <= Len(chain[v])
  BY <1>1, PrefixDef
<1> QED
  BY <1>2, <1>3, <1>4, <1>5 DEF Accepts

\* A step in which every node keeps its chain and does not drop a candidate,
\* or commits its candidate.
Grows ==
    \A v \in Nodes :
        \/ chain'[v] = chain[v] /\ (cand'[v] = cand[v] \/ cand[v] = NoBlock)
        \/ cand[v] # NoBlock /\ chain'[v] = cand[v]

LEMMA ChainGrows ==
    ASSUME TypeOK, Links, Grows, NEW v \in Nodes
    PROVE  IsPrefix(chain[v], chain'[v])
<1>1. chain[v] \in Block /\ cand[v] \in Block
  BY DEF TypeOK
<1> QED
  BY <1>1, PrefixOrder, FrontPrefix DEF Grows, Links

LEMMA AcceptsGrows ==
    ASSUME TypeOK, TypeOK', Links, Grows, NEW v \in Nodes,
           NEW b \in Block, b # NoBlock, Accepts(v, b)
    PROVE  Accepts(v, b)'
<1>1. chain[v] \in Block /\ cand[v] \in Block /\ chain'[v] \in Block
  BY DEF TypeOK
<1>2. CASE IsPrefix(b, chain[v])
  BY <1>1, <1>2, ChainGrows, PrefixOrder DEF Accepts
<1>3. CASE cand[v] = b
  <2>1. cand'[v] = b \/ chain'[v] = b
    BY <1>3 DEF Grows
  <2> QED
    BY <1>1, <2>1, PrefixOrder DEF Accepts
<1> QED
  BY <1>2, <1>3 DEF Accepts

LEMMA MessagesGrow ==
    ASSUME TypeOK, TypeOK', Links, Grows
    PROVE  GoodMessage \subseteq GoodMessage'
<1>1. SUFFICES ASSUME NEW m \in GoodMessage PROVE m \in GoodMessage'
  OBVIOUS
<1>2. m \in Message /\ m.block \in Block /\ m.from \in Nodes
  BY DEF GoodMessage, Message
<1>3. CASE m.kind = "vote"
  <2>1. GoodVote(m)
    BY <1>3 DEF GoodMessage
  <2>2. GoodVote(m)'
    BY <1>2, <2>1, AcceptsGrows DEF GoodVote, Junk, NoBlock
  <2> QED
    BY <1>2, <1>3, <2>2 DEF GoodMessage
<1>4. CASE m.kind # "vote"
  <2>1. GoodProposal(m)
    BY <1>4 DEF GoodMessage
  <2>2. Front(m.block) \in Block
    BY <1>2, <2>1, FrontPrefix DEF GoodProposal
  <2>3. chain[m.from] \in Block /\ chain'[m.from] \in Block
    BY <1>2 DEF TypeOK
  <2>4. IsPrefix(Front(m.block), chain'[m.from])
    BY <1>2, <2>1, <2>2, <2>3, ChainGrows, PrefixOrder DEF GoodProposal
  <2>5. GoodProposal(m)'
    BY <2>1, <2>4 DEF GoodProposal
  <2> QED
    BY <1>2, <1>4, <2>5 DEF GoodMessage
<1> QED
  BY <1>3, <1>4

-----------------------------------------------------------------------------
(* The steps *)

\* A step that moves no block and no vote count keeps the parts of the
\* invariant that are only about those.
LEMMA SameBlocks ==
    ASSUME AgreementInv, chain' = chain, cand' = cand, counted' = counted
    PROVE  /\ CountedAccept' /\ Certified' /\ Agreement'
           /\ GoodMessage' = GoodMessage
           /\ Grows
<1>1. \A v, b : Accepts(v, b)' <=> Accepts(v, b)
  BY DEF Accepts
<1>2. CountedAccept'
  BY <1>1 DEF AgreementInv, CountedAccept
<1>3. \A S, Q, b : CertifiedBy(S, Q, b)' <=> CertifiedBy(S, Q, b)
  BY <1>1 DEF CertifiedBy
<1>4. Certified'
  BY <1>3 DEF AgreementInv, Certified
<1>5. Agreement'
  BY DEF AgreementInv, Agreement
<1>6. \A m : (GoodVote(m)' <=> GoodVote(m)) /\ (GoodProposal(m)' <=> GoodProposal(m))
  BY <1>1 DEF GoodVote, GoodProposal
<1>7. GoodMessage' = GoodMessage
  BY <1>6 DEF GoodMessage
<1>8. Grows
  BY DEF Grows
<1> QED
  BY <1>2, <1>4, <1>5, <1>7, <1>8

\* The message a node broadcasts is a good one.
LEMMA OutgoingGood ==
    ASSUME AgreementInv, NEW n \in Nodes, pc[n] \in Broadcasting
    PROVE  Outgoing(n) \in GoodMessage
<1>1. Outgoing(n) \in Message
  BY OutgoingType DEF AgreementInv
<1>2. chain[n] \in Block /\ cand[n] \in Block /\ draft[n] \in Block
  BY DEF AgreementInv, TypeOK
<1>3. CASE pc[n] = "propose"
  <2>1. draft[n] # NoBlock /\ Front(draft[n]) = chain[n]
    BY <1>3 DEF AgreementInv, Links
  <2>2. Outgoing(n) = Proposal(n, draft[n])
    BY <1>3 DEF Outgoing
  <2>3. GoodProposal(Proposal(n, draft[n]))
    BY <1>2, <2>1, PrefixOrder DEF GoodProposal, Proposal
  <2>4. Proposal(n, draft[n]).kind = "proposal"
    BY DEF Proposal
  <2> QED
    BY <1>1, <2>2, <2>3, <2>4 DEF GoodMessage
<1>4. CASE pc[n] = "vote"
  <2>1. cand[n] # NoBlock /\ Front(cand[n]) = chain[n]
    BY <1>4 DEF AgreementInv, Links
  <2>2. Outgoing(n) = Vote(n, Height(n), cand[n])
    BY <1>4 DEF Outgoing
  <2>3. Height(n) = Len(cand[n])
    BY <1>2, <2>1, FrontPrefix DEF Height
  <2>4. GoodVote(Vote(n, Height(n), cand[n]))
    BY <2>1, <2>3 DEF GoodVote, Vote, Accepts, Junk, NoBlock
  <2>5. Vote(n, Height(n), cand[n]).kind = "vote"
    BY DEF Vote
  <2> QED
    BY <1>1, <2>2, <2>4, <2>5 DEF GoodMessage
<1>5. CASE pc[n] = "equivocate"
  <2>1. n \in Faultable
    BY <1>5 DEF AgreementInv, Blame
  <2>2. Outgoing(n) = Vote(n, Height(n), Junk)
    BY <1>5 DEF Outgoing
  <2>3. GoodVote(Vote(n, Height(n), Junk))
    BY <2>1 DEF GoodVote, Vote
  <2>4. Vote(n, Height(n), Junk).kind = "vote"
    BY DEF Vote
  <2> QED
    BY <1>1, <2>2, <2>3, <2>4 DEF GoodMessage
<1> QED
  BY <1>3, <1>4, <1>5 DEF Broadcasting

LEMMA StartHeightInv ==
    ASSUME AgreementInv, TypeOK', NEW n \in Nodes, StartHeight(n)
    PROVE  AgreementInv'
<1>0. \/ /\ pc' = [pc EXCEPT ![n] = "propose"]
         /\ \E d : draft' = [draft EXCEPT ![n] = d]
      \/ /\ pc' = [pc EXCEPT ![n] = "candidate"]
         /\ draft' = draft
  BY DEF StartHeight
<1>1. chain' = chain /\ cand' = cand /\ counted' = counted
  BY DEF StartHeight
<1>2. /\ CountedAccept' /\ Certified' /\ Agreement'
      /\ GoodMessage' = GoodMessage
  BY <1>1, SameBlocks
<1>3. Links'
  <2>1. cand[n] = NoBlock
    BY DEF StartHeight, AgreementInv, Links
  <2>2. ASSUME NEW m \in Nodes, m # n
        PROVE  pc'[m] = pc[m] /\ draft'[m] = draft[m]
    BY <1>0, <2>2 DEF AgreementInv, TypeOK
  <2>3. CASE Elected(n) = n
    <3>1. PICK b \in Bondings :
             draft' = [draft EXCEPT ![n] = Append(chain[n], [proposer |-> n, bonded |-> b])]
      BY <2>3 DEF StartHeight
    <3> DEFINE d == Append(chain[n], [proposer |-> n, bonded |-> b])
    <3>2. [proposer |-> n, bonded |-> b] \in Header /\ chain[n] \in Seq(Header)
      BY DEF Header, AgreementInv, TypeOK, Block
    <3>3. d # NoBlock /\ Front(d) = chain[n]
      BY <3>2 DEF Front, NoBlock
    <3>4. draft'[n] = d /\ pc'[n] = "propose"
      BY <2>3, <3>1 DEF StartHeight, AgreementInv, TypeOK
    <3> HIDE DEF d
    <3> QED
      BY <1>1, <2>1, <2>2, <3>3, <3>4 DEF Links, AgreementInv
  <2>4. CASE Elected(n) # n
    <3>1. pc'[n] = "candidate"
      BY <2>4 DEF StartHeight, AgreementInv, TypeOK
    <3> QED
      BY <1>1, <2>1, <2>2, <3>1 DEF Links, AgreementInv
  <2> QED
    BY <2>3, <2>4
<1>4. Messages'
  <2>1. inbox' = inbox /\ pending' = pending /\ seen' = seen
    BY DEF StartHeight, netVars
  <2> QED
    BY <1>2, <2>1 DEF AgreementInv, Messages
<1>5. Blame'
  <2>1. ASSUME NEW m \in Nodes
        PROVE  byz'[m] \/ pc'[m] = "equivocate" => m \in Faultable
    <3>1. byz'[m] => byz[m]
      BY DEF StartHeight, AgreementInv, TypeOK
    <3>2. pc'[m] = "equivocate" => pc[m] = "equivocate"
      BY <1>0 DEF AgreementInv, TypeOK
    <3> QED
      BY <3>1, <3>2 DEF AgreementInv, Blame
  <2>2. ASSUME NEW m \in Nodes, NEW v \in Nodes
        PROVE  v \in slashed'[m] \/ v \in flagged' => v \in Faultable
    <3>1. v \in slashed'[m] => v \in slashed[m]
      BY DEF StartHeight, AgreementInv, TypeOK
    <3>2. v \in flagged' => v \in flagged
      BY DEF StartHeight, Unflagged
    <3> QED
      BY <3>1, <3>2 DEF AgreementInv, Blame
  <2>3. ASSUME NEW m \in Nodes, NEW v \in Nodes
        PROVE  pendingSlash'[m][v] # 0 \/ excluded'[m][v] => v \in Faultable
    <3>1. pendingSlash'[m][v] # 0 => pendingSlash[m][v] # 0
      BY DEF StartHeight, AgreementInv, TypeOK
    <3>2. excluded'[m][v] => excluded[m][v] \/ pendingSlash[m][v] # 0
      <4>1. CASE m = n
        <5>1. excluded'[n] = AfterHeals(n)
          BY DEF StartHeight, AgreementInv, TypeOK
        <5>2. v \in Due(n) => pendingSlash[n][v] # 0
          BY HeightType DEF Due, AgreementInv
        <5> QED
          BY <4>1, <5>1, <5>2 DEF AfterHeals, AfterSlashes
      <4>2. CASE m # n
        BY <4>2 DEF StartHeight, AgreementInv, TypeOK
      <4> QED
        BY <4>1, <4>2
    <3> QED
      BY <3>1, <3>2 DEF AgreementInv, Blame
  <2> QED
    BY <2>1, <2>2, <2>3 DEF Blame
<1>6. NeverHalts'
  BY <1>0 DEF AgreementInv, NeverHalts, TypeOK
<1> QED
  BY <1>2, <1>3, <1>4, <1>5, <1>6 DEF AgreementInv

LEMMA SendInv ==
    ASSUME AgreementInv, TypeOK', NEW n \in Nodes, Send(n)
    PROVE  AgreementInv'
<1>1. chain' = chain /\ cand' = cand /\ counted' = counted
  BY DEF Send
<1>2. /\ CountedAccept' /\ Certified' /\ Agreement'
      /\ GoodMessage' = GoodMessage
  BY <1>1, SameBlocks
<1>3. \/ pc' = pc /\ draft' = draft
      \/ /\ pc' = [pc EXCEPT ![n] = AfterBroadcast(n)]
         /\ draft' = [draft EXCEPT ![n] = NoBlock]
  BY DEF Send
<1>4. /\ pc[n] = "propose" => AfterBroadcast(n) = "candidate"
      /\ pc[n] = "vote" => AfterBroadcast(n) = "voted"
      /\ pc[n] = "equivocate" => AfterBroadcast(n) = "tally"
      /\ pc[n] \in {"propose", "vote", "equivocate"}
  BY DEF Send, Broadcasting, AfterBroadcast
<1>5. Links'
  BY <1>1, <1>3, <1>4 DEF AgreementInv, Links, TypeOK
<1>6. Messages'
  <2>1. Outgoing(n) \in GoodMessage
    BY OutgoingGood DEF Send
  <2>2. to[n] \in Nodes /\ inbox[to[n]] \in Seq(GoodMessage)
    BY DEF AgreementInv, TypeOK, Messages
  <2>3. inbox' = [inbox EXCEPT ![to[n]] = Append(@, Outgoing(n))]
    BY DEF Send
  <2>4. inbox' \in [Nodes -> Seq(GoodMessage)]
    BY <2>1, <2>2, <2>3 DEF AgreementInv, Messages
  <2>5. pending' = pending /\ seen' = seen
    BY DEF Send, faultVars
  <2> QED
    BY <1>2, <2>4, <2>5 DEF AgreementInv, Messages
<1>7. Blame'
  <2>1. UNCHANGED <<byz, slashed, flagged, pendingSlash, excluded>>
    BY DEF Send, faultVars, viewVars
  <2>2. \A m \in Nodes : pc'[m] = "equivocate" => pc[m] = "equivocate"
    BY <1>3, <1>4 DEF AgreementInv, TypeOK
  <2> QED
    BY <2>1, <2>2 DEF AgreementInv, Blame
<1>8. NeverHalts'
  BY <1>3, <1>4 DEF AgreementInv, NeverHalts, TypeOK
<1> QED
  BY <1>2, <1>5, <1>6, <1>7, <1>8 DEF AgreementInv

LEMMA AfterVoteInv ==
    ASSUME AgreementInv, TypeOK', NEW n \in Nodes, AfterVote(n)
    PROVE  AgreementInv'
<1>1. /\ chain' = chain /\ cand' = cand /\ counted' = counted /\ draft' = draft
      /\ UNCHANGED <<inbox, pending, seen, byz, slashed, flagged, pendingSlash, excluded>>
  BY DEF AfterVote, roundVars, netVars, faultVars, viewVars
<1>2. /\ CountedAccept' /\ Certified' /\ Agreement'
      /\ GoodMessage' = GoodMessage
  BY <1>1, SameBlocks
<1>3. /\ pc[n] = "voted"
      /\ pc' = [pc EXCEPT ![n] = IF byz[n] THEN "equivocate" ELSE "tally"]
  BY DEF AfterVote
<1>4. Links'
  BY <1>1, <1>3 DEF AgreementInv, Links, TypeOK
<1>5. Messages'
  BY <1>1, <1>2 DEF AgreementInv, Messages
<1>6. Blame'
  BY <1>1, <1>3 DEF AgreementInv, Blame, TypeOK
<1>7. NeverHalts'
  BY <1>3 DEF AgreementInv, NeverHalts, TypeOK
<1> QED
  BY <1>2, <1>4, <1>5, <1>6, <1>7 DEF AgreementInv

LEMMA CertifiedGrows ==
    ASSUME TypeOK, TypeOK', Links, Grows, NEW S, NEW Q \in SUBSET Nodes,
           NEW b \in Block, b # NoBlock, CertifiedBy(S, Q, b)
    PROVE  CertifiedBy(S, Q, b)'
<1>1. \A v \in Q : Accepts(v, b)'
  BY AcceptsGrows DEF CertifiedBy
<1> QED
  BY <1>1 DEF CertifiedBy

\* The next block of a chain is on top of it: a proposal for the height a node
\* waits for extends its tip.
LEMMA WantedExtends ==
    ASSUME AgreementInv, NEW n \in Nodes, NEW m \in GoodMessage,
           pc[n] = "candidate", Wants(n, m)
    PROVE  m.block # NoBlock /\ Extends(n, m.block)
<1>1. m \in Message /\ m.block \in Block /\ m.from \in Nodes
  BY DEF GoodMessage, Message
<1>2. m.kind = "proposal" /\ m.height = Height(n)
  BY DEF Wants
<1>3. GoodProposal(m)
  BY <1>2 DEF GoodMessage
<1> DEFINE f == Front(m.block)
           c == chain[n]
           d == chain[m.from]
<1>4. /\ m.block # NoBlock /\ f \in Block /\ IsPrefix(f, d)
      /\ Len(m.block) = Len(f) + 1 /\ Len(m.block) = Len(c) + 1
  BY <1>1, <1>2, <1>3, FrontPrefix DEF GoodProposal, Height
<1>5. c \in Block /\ d \in Block
  BY <1>1 DEF AgreementInv, TypeOK
<1>6. IsPrefix(c, d) \/ IsPrefix(d, c)
  BY <1>1 DEF AgreementInv, Agreement
<1>7. Len(f) \in Nat /\ Len(c) \in Nat /\ Len(f) = Len(c)
  BY <1>4, <1>5, BlockType
<1> HIDE DEF f, c, d
<1>8. IsPrefix(c, d) => f = c
  BY <1>4, <1>5, <1>7, OneBelow
<1>9. ASSUME IsPrefix(d, c) PROVE f = c
  <2>1. IsPrefix(f, c) /\ IsPrefix(c, c)
    BY <1>4, <1>5, <1>9, PrefixOrder
  <2> QED
    BY <1>4, <1>5, <1>7, <2>1, OneBelow
<1>10. f = c
  BY <1>6, <1>8, <1>9
<1> QED
  BY <1>4, <1>10 DEF Extends, f, c

\* What taking a message leaves of the invariant's parts about blocks.
LEMMA TakeInv ==
    ASSUME AgreementInv, TypeOK', NEW n \in Nodes, NEW m \in GoodMessage,
           Wants(n, m), Take(n, m), chain' = chain, draft' = draft
    PROVE  /\ Links' /\ CountedAccept' /\ Certified' /\ Agreement' /\ NeverHalts'
           /\ GoodMessage \subseteq GoodMessage'
           /\ \A k \in Nodes : pc'[k] = "equivocate" => pc[k] = "equivocate"
<1>1. \/ /\ pc[n] = "candidate" /\ Extends(n, m.block) /\ m.block # NoBlock
         /\ cand' = [cand EXCEPT ![n] = m.block]
         /\ pc' = [pc EXCEPT ![n] = "vote"]
         /\ counted' = counted
      \/ /\ pc[n] = "tally" /\ m.block = cand[n]
         /\ counted' = [counted EXCEPT ![n] = @ \cup {m.from}]
         /\ pc' = pc /\ cand' = cand
         /\ m.kind = "vote"
  BY WantedExtends DEF Take, Wants
<1>2. /\ TypeOK /\ Links
      /\ pc[n] = "candidate" => cand[n] = NoBlock
      /\ pc[n] = "tally" => cand[n] # NoBlock
  BY DEF AgreementInv, Links
<1>3. Grows
  BY <1>1, <1>2 DEF Grows, TypeOK
<1>4. Links'
  <2>1. CASE pc[n] = "candidate"
    <3>1. /\ Front(m.block) = chain[n] /\ m.block # NoBlock
          /\ cand' = [cand EXCEPT ![n] = m.block]
          /\ pc' = [pc EXCEPT ![n] = "vote"]
      BY <1>1, <2>1 DEF Extends
    <3> QED
      BY <1>2, <3>1 DEF Links, TypeOK
  <2>2. CASE pc[n] = "tally"
    BY <1>1, <1>2, <2>2 DEF Links
  <2> QED
    BY <1>1, <2>1, <2>2
<1>5. Certified'
  <2>1. SUFFICES ASSUME NEW k \in Nodes, NEW i \in (Len(Replayed) + 1)..Len(chain[k])
                 PROVE  \E S \in SUBSET Faultable, Q \in SUBSET Nodes :
                            CertifiedBy(S, Q, SubSeq(chain[k], 1, i))'
    BY DEF AgreementInv, Certified
  <2>2. PICK S \in SUBSET Faultable, Q \in SUBSET Nodes :
               CertifiedBy(S, Q, SubSeq(chain[k], 1, i))
    BY DEF AgreementInv, Certified
  <2>3. chain[k] \in Block /\ i \in 1..Len(chain[k])
    <3>1. chain[k] \in Block /\ Len(Replayed) \in Nat /\ Len(chain[k]) \in Nat
      BY BlockType, ReplayedAssumption DEF AgreementInv, TypeOK
    <3> QED
      BY <3>1
  <2> DEFINE b == SubSeq(chain[k], 1, i)
  <2>4. b \in Block /\ b # NoBlock
    BY <2>3, Below
  <2>5. b' = b
    OBVIOUS
  <2>6. CertifiedBy(S, Q, b)
    BY <2>2
  <2> HIDE DEF b
  <2>7. CertifiedBy(S, Q, b)'
    BY <1>2, <1>3, <2>4, <2>5, <2>6, CertifiedGrows
  <2> QED
    BY <2>7 DEF b
<1>6. Agreement'
  BY DEF AgreementInv, Agreement
<1>7. GoodMessage \subseteq GoodMessage'
  BY <1>2, <1>3, MessagesGrow
<1>8. CountedAccept'
  <2>1. SUFFICES ASSUME NEW k \in Nodes, NEW v \in counted'[k]
                 PROVE  cand'[k] # NoBlock /\ Accepts(v, cand[k])'
    BY DEF CountedAccept
  <2>2. v \in Nodes /\ cand[k] \in Block
    BY <1>2 DEF TypeOK
  <2>3. CASE v \in counted[k]
    <3>1. cand[k] # NoBlock /\ Accepts(v, cand[k])
      BY <2>3 DEF AgreementInv, CountedAccept
    <3>2. cand'[k] = cand[k]
      BY <1>1, <1>2, <3>1 DEF TypeOK
    <3> DEFINE b == cand[k]
    <3>3. b \in Block /\ b # NoBlock /\ Accepts(v, b) /\ cand'[k] = b
      BY <2>2, <3>1, <3>2
    <3> QED
      BY <1>2, <1>3, <2>2, <3>3, AcceptsGrows DEF Accepts
  <2>4. CASE v \notin counted[k]
    <3>0. /\ pc[n] = "tally" /\ cand' = cand /\ m.block = cand[n] /\ m.kind = "vote"
          /\ counted' = [counted EXCEPT ![n] = @ \cup {m.from}]
      BY <1>1, <2>4
    <3>1. k = n /\ v = m.from
      BY <1>2, <2>4, <3>0 DEF TypeOK
    <3>2. m.kind = "vote" /\ pc[n] = "tally" /\ m.block = cand[n] /\ cand' = cand
      BY <3>0
    <3>3. cand[n] # NoBlock /\ Accepts(v, cand[n])
      BY <1>2, <3>1, <3>2 DEF GoodMessage, GoodVote, Junk, NoBlock
    <3> QED
      BY <3>1, <3>2, <3>3 DEF Accepts
  <2> QED
    BY <2>3, <2>4
<1>9. NeverHalts'
  BY <1>1, <1>2 DEF AgreementInv, NeverHalts, TypeOK
<1>10. \A k \in Nodes : pc'[k] = "equivocate" => pc[k] = "equivocate"
  BY <1>1, <1>2 DEF TypeOK
<1> QED
  BY <1>4, <1>5, <1>6, <1>7, <1>8, <1>9, <1>10

\* Good messages stay good where they are.
LEMMA MessagesKept ==
    ASSUME GoodMessage \subseteq GoodMessage',
           inbox' \in [Nodes -> Seq(GoodMessage)],
           pending' \in [Nodes -> Seq(GoodMessage)],
           seen' \in [Nodes -> SUBSET {m \in GoodMessage : m.kind = "vote"}]
    PROVE  Messages'
<1>1. Seq(GoodMessage) \subseteq Seq(GoodMessage')
  BY SeqMonotone
<1>2. inbox' \in [Nodes -> Seq(GoodMessage')] /\ pending' \in [Nodes -> Seq(GoodMessage')]
  BY <1>1
<1>3. seen' \in [Nodes -> SUBSET {m \in GoodMessage' : m.kind = "vote"}]
  OBVIOUS
<1> QED
  BY <1>2, <1>3 DEF Messages

LEMMA TakeStashedInv ==
    ASSUME AgreementInv, TypeOK', NEW n \in Nodes, TakeStashed(n)
    PROVE  AgreementInv'
<1>1. PICK i \in Fitting(n) : /\ pending' = [pending EXCEPT ![n] = RemoveAt(@, i)]
                              /\ Take(n, pending[n][i])
  BY DEF TakeStashed
<1>2. /\ chain' = chain /\ draft' = draft
      /\ UNCHANGED <<inbox, seen, byz, slashed, flagged, pendingSlash, excluded>>
  BY DEF TakeStashed, faultVars, viewVars
<1>3. /\ pending[n] \in Seq(GoodMessage) /\ i \in DOMAIN pending[n]
      /\ Wants(n, pending[n][i])
  BY DEF AgreementInv, Messages, Fitting
<1>4. RemoveAt(pending[n], i) \in Seq(GoodMessage) /\ pending[n][i] \in GoodMessage
  BY <1>3, RemoveAtSeq
<1>5. /\ Links' /\ CountedAccept' /\ Certified' /\ Agreement' /\ NeverHalts'
      /\ GoodMessage \subseteq GoodMessage'
      /\ \A k \in Nodes : pc'[k] = "equivocate" => pc[k] = "equivocate"
  BY <1>1, <1>2, <1>3, <1>4, TakeInv
<1>6. Messages'
  <2>1. pending' \in [Nodes -> Seq(GoodMessage)]
    BY <1>1, <1>4 DEF AgreementInv, Messages
  <2> QED
    BY <1>2, <1>5, <2>1, MessagesKept DEF AgreementInv, Messages
<1>7. Blame'
  BY <1>2, <1>5 DEF AgreementInv, Blame
<1> QED
  BY <1>5, <1>6, <1>7 DEF AgreementInv

\* Nobody is blamed who could not be made faulty: the two conflicting votes of
\* an equivocation cannot both be for blocks their voter accepts.
LEMMA BlamedIsFaultable ==
    ASSUME AgreementInv, NEW n \in Nodes, NEW m \in GoodMessage, Equivocation(n, m)
    PROVE  m.from \in Faultable
<1>1. PICK v \in seen[n] : v.height = m.height /\ v.from = m.from /\ v.block # m.block
  BY DEF Equivocation, FirstVotes
<1>2. v \in GoodMessage /\ v.kind = "vote" /\ m.kind = "vote"
  BY DEF AgreementInv, Messages, Equivocation
<1>3. /\ m.from \in Nodes /\ m.block \in Block /\ v.block \in Block
      /\ GoodVote(m) /\ GoodVote(v)
  BY <1>2 DEF GoodMessage, Message
<1>4. CASE m.block = Junk \/ v.block = Junk
  BY <1>1, <1>3, <1>4 DEF GoodVote
<1>5. CASE m.block # Junk /\ v.block # Junk
  <2>1. /\ Accepts(m.from, m.block) /\ Accepts(m.from, v.block)
        /\ Len(m.block) = Len(v.block)
        /\ m.block # NoBlock /\ v.block # NoBlock
    BY <1>1, <1>3, <1>5 DEF GoodVote, Junk, NoBlock
  <2>2. m.block = v.block
    BY <1>3, <2>1, AcceptsOnce DEF AgreementInv
  <2> QED
    BY <1>1, <2>2
<1> QED
  BY <1>4, <1>5

LEMMA ObserveInv ==
    ASSUME AgreementInv, NEW n \in Nodes, NEW m \in GoodMessage, Observe(n, m)
    PROVE  /\ seen' \in [Nodes -> SUBSET {v \in GoodMessage : v.kind = "vote"}]
           /\ \A k, v \in Nodes :
                /\ v \in slashed'[k] \/ v \in flagged' => v \in Faultable
                /\ pendingSlash'[k][v] # 0 => v \in Faultable
<1>1. seen' \in [Nodes -> SUBSET {v \in GoodMessage : v.kind = "vote"}]
  <2>1. \/ seen' = [seen EXCEPT ![n] = @]
        \/ m.kind = "vote" /\ seen' = [seen EXCEPT ![n] = @ \cup {m}]
    BY DEF Observe
  <2> QED
    BY <2>1 DEF AgreementInv, Messages
<1>2. ASSUME NEW k \in Nodes, NEW v \in Nodes
      PROVE  /\ v \in slashed'[k] \/ v \in flagged' => v \in Faultable
             /\ pendingSlash'[k][v] # 0 => v \in Faultable
  <2>1. /\ v \in slashed[k] \/ v \in flagged => v \in Faultable
        /\ pendingSlash[k][v] # 0 => v \in Faultable
    BY DEF AgreementInv, Blame
  <2>2. CASE Equivocation(n, m)
    <3>1. m.from \in Faultable /\ m.from \in Nodes
      BY <2>2, BlamedIsFaultable, FaultableAssumption
    <3>2. /\ slashed' = [slashed EXCEPT ![n] = @ \cup {m.from}]
          /\ pendingSlash' = [pendingSlash EXCEPT ![n][m.from] = m.height + SlashDelay]
          /\ flagged' = flagged \cup {m.from}
      BY <2>2 DEF Observe
    <3>3. v \in slashed'[k] => v \in slashed[k] \/ v = m.from
      BY <3>2 DEF AgreementInv, TypeOK
    <3>4. v # m.from => pendingSlash'[k][v] = pendingSlash[k][v]
      BY <3>1, <3>2 DEF AgreementInv, TypeOK
    <3> QED
      BY <2>1, <3>1, <3>2, <3>3, <3>4
  <2>3. CASE ~Equivocation(n, m)
    BY <2>1, <2>3 DEF Observe
  <2> QED
    BY <2>2, <2>3
<1> QED
  BY <1>1, <1>2

LEMMA ReceiveInv ==
    ASSUME AgreementInv, TypeOK', NEW n \in Nodes, Receive(n)
    PROVE  AgreementInv'
<1> DEFINE m == Head(inbox[n])
<1>1. /\ inbox[n] \in Seq(GoodMessage) /\ inbox[n] # <<>>
      /\ inbox' = [inbox EXCEPT ![n] = Tail(@)]
      /\ Observe(n, m)
      /\ chain' = chain /\ draft' = draft /\ byz' = byz /\ excluded' = excluded
  BY DEF Receive, AgreementInv, Messages, viewVars
<1>2. m \in GoodMessage /\ Tail(inbox[n]) \in Seq(GoodMessage)
  BY <1>1, HeadTailSeq
<1>3. \/ Wants(n, m) /\ Take(n, m) /\ pending' = pending
      \/ /\ pending' = [pending EXCEPT ![n] = Append(@, m)]
         /\ pc' = pc /\ cand' = cand /\ counted' = counted
  BY DEF Receive
<1> HIDE DEF m
<1>4. /\ Links' /\ CountedAccept' /\ Certified' /\ Agreement' /\ NeverHalts'
      /\ GoodMessage \subseteq GoodMessage'
      /\ \A k \in Nodes : pc'[k] = "equivocate" => pc[k] = "equivocate"
  <2>1. CASE Wants(n, m) /\ Take(n, m)
    BY <1>1, <1>2, <2>1, TakeInv
  <2>2. CASE pc' = pc /\ cand' = cand /\ counted' = counted
    <3>1. CountedAccept' /\ Certified' /\ Agreement' /\ GoodMessage' = GoodMessage
      BY <1>1, <2>2, SameBlocks
    <3>2. Links'
      BY <1>1, <2>2 DEF AgreementInv, Links
    <3>3. NeverHalts'
      BY <2>2 DEF AgreementInv, NeverHalts
    <3> QED
      BY <2>2, <3>1, <3>2, <3>3
  <2> QED
    BY <1>3, <2>1, <2>2
<1>5. Messages'
  <2>1. inbox' \in [Nodes -> Seq(GoodMessage)]
    BY <1>1, <1>2 DEF AgreementInv, Messages
  <2>2. pending' \in [Nodes -> Seq(GoodMessage)]
    <3>1. pending \in [Nodes -> Seq(GoodMessage)]
      BY DEF AgreementInv, Messages
    <3>2. Append(pending[n], m) \in Seq(GoodMessage)
      BY <1>2, <3>1
    <3>3. pending' = pending \/ pending' = [pending EXCEPT ![n] = Append(@, m)]
      BY <1>3
    <3> QED
      BY <3>1, <3>2, <3>3
  <2>3. seen' \in [Nodes -> SUBSET {v \in GoodMessage : v.kind = "vote"}]
    BY <1>1, <1>2, ObserveInv
  <2> QED
    BY <1>4, <2>1, <2>2, <2>3, MessagesKept
<1>6. Blame'
  <2>1. \A k, v \in Nodes :
            /\ v \in slashed'[k] \/ v \in flagged' => v \in Faultable
            /\ pendingSlash'[k][v] # 0 => v \in Faultable
    BY <1>1, <1>2, ObserveInv
  <2> QED
    BY <1>1, <1>4, <2>1 DEF AgreementInv, Blame
<1> QED
  BY <1>4, <1>5, <1>6 DEF AgreementInv

-----------------------------------------------------------------------------
(***************************************************************************)
(* The commit.  The faulty validators never hold more than half of the     *)
(* weight, slashed or not and whatever is delegated to whom: then the      *)
(* quorums of any two views on top of the same block share a voter.        *)
(***************************************************************************)

Weights(bonded) == [v \in Nodes |-> Stake[v] + bonded[v]]

FaultyMinority ==
    \A bonded \in Bondings \cup {[v \in Nodes |-> 0]} :
        2 * Power(Weights(bonded), Faultable) <= Total(Weights(bonded))

LEMMA BondedTally ==
    ASSUME NEW b \in Block
    PROVE  /\ Bonded(b) \in Bondings \cup {[v \in Nodes |-> 0]}
           /\ Bonded(b) \in [Nodes -> Nat]
<1>1. CASE b = <<>>
  BY <1>1 DEF Bonded
<1>2. CASE b # <<>>
  <2>1. Last(b) \in Header
    BY <1>2, FrontOf DEF Block
  <2> QED
    BY <1>2, <2>1, BondingsAssumption DEF Bonded, Header
<1> QED
  BY <1>1, <1>2

\* Two blocks on top of the same one that were certified by quorums are equal.
LEMMA CertifiedOnce ==
    ASSUME FaultyMinority, TypeOK, Links,
           NEW b \in Block, NEW c \in Block, b # NoBlock, c # NoBlock,
           Front(b) = Front(c),
           NEW S \in SUBSET Faultable, NEW Q \in SUBSET Nodes, CertifiedBy(S, Q, b),
           NEW T \in SUBSET Faultable, NEW R \in SUBSET Nodes, CertifiedBy(T, R, c)
    PROVE  b = c
<1> DEFINE w == Weights(Bonded(Front(b)))
<1>1. Front(b) \in Block /\ Len(b) = Len(c)
  BY FrontPrefix
<1>2. Bonded(Front(b)) \in [Nodes -> Nat]
  BY <1>1, BondedTally
<1>3. w \in [Nodes -> Nat]
  BY <1>2, StakeAssumption DEF Weights
<1>4. 2 * Power(w, Faultable) <= Total(w)
  BY <1>1, BondedTally DEF FaultyMinority
<1>5. \A X \in SUBSET Faultable :
        Effective([v \in Nodes |-> v \in X], Bonded(Front(b))) = Without(w, X)
  BY DEF Effective, Without, Weights
<1> HIDE DEF w
<1>6. Quorum(Without(w, S), Q) /\ Quorum(Without(w, T), R)
  BY <1>5 DEF CertifiedBy
<1>7. Q \cap R # {}
  BY <1>3, <1>4, <1>6, FaultableAssumption, QuorumsMeet
<1>8. PICK v \in Nodes : v \in Q /\ v \in R
  BY <1>7
<1>9. Accepts(v, b) /\ Accepts(v, c)
  BY <1>8 DEF CertifiedBy
<1> QED
  BY <1>1, <1>9, AcceptsOnce

\* What a node commits was accepted by a quorum of its own view.
LEMMA AcceptedIsCertified ==
    ASSUME AgreementInv, NEW n \in Nodes, pc[n] = "tally", Accepted(n)
    PROVE  /\ cand[n] # NoBlock /\ cand[n] \in Block
           /\ chain[n] \in Block /\ Front(cand[n]) = chain[n]
           /\ \E S \in SUBSET Faultable, Q \in SUBSET Nodes : CertifiedBy(S, Q, cand[n])
<1>1. /\ cand[n] # NoBlock /\ cand[n] \in Block
      /\ chain[n] \in Block /\ Front(cand[n]) = chain[n]
  BY DEF AgreementInv, TypeOK, Links
<1> DEFINE S == {v \in Nodes : excluded[n][v]}
<1>2. S \in SUBSET Faultable
  BY DEF AgreementInv, Blame
<1>3. counted[n] \in SUBSET Nodes
  BY DEF AgreementInv, TypeOK
<1>4. \A v \in counted[n] : Accepts(v, cand[n])
  BY DEF AgreementInv, CountedAccept
<1>5. Effective([v \in Nodes |-> v \in S], Bonded(chain[n])) = Weight(n)
  BY DEF Effective, Weight, Synced
<1>6. Quorum(Effective([v \in Nodes |-> v \in S], Bonded(Front(cand[n]))), counted[n])
  BY <1>1, <1>5 DEF Accepted
<1> QED
  BY <1>1, <1>2, <1>3, <1>4, <1>6 DEF CertifiedBy

LEMMA CommitAgrees ==
    ASSUME FaultyMinority, AgreementInv, NEW n \in Nodes, pc[n] = "tally", Accepted(n),
           NEW m \in Nodes
    PROVE  IsPrefix(chain[m], cand[n]) \/ IsPrefix(cand[n], chain[m])
<1> DEFINE b == cand[n]
           t == chain[n]
           d == chain[m]
<1>1. b # NoBlock /\ b \in Block /\ t \in Block /\ Front(b) = t /\ d \in Block
  BY AcceptedIsCertified DEF AgreementInv, TypeOK
<1>2. Len(b) = Len(t) + 1 /\ IsPrefix(t, b)
  BY <1>1, FrontPrefix
<1>3. PICK S \in SUBSET Faultable, Q \in SUBSET Nodes : CertifiedBy(S, Q, b)
  BY AcceptedIsCertified
<1>4. IsPrefix(t, d) \/ IsPrefix(d, t)
  BY DEF AgreementInv, Agreement
<1>5. Len(t) \in Nat /\ Len(d) \in Nat /\ Len(Replayed) \in Nat
  BY <1>1, BlockType, ReplayedAssumption
<1>6. Len(Replayed) <= Len(t)
  <2>1. IsPrefix(Replayed, t)
    BY DEF AgreementInv, Certified
  <2> QED
    BY <1>1, <2>1, PrefixDef, ReplayedAssumption
<1>7. Len(t) + 1 \in (Len(Replayed) + 1)..Len(d) =>
        \E T \in SUBSET Faultable, R \in SUBSET Nodes :
            CertifiedBy(T, R, SubSeq(d, 1, Len(t) + 1))
  BY DEF AgreementInv, Certified
<1> HIDE DEF b, t, d
<1>8. ASSUME IsPrefix(t, d), Len(t) < Len(d)
      PROVE  IsPrefix(b, d)
  <2> DEFINE k == Len(t) + 1
             c == SubSeq(d, 1, k)
  <2>1. k \in 1..Len(d) /\ k \in (Len(Replayed) + 1)..Len(d)
    BY <1>5, <1>6, <1>8
  <2>2. PICK T \in SUBSET Faultable, R \in SUBSET Nodes : CertifiedBy(T, R, c)
    BY <1>7, <2>1
  <2>3. c \in Block /\ c # NoBlock /\ Len(c) = k /\ IsPrefix(c, d)
    BY <1>1, <2>1, Below
  <2> HIDE DEF c
  <2>4. Front(c) \in Block /\ Len(Front(c)) = Len(t) /\ IsPrefix(Front(c), d)
    <3>1. Front(c) \in Block /\ Len(c) = Len(Front(c)) + 1 /\ IsPrefix(Front(c), c)
      BY <2>3, FrontPrefix
    <3>2. IsPrefix(Front(c), d)
      BY <1>1, <2>3, <3>1, PrefixOrder
    <3>3. Len(Front(c)) \in Nat
      BY <3>1, BlockType
    <3> QED
      BY <1>5, <2>3, <3>1, <3>2, <3>3
  <2>5. Front(c) = t
    BY <1>1, <1>8, <2>4, OneBelow
  <2>6. c = b
    BY <1>1, <1>3, <2>2, <2>3, <2>5, CertifiedOnce DEF AgreementInv
  <2> QED
    BY <2>3, <2>6
<1>9. ASSUME IsPrefix(t, d), Len(d) <= Len(t)
      PROVE  IsPrefix(d, b)
  BY <1>1, <1>2, <1>5, <1>9, PrefixOrder
<1>10. ASSUME IsPrefix(d, t)
       PROVE  IsPrefix(d, b)
  BY <1>1, <1>2, <1>10, PrefixOrder
<1>11. IsPrefix(d, b) \/ IsPrefix(b, d)
  BY <1>4, <1>5, <1>8, <1>9, <1>10
<1> QED
  BY <1>11 DEF b, d

LEMMA CommitInv ==
    ASSUME FaultyMinority, AgreementInv, TypeOK', NEW n \in Nodes, Commit(n)
    PROVE  AgreementInv'
<1>1. /\ pc[n] = "tally" /\ Accepted(n)
      /\ chain' = [chain EXCEPT ![n] = cand[n]]
      /\ cand' = [cand EXCEPT ![n] = NoBlock]
      /\ counted' = [counted EXCEPT ![n] = {}]
      /\ pending' = [pending EXCEPT ![n] = Undecided(@, Height(n))]
      /\ \E X : seen' = [seen EXCEPT ![n] = {v \in @ : v.height > X}]
      /\ \E p \in {"height", "done"} : pc' = [pc EXCEPT ![n] = p]
      /\ UNCHANGED <<draft, inbox, byz, slashed, flagged, pendingSlash, excluded>>
  BY DEF Commit, viewVars
<1>2. /\ cand[n] # NoBlock /\ cand[n] \in Block /\ Front(cand[n]) = chain[n]
      /\ \E S \in SUBSET Faultable, Q \in SUBSET Nodes : CertifiedBy(S, Q, cand[n])
  BY <1>1, AcceptedIsCertified
<1>3. TypeOK /\ Links
  BY DEF AgreementInv
<1>4. /\ chain'[n] = cand[n] /\ cand'[n] = NoBlock /\ counted'[n] = {}
      /\ pc'[n] \in {"height", "done"}
      /\ \A k \in Nodes \ {n} : /\ chain'[k] = chain[k] /\ cand'[k] = cand[k]
                               /\ counted'[k] = counted[k] /\ pc'[k] = pc[k]
  BY <1>1, <1>3 DEF TypeOK
<1>5. Grows
  BY <1>2, <1>4 DEF Grows
<1>6. Links'
  BY <1>1, <1>3, <1>4 DEF Links
<1>7. Messages'
  <2>1. pending[n] \in Seq(GoodMessage)
    BY DEF AgreementInv, Messages
  <2>2. Undecided(pending[n], Height(n)) \in Seq(GoodMessage)
    BY <2>1, UndecidedSeq
  <2>3. pending' \in [Nodes -> Seq(GoodMessage)]
    BY <1>1, <2>2 DEF AgreementInv, Messages
  <2>4. seen' \in [Nodes -> SUBSET {m \in GoodMessage : m.kind = "vote"}]
    BY <1>1 DEF AgreementInv, Messages
  <2>5. inbox' \in [Nodes -> Seq(GoodMessage)]
    BY <1>1 DEF AgreementInv, Messages
  <2>6. GoodMessage \subseteq GoodMessage'
    BY <1>3, <1>5, MessagesGrow
  <2> QED
    BY <2>3, <2>4, <2>5, <2>6, MessagesKept
<1>8. CountedAccept'
  <2>1. SUFFICES ASSUME NEW k \in Nodes, NEW v \in counted'[k]
                 PROVE  cand'[k] # NoBlock /\ Accepts(v, cand[k])'
    BY DEF CountedAccept
  <2>2. k # n /\ v \in counted[k] /\ cand'[k] = cand[k]
    BY <1>4
  <2>3. cand[k] # NoBlock /\ Accepts(v, cand[k]) /\ cand[k] \in Block /\ v \in Nodes
    BY <1>3, <2>2 DEF AgreementInv, CountedAccept, TypeOK
  <2> DEFINE b == cand[k]
  <2>4. b # NoBlock /\ Accepts(v, b) /\ b \in Block /\ cand'[k] = b
    BY <2>2, <2>3
  <2> QED
    BY <1>3, <1>5, <2>3, <2>4, AcceptsGrows DEF Accepts
<1>9. Certified'
  <2>1. \A b \in Block : \A S \in SUBSET Faultable, Q \in SUBSET Nodes :
            b # NoBlock /\ CertifiedBy(S, Q, b) => CertifiedBy(S, Q, b)'
    BY <1>3, <1>5, CertifiedGrows
  <2>2. ASSUME NEW k \in Nodes PROVE IsPrefix(Replayed, chain'[k])
    <3>1. IsPrefix(Replayed, chain[k]) /\ IsPrefix(chain[k], chain'[k])
      BY <1>3, <1>5, ChainGrows DEF AgreementInv, Certified
    <3>2. chain[k] \in Block /\ chain'[k] \in Block
      BY DEF AgreementInv, TypeOK
    <3> QED
      BY <3>1, <3>2, PrefixOrder, ReplayedAssumption
  <2>3. ASSUME NEW k \in Nodes, NEW i \in (Len(Replayed) + 1)..Len(chain'[k])
        PROVE  \E S \in SUBSET Faultable, Q \in SUBSET Nodes :
                    CertifiedBy(S, Q, SubSeq(chain[k], 1, i))'
    <3> DEFINE b == SubSeq(chain'[k], 1, i)
    <3>1. /\ chain[k] \in Block /\ chain'[k] \in Block
          /\ Len(chain[k]) \in Nat /\ Len(chain'[k]) \in Nat /\ Len(Replayed) \in Nat
      BY BlockType, ReplayedAssumption DEF AgreementInv, TypeOK
    <3>2. i \in 1..Len(chain'[k])
      BY <3>1
    <3>3. b \in Block /\ b # NoBlock /\ Len(b) = i /\ IsPrefix(b, chain'[k])
      BY <3>1, <3>2, Below
    <3>4. CASE i \in (Len(Replayed) + 1)..Len(chain[k])
      <4> DEFINE c == SubSeq(chain[k], 1, i)
      <4>1. i \in 1..Len(chain[k])
        BY <3>1, <3>4
      <4>2. c \in Block /\ c # NoBlock /\ Len(c) = i /\ IsPrefix(c, chain[k])
        BY <3>1, <4>1, Below
      <4>3. IsPrefix(chain[k], chain'[k])
        BY <1>3, <1>5, ChainGrows
      <4>4. PICK S \in SUBSET Faultable, Q \in SUBSET Nodes : CertifiedBy(S, Q, c)
        BY <3>4 DEF AgreementInv, Certified
      <4> HIDE DEF b, c
      <4>5. IsPrefix(c, chain'[k])
        BY <3>1, <4>2, <4>3, PrefixOrder
      <4>6. b = c
        BY <3>1, <3>3, <4>2, <4>5, OneBelow
      <4>7. PICK x \in Block : x = c
        BY <4>2
      <4>8. x # NoBlock /\ CertifiedBy(S, Q, x)
        BY <4>2, <4>4, <4>7
      <4>9. CertifiedBy(S, Q, x)'
        BY <2>1, <4>8
      <4>10. x = SubSeq(chain'[k], 1, i)
        BY <4>6, <4>7 DEF b
      <4> QED
        BY <4>9, <4>10 DEF CertifiedBy, Accepts
    <3>5. CASE i \notin (Len(Replayed) + 1)..Len(chain[k])
      <4>1. k = n
        BY <1>4, <3>5
      <4>2. chain'[k] = cand[n] /\ Len(cand[n]) = Len(chain[n]) + 1
        BY <1>2, <1>4, <4>1, FrontPrefix
      <4>3. i = Len(chain'[k])
        BY <3>1, <3>5, <4>1, <4>2
      <4>4. IsPrefix(chain'[k], chain'[k])
        BY <3>1, PrefixOrder
      <4> HIDE DEF b
      <4>5. b = cand[n]
        BY <3>1, <3>3, <4>2, <4>3, <4>4, OneBelow
      <4>6. PICK S \in SUBSET Faultable, Q \in SUBSET Nodes : CertifiedBy(S, Q, b)
        BY <1>2, <4>5
      <4> QED
        BY <2>1, <3>3, <4>6 DEF b, CertifiedBy, Accepts
    <3> QED
      BY <3>4, <3>5
  <2> QED
    BY <2>2, <2>3 DEF Certified
<1>10. Agreement'
  <2>1. SUFFICES ASSUME NEW k \in Nodes, NEW m \in Nodes
                 PROVE  IsPrefix(chain'[k], chain'[m]) \/ IsPrefix(chain'[m], chain'[k])
    BY DEF Agreement
  <2>2. CASE k # n /\ m # n
    BY <1>4, <2>2 DEF AgreementInv, Agreement
  <2>3. CASE k = n /\ m # n
    BY <1>1, <1>4, <2>3, CommitAgrees
  <2>4. CASE k # n /\ m = n
    BY <1>1, <1>4, <2>4, CommitAgrees
  <2>5. CASE k = n /\ m = n
    BY <1>2, <1>4, <2>5, PrefixOrder
  <2> QED
    BY <2>2, <2>3, <2>4, <2>5
<1>11. Blame'
  BY <1>1, <1>4 DEF AgreementInv, Blame
<1>12. NeverHalts'
  BY <1>4 DEF AgreementInv, NeverHalts
<1> QED
  BY <1>6, <1>7, <1>8, <1>9, <1>10, <1>11, <1>12 DEF AgreementInv

-----------------------------------------------------------------------------
LEMMA AgreementInit == Init => AgreementInv
<1> SUFFICES ASSUME Init PROVE AgreementInv
  OBVIOUS
<1>1. TypeOK
  BY TypeInit
<1>2. Links
  BY DEF Init, Links, NoBlock
<1>3. Messages
  BY DEF Init, Messages
<1>4. CountedAccept
  BY DEF Init, CountedAccept
<1>5. Blame
  BY DEF Init, Blame
<1>6. IsPrefix(Replayed, Replayed) /\ Len(Replayed) \in Nat
  BY PrefixOrder, BlockType, ReplayedAssumption
<1>7. Certified
  BY <1>6 DEF Init, Certified
<1>8. Agreement
  BY <1>6 DEF Init, Agreement
<1>9. NeverHalts
  BY DEF Init, NeverHalts
<1> QED
  BY <1>1, <1>2, <1>3, <1>4, <1>5, <1>7, <1>8, <1>9 DEF AgreementInv

\* The steps that touch neither a block nor a message.
LEMMA IdleInv ==
    ASSUME AgreementInv, TypeOK',
           chain' = chain, cand' = cand, counted' = counted, draft' = draft,
           UNCHANGED <<inbox, pending, seen, slashed, flagged, pendingSlash, excluded>>,
           \A k \in Nodes : byz'[k] => byz[k] \/ k \in Faultable,
           \A k \in Nodes : pc'[k] = pc[k] \/ pc'[k] \in {"stopped", "crashed"}
    PROVE  AgreementInv'
<1>1. CountedAccept' /\ Certified' /\ Agreement' /\ GoodMessage' = GoodMessage
  BY SameBlocks
<1>2. Links'
  BY DEF AgreementInv, Links
<1>3. Messages'
  BY <1>1 DEF AgreementInv, Messages
<1>4. Blame'
  BY DEF AgreementInv, Blame
<1>5. NeverHalts'
  BY DEF AgreementInv, NeverHalts
<1> QED
  BY <1>1, <1>2, <1>3, <1>4, <1>5 DEF AgreementInv

LEMMA AgreementStep ==
    ASSUME FaultyMinority, AgreementInv, [Next]_vars
    PROVE  AgreementInv'
<1>1. TypeOK
  BY DEF AgreementInv
<1>2. TypeOK'
  BY <1>1, TypeStep
<1>3. ASSUME NEW n \in Nodes, StartHeight(n) PROVE AgreementInv'
  BY <1>2, <1>3, StartHeightInv
<1>4. ASSUME NEW n \in Nodes, Send(n) PROVE AgreementInv'
  BY <1>2, <1>4, SendInv
<1>5. ASSUME NEW n \in Nodes, AfterVote(n) PROVE AgreementInv'
  BY <1>2, <1>5, AfterVoteInv
<1>6. ASSUME NEW n \in Nodes, TakeStashed(n) PROVE AgreementInv'
  BY <1>2, <1>6, TakeStashedInv
<1>7. ASSUME NEW n \in Nodes, Receive(n) PROVE AgreementInv'
  BY <1>2, <1>7, ReceiveInv
<1>8. ASSUME NEW n \in Nodes, Commit(n) PROVE AgreementInv'
  BY <1>2, <1>8, CommitInv
<1>9. ASSUME NEW n \in Nodes, NoProposer(n) PROVE AgreementInv'
  <2>1. \A k \in Nodes : pc'[k] = "crashed"
    BY <1>9 DEF NoProposer
  <2> QED
    BY <1>2, <1>9, <2>1, IdleInv DEF NoProposer, netVars, roundVars, faultVars, viewVars
<1>10. ASSUME NEW n \in Nodes, Stop(n) PROVE AgreementInv'
  <2>1. \A k \in Nodes : pc'[k] = pc[k] \/ pc'[k] = "stopped"
    BY <1>1, <1>10 DEF Stop, TypeOK
  <2> QED
    BY <1>2, <1>10, <2>1, IdleInv DEF Stop, netVars, roundVars, faultVars, viewVars
<1>11. ASSUME NEW n \in Nodes, MakeFaulty(n) PROVE AgreementInv'
  <2>1. \A k \in Nodes : byz'[k] => byz[k] \/ k \in Faultable
    BY <1>1, <1>11 DEF MakeFaulty, TypeOK
  <2> QED
    BY <1>2, <1>11, <2>1, IdleInv DEF MakeFaulty, netVars, roundVars, faultVars, viewVars
<1>12. ASSUME Cancel PROVE AgreementInv'
  BY <1>2, <1>12, IdleInv DEF Cancel, netVars, roundVars, faultVars, viewVars
<1>13. ASSUME UNCHANGED vars PROVE AgreementInv'
  BY <1>2, <1>13, IdleInv DEF vars, netVars, roundVars, faultVars, viewVars
<1> QED
  BY <1>3, <1>4, <1>5, <1>6, <1>7, <1>8, <1>9, <1>10, <1>11, <1>12, <1>13
     DEF Next, Step, Returned

\* Commits are final (README.md, "no fork choice, no reversion"): as long as
\* the validators that may be made faulty hold at most half of the weight,
\* delegations included, no two nodes ever commit different blocks at a height,
\* whoever each of them has slashed or healed.
THEOREM AgreementHolds ==
    ASSUME FaultyMinority
    PROVE  Spec => []Agreement
<1>1. Init => AgreementInv
  BY AgreementInit
<1>2. AgreementInv /\ [Next]_vars => AgreementInv'
  BY AgreementStep
<1>3. AgreementInv => Agreement
  BY DEF AgreementInv
<1> QED
  BY <1>1, <1>2, <1>3, PTL DEF Spec

\* No node ever stops at the impossible block of checkCandidate, one that does
\* not extend its tip, under the same condition.
THEOREM NeverHaltsHolds ==
    ASSUME FaultyMinority
    PROVE  Spec => []NeverHalts
<1>1. Init => AgreementInv
  BY AgreementInit
<1>2. AgreementInv /\ [Next]_vars => AgreementInv'
  BY AgreementStep
<1>3. AgreementInv => NeverHalts
  BY DEF AgreementInv
<1> QED
  BY <1>1, <1>2, <1>3, PTL DEF Spec
=============================================================================
