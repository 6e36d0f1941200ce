--------------------------- MODULE Server_proofs ---------------------------
(***************************************************************************)
(* Proofs about Server, for any number of requests handled at once, any    *)
(* limits and any stakes.  The handlers of the limiter, the streams, the   *)
(* faucet and the fault button share no variable but where each handler    *)
(* is, so that the invariant is one part for each, kept by the steps of    *)
(* the others.                                                             *)
(***************************************************************************)
EXTENDS Server, Validators_proofs, FiniteSetTheorems, SequenceTheorems

\* What the request of a handler at this place is about.
ArgAt(place) ==
    CASE place \in {"read", "lookup", "spend", "events", "counted", "streaming", "leaving"} -> Hosts
      [] place \in {"faucet", "grant", "seen"} -> Accounts
      [] place \in {"fault", "asked", "budget"} -> Nodes
      [] OTHER -> {Nothing}

Shape ==
    /\ mix \in Mixes
    /\ now \in 0..MaxTime
    /\ at \in [Handlers -> Places]
    /\ arg \in [Handlers -> {Nothing} \cup Hosts \cup Accounts \cup Nodes]
    /\ \A h \in Handlers : arg[h] \in ArgAt(at[h])

Limiter ==
    /\ global \in 0..GlobalBurst
    /\ tokens \in [Buckets -> 0..Burst]
    /\ owned \in [Hosts -> {0} \cup Buckets]
    /\ order \in Seq(Hosts)
    /\ held \in [Handlers -> {0} \cup Buckets]
    /\ \A h \in Handlers : at[h] # "spend" => held[h] = 0
    /\ {i \in Hosts : owned[i] # 0} = ToSet(order)
    /\ \A i, j \in ToSet(order) : owned[i] = owned[j] => i = j
    /\ IsInjective(order) /\ Len(order) <= MaxTracked

\* f[t] is how many requests passed from time s to time t.
IsPassed(f, a, s, t) ==
    f = [u \in s..t |-> a[u] + (IF u = s THEN 0 ELSE f[u-1])]

\* What has passed since s is covered by the burst, what accrued since, and
\* the tokens that are left.
Metered ==
    /\ admitted \in [0..MaxTime -> Nat]
    /\ \A t \in 0..MaxTime : t > now => admitted[t] = 0
    /\ \A s \in 0..now : \E f :
            /\ IsPassed(f, admitted, s, now)
            /\ \A t \in s..now : f[t] \in Nat
            /\ f[now] + global <= GlobalBurst + GlobalRate * (now - s)

CountedAt(S) == {h \in Handlers : at[h] \in S}
OpenFor(i)   == {h \in CountedAt({"streaming"}) : arg[h] = i}

Streams ==
    /\ viewers \in Nat
    /\ byIP \in [Hosts -> Nat]
    /\ viewers = Cardinality(CountedAt({"counted", "streaming", "leaving"}))
    /\ Cardinality(CountedAt({"counted", "streaming"})) <= MaxViewers
    /\ \A i \in Hosts : byIP[i] = Cardinality(OpenFor(i)) /\ byIP[i] <= MaxViewersPerIP

\* The requests that have started a cool-off and not yet been granted or
\* refused.
Granting(a) == {h \in Handlers : at[h] = "grant" /\ arg[h] = a}

\* What was granted and may still be: every grant takes a cool-off of its own
\* that ended, or began, by the time of the last one.
Faucet ==
    /\ lastFaucet \in [Accounts -> -CoolOff..MaxTime]
    /\ granted \in [Accounts -> Nat]
    /\ \A a \in Accounts :
        /\ lastFaucet[a] <= now
        /\ CoolOff * (granted[a] + Cardinality(Granting(a))) <= lastFaucet[a] + CoolOff

SeenAccounts ==
    /\ seenList \in Seq(Accounts)
    /\ seenSet = ToSet(seenList)
    /\ IsInjective(seenList) /\ Len(seenList) <= MaxSeen

\* Whoever is past the lock holds it, alone; what it has not found lost and
\* is still to read covers every validator that is double-voting.
Button ==
    /\ faultMu \subseteq Handlers
    /\ read \in [Handlers -> SUBSET Nodes]
    /\ lost \in [Handlers -> SUBSET Nodes]
    /\ shown \in [Handlers -> SUBSET Nodes]
    /\ {byz, voted, due, flagged} \subseteq SUBSET Nodes
    /\ \A h \in Handlers : h \in faultMu <=> at[h] \in {"asked", "budget"}
    /\ \A g, h \in faultMu : g = h
    /\ \A h \in Handlers : at[h] = "budget" =>
            arg[h] \in lost[h] /\ byz \subseteq lost[h] \cup read[h]
    /\ FaultyBelowThird

ServerInv == Shape /\ Limiter /\ Metered /\ Streams /\ Faucet /\ SeenAccounts /\ Button

-----------------------------------------------------------------------------
(* Where the handlers are *)

LimitPlaces  == {"read", "lookup", "spend"}
StreamPlaces == {"events", "counted", "streaming", "leaving"}
FaucetPlaces == {"faucet", "grant", "seen"}
ButtonPlaces == {"fault", "asked", "budget"}

LimitStep(h)  == SpendGlobal(h) \/ Lookup(h) \/ SpendOwn(h)
StreamStep(h) == Viewing(h) \/ Opening(h) \/ Closing(h) \/ Leaving(h)
FaucetStep(h) == AskFaucet(h) \/ Grant(h) \/ MarkSeen(h)
ButtonStep(h) == Lock(h) \/ AlreadyFaulty(h) \/ TakeSnapshot(h) \/ ReadFlag(h) \/ Decide(h)
NodeStep      == \E v \in Nodes : Detected(v) \/ OwnSlash(v) \/ Healed(v)

\* A step of h from one place of S to another, or to the end of its request.
MovesIn(h, S) ==
    /\ at[h] \in S /\ at'[h] \in S \cup {"idle"}
    /\ arg'[h] = IF at'[h] = "idle" THEN Nothing ELSE arg[h]
    /\ at' \in [Handlers -> Places] /\ arg' \in [Handlers -> {Nothing} \cup Hosts \cup Accounts \cup Nodes]
    /\ \A g \in Handlers \ {h} : at'[g] = at[g] /\ arg'[g] = arg[g]
    /\ UNCHANGED <<mix, now>>

LEMMA GotoMoves ==
    ASSUME Shape, NEW h \in Handlers, NEW place, Goto(h, place),
           NEW S \in {LimitPlaces, StreamPlaces, FaucetPlaces, ButtonPlaces},
           at[h] \in S, place \in S \cup {"idle"}, UNCHANGED <<mix, now>>
    PROVE  MovesIn(h, S) /\ at'[h] = place
<1>1. place \in Places
  BY DEF LimitPlaces, StreamPlaces, FaucetPlaces, ButtonPlaces, Places, Kinds
<1>2. /\ at' = [at EXCEPT ![h] = place]
      /\ arg' = [arg EXCEPT ![h] = IF place = "idle" THEN Nothing ELSE @]
  BY DEF Goto
<1>3. /\ at \in [Handlers -> Places]
      /\ arg \in [Handlers -> {Nothing} \cup Hosts \cup Accounts \cup Nodes]
  BY DEF Shape
<1>4. at'[h] = place /\ arg'[h] = IF place = "idle" THEN Nothing ELSE arg[h]
  BY <1>2, <1>3
<1>5. \A g \in Handlers \ {h} : at'[g] = at[g] /\ arg'[g] = arg[g]
  BY <1>2, <1>3
<1>6. at' \in [Handlers -> Places]
  BY <1>1, <1>2, <1>3
<1>7. arg' \in [Handlers -> {Nothing} \cup Hosts \cup Accounts \cup Nodes]
  BY <1>2, <1>3
<1> QED
  BY <1>4, <1>5, <1>6, <1>7 DEF MovesIn

LEMMA LimitMoves ==
    ASSUME Shape, NEW h \in Handlers, LimitStep(h)
    PROVE  /\ MovesIn(h, LimitPlaces)
           /\ UNCHANGED <<streamVars, faucetVars, buttonVars, nodeVars>>
<1>1. CASE SpendGlobal(h)
  BY <1>1, GotoMoves DEF SpendGlobal, LimitPlaces
<1>2. CASE Lookup(h)
  BY <1>2, GotoMoves DEF Lookup, LimitPlaces
<1>3. CASE SpendOwn(h)
  BY <1>3, GotoMoves DEF SpendOwn, LimitPlaces
<1> QED
  BY <1>1, <1>2, <1>3 DEF LimitStep

LEMMA StreamMoves ==
    ASSUME Shape, NEW h \in Handlers, StreamStep(h)
    PROVE  /\ MovesIn(h, StreamPlaces)
           /\ UNCHANGED <<limitVars, faucetVars, buttonVars, nodeVars>>
<1>1. CASE Viewing(h)
  BY <1>1, GotoMoves DEF Viewing, StreamPlaces
<1>2. CASE Opening(h)
  BY <1>2, GotoMoves DEF Opening, TooMany, StreamPlaces
<1>3. CASE Closing(h)
  BY <1>3, GotoMoves DEF Closing, StreamPlaces
<1>4. CASE Leaving(h)
  BY <1>4, GotoMoves DEF Leaving, StreamPlaces
<1> QED
  BY <1>1, <1>2, <1>3, <1>4 DEF StreamStep

LEMMA FaucetMoves ==
    ASSUME Shape, NEW h \in Handlers, FaucetStep(h)
    PROVE  /\ MovesIn(h, FaucetPlaces)
           /\ UNCHANGED <<limitVars, streamVars, buttonVars, nodeVars>>
<1>1. CASE AskFaucet(h)
  BY <1>1, GotoMoves DEF AskFaucet, FaucetPlaces
<1>2. CASE Grant(h)
  BY <1>2, GotoMoves DEF Grant, FaucetPlaces
<1>3. CASE MarkSeen(h)
  BY <1>3, GotoMoves DEF MarkSeen, FaucetPlaces
<1> QED
  BY <1>1, <1>2, <1>3 DEF FaucetStep

LEMMA ButtonMoves ==
    ASSUME Shape, NEW h \in Handlers, ButtonStep(h)
    PROVE  /\ MovesIn(h, ButtonPlaces)
           /\ UNCHANGED <<limitVars, streamVars, faucetVars>>
<1>1. CASE Lock(h)
  BY <1>1, GotoMoves DEF Lock, ButtonPlaces
<1>2. CASE AlreadyFaulty(h)
  BY <1>2, GotoMoves DEF AlreadyFaulty, ButtonPlaces
<1>3. CASE TakeSnapshot(h)
  BY <1>3, GotoMoves DEF TakeSnapshot, ButtonPlaces
<1>4. CASE ReadFlag(h)
  <2>1. at[h] = "budget" /\ UNCHANGED <<mix, now, at, arg>>
    BY <1>4 DEF ReadFlag
  <2>2. arg[h] \in ArgAt("budget") /\ "budget" \in ButtonPlaces
    BY <2>1 DEF Shape, ButtonPlaces
  <2>3. MovesIn(h, ButtonPlaces)
    BY <2>1, <2>2 DEF MovesIn, Shape
  <2> QED
    BY <1>4, <2>3 DEF ReadFlag
<1>5. CASE Decide(h)
  BY <1>5, GotoMoves DEF Decide, ButtonPlaces
<1> QED
  BY <1>1, <1>2, <1>3, <1>4, <1>5 DEF ButtonStep

LEMMA ArriveMoves ==
    ASSUME Shape, NEW h \in Handlers, Arrive(h)
    PROVE  /\ at[h] = "idle" /\ at'[h] \in Kinds
           /\ at' \in [Handlers -> Places]
           /\ \A g \in Handlers \ {h} : at'[g] = at[g] /\ arg'[g] = arg[g]
           /\ UNCHANGED <<mix, now, limitVars, streamVars, faucetVars, buttonVars, nodeVars>>
           /\ Shape'
<1>0. PICK kind \in mix : \E x \in About(kind) : /\ at' = [at EXCEPT ![h] = kind]
                                                  /\ arg' = [arg EXCEPT ![h] = x]
  BY DEF Arrive
<1>1. PICK x \in About(kind) : /\ at' = [at EXCEPT ![h] = kind]
                               /\ arg' = [arg EXCEPT ![h] = x]
  BY <1>0
<1>2. kind \in Kinds /\ kind \in Places
  BY MixesAssumption DEF Shape, Places
<1>3. x \in Hosts \cup Accounts \cup Nodes /\ x \in ArgAt(kind)
  BY <1>1, <1>2 DEF About, ArgAt, Kinds
<1>4. UNCHANGED <<mix, now, limitVars, streamVars, faucetVars, buttonVars, nodeVars>>
  BY DEF Arrive
<1>5. /\ at'[h] = kind /\ arg'[h] = x
      /\ \A g \in Handlers \ {h} : at'[g] = at[g] /\ arg'[g] = arg[g]
      /\ at' \in [Handlers -> Places]
      /\ arg' \in [Handlers -> {Nothing} \cup Hosts \cup Accounts \cup Nodes]
  BY <1>1, <1>2, <1>3 DEF Shape
<1>6. Shape'
  BY <1>3, <1>4, <1>5 DEF Shape
<1> QED
  BY <1>2, <1>4, <1>5, <1>6 DEF Arrive

LEMMA MovesShape ==
    ASSUME Shape, NEW h \in Handlers, NEW S \in {LimitPlaces, StreamPlaces, FaucetPlaces, ButtonPlaces},
           MovesIn(h, S)
    PROVE  Shape'
<1>1. arg'[h] \in ArgAt(at'[h])
  <2>1. CASE at'[h] = "idle"
    BY <2>1 DEF MovesIn, ArgAt
  <2>2. CASE at'[h] # "idle"
    <3>1. at[h] \in S /\ at'[h] \in S /\ arg'[h] = arg[h]
      BY <2>2 DEF MovesIn
    <3>2. ArgAt(at'[h]) = ArgAt(at[h])
      BY <3>1 DEF ArgAt, LimitPlaces, StreamPlaces, FaucetPlaces, ButtonPlaces
    <3> QED
      BY <3>1, <3>2 DEF Shape
  <2> QED
    BY <2>1, <2>2
<1> QED
  BY <1>1 DEF Shape, MovesIn

\* A step of the clock or of a node moves no handler.
LEMMA OthersShape ==
    ASSUME Shape, Tick \/ NodeStep \/ UNCHANGED vars
    PROVE  Shape' /\ UNCHANGED <<mix, at, arg>> /\ now <= now'
<1>1. UNCHANGED <<mix, at, arg>>
  BY DEF Tick, NodeStep, Detected, OwnSlash, Healed, vars
<1>2. now' \in 0..MaxTime /\ now <= now'
  BY ServerAssumption DEF Tick, NodeStep, Detected, OwnSlash, Healed, vars, Shape
<1> QED
  BY <1>1, <1>2 DEF Shape

LEMMA NextSteps ==
    ASSUME [Next]_vars
    PROVE  \/ \E h \in Handlers : \/ Arrive(h) \/ LimitStep(h) \/ StreamStep(h)
                                  \/ FaucetStep(h) \/ ButtonStep(h)
           \/ Tick \/ NodeStep \/ UNCHANGED vars
  BY DEF Next, Handle, LimitStep, StreamStep, FaucetStep, ButtonStep, NodeStep

-----------------------------------------------------------------------------
(***************************************************************************)
(* Streams.  What the counters count are sets of handlers, and a step of   *)
(* handler h moves h, and nobody else, into such a set or out of it.       *)
(***************************************************************************)

LEMMA CountedFinite ==
    ASSUME NEW S
    PROVE  /\ IsFiniteSet(CountedAt(S)) /\ Cardinality(CountedAt(S)) \in Nat
           /\ \A i : IsFiniteSet(OpenFor(i)) /\ Cardinality(OpenFor(i)) \in Nat
<1>1. IsFiniteSet(Handlers)
  BY ServerAssumption
<1>2. \A T \in SUBSET Handlers : IsFiniteSet(T) /\ Cardinality(T) \in Nat
  BY <1>1, FS_Subset, FS_CardinalityType
<1>3. CountedAt(S) \in SUBSET Handlers /\ \A i : OpenFor(i) \in SUBSET Handlers
  BY DEF CountedAt, OpenFor
<1> QED
  BY <1>2, <1>3

LEMMA OneIn ==
    ASSUME NEW A, IsFiniteSet(A), NEW x, x \notin A
    PROVE  Cardinality(A \cup {x}) = Cardinality(A) + 1
  BY FS_AddElement

LEMMA OneOut ==
    ASSUME NEW A, IsFiniteSet(A), NEW x, x \in A
    PROVE  Cardinality(A \ {x}) = Cardinality(A) - 1
  BY FS_RemoveElement

\* What a step of h makes of the handlers counted at the places S.
LEMMA CountedMoves ==
    ASSUME NEW h \in Handlers, MovesIn(h, StreamPlaces), NEW S
    PROVE  CountedAt(S)' = IF at'[h] \in S THEN CountedAt(S) \cup {h} ELSE CountedAt(S) \ {h}
<1>1. \A g \in Handlers : g # h => at'[g] = at[g]
  BY DEF MovesIn
<1> QED
  BY <1>1 DEF CountedAt

LEMMA OpenMoves ==
    ASSUME NEW h \in Handlers, MovesIn(h, StreamPlaces), NEW i
    PROVE  OpenFor(i)' = IF at'[h] = "streaming" /\ arg'[h] = i
                         THEN OpenFor(i) \cup {h} ELSE OpenFor(i) \ {h}
<1>1. \A g \in Handlers : g # h => at'[g] = at[g] /\ arg'[g] = arg[g]
  BY DEF MovesIn
<1> QED
  BY <1>1 DEF CountedAt, OpenFor

LEMMA StreamsStep ==
    ASSUME Shape, Streams, NEW h \in Handlers, StreamStep(h)
    PROVE  Streams'
<1> DEFINE In   == CountedAt({"counted", "streaming", "leaving"})
           Open == CountedAt({"counted", "streaming"})
<1>1. MovesIn(h, StreamPlaces)
  BY StreamMoves
<1>2. /\ In' = IF at'[h] \in {"counted", "streaming", "leaving"} THEN In \cup {h} ELSE In \ {h}
      /\ Open' = IF at'[h] \in {"counted", "streaming"} THEN Open \cup {h} ELSE Open \ {h}
      /\ \A i \in Hosts : OpenFor(i)' = IF at'[h] = "streaming" /\ arg'[h] = i
                                        THEN OpenFor(i) \cup {h} ELSE OpenFor(i) \ {h}
  BY <1>1, CountedMoves, OpenMoves
<1>3. /\ IsFiniteSet(In) /\ Cardinality(In) \in Nat
      /\ IsFiniteSet(Open) /\ Cardinality(Open) \in Nat
      /\ \A i \in Hosts : IsFiniteSet(OpenFor(i)) /\ Cardinality(OpenFor(i)) \in Nat
  BY CountedFinite
<1>4. /\ h \in In <=> at[h] \in {"counted", "streaming", "leaving"}
      /\ h \in Open <=> at[h] \in {"counted", "streaming"}
      /\ \A i \in Hosts : h \in OpenFor(i) <=> at[h] = "streaming" /\ arg[h] = i
      /\ Open \subseteq In
  BY DEF CountedAt, OpenFor
<1>5. /\ viewers \in Nat /\ byIP \in [Hosts -> Nat]
      /\ viewers = Cardinality(In) /\ Cardinality(Open) <= MaxViewers
      /\ \A i \in Hosts : byIP[i] = Cardinality(OpenFor(i)) /\ byIP[i] <= MaxViewersPerIP
      /\ MaxViewers \in Nat /\ MaxViewersPerIP \in Nat
  BY ServerAssumption DEF Streams
<1>6. SUFFICES /\ viewers' \in Nat /\ byIP' \in [Hosts -> Nat]
               /\ viewers' = Cardinality(In') /\ Cardinality(Open') <= MaxViewers
               /\ \A i \in Hosts : /\ byIP'[i] = Cardinality(OpenFor(i)')
                                   /\ byIP'[i] <= MaxViewersPerIP
  BY DEF Streams
<1>7. Cardinality(Open) <= Cardinality(In)
  BY <1>3, <1>4, FS_Subset
<1>8. arg[h] \in ArgAt(at[h])
  BY DEF Shape
<1> HIDE DEF In, Open
<1>9. CASE Viewing(h)
  <2>1. /\ at[h] = "events" /\ viewers' = viewers + 1 /\ byIP' = byIP
        /\ at'[h] = IF viewers' > MaxViewers THEN "leaving" ELSE "counted"
    BY <1>9, GotoMoves DEF Viewing, StreamPlaces
  <2>2. In' = In \cup {h} /\ h \notin In /\ h \notin Open
    BY <1>2, <1>4, <2>1
  <2>3. Cardinality(In') = Cardinality(In) + 1
    BY <1>3, <2>2, OneIn
  <2>4. \A i \in Hosts : OpenFor(i)' = OpenFor(i)
    BY <1>2, <1>4, <2>1
  <2>5. Cardinality(Open') <= MaxViewers
    <3>1. CASE viewers' > MaxViewers
      <4>1. Open' = Open
        BY <1>2, <2>1, <2>2, <3>1
      <4> QED
        BY <1>5, <4>1
    <3>2. CASE ~(viewers' > MaxViewers)
      <4>1. Open' = Open \cup {h}
        BY <1>2, <2>1, <3>2
      <4>2. Cardinality(Open') = Cardinality(Open) + 1
        BY <1>3, <2>2, <4>1, OneIn
      <4> QED
        BY <1>3, <1>5, <1>7, <2>1, <3>2, <4>2
    <3> QED
      BY <3>1, <3>2
  <2> QED
    BY <1>5, <2>1, <2>3, <2>4, <2>5
<1>10. CASE Opening(h)
  <2>1. at[h] = "counted" /\ viewers' = viewers
    BY <1>10 DEF Opening
  <2>2. arg[h] \in Hosts
    BY <1>8, <2>1 DEF ArgAt
  <2>3. h \in In /\ h \in Open /\ \A i \in Hosts : h \notin OpenFor(i)
    BY <1>4, <2>1
  <2>4. CASE byIP[arg[h]] >= MaxViewersPerIP
    <3>1. at'[h] = "leaving" /\ byIP' = byIP
      BY <1>10, <2>4, GotoMoves DEF Opening, TooMany, StreamPlaces
    <3>2. In' = In /\ Open' = Open \ {h} /\ \A i \in Hosts : OpenFor(i)' = OpenFor(i)
      BY <1>2, <2>3, <3>1
    <3>3. Cardinality(Open') = Cardinality(Open) - 1
      BY <1>3, <2>3, <3>2, OneOut
    <3> QED
      BY <1>3, <1>5, <2>1, <3>1, <3>2, <3>3
  <2>5. CASE ~(byIP[arg[h]] >= MaxViewersPerIP)
    <3>1. at'[h] = "streaming" /\ byIP' = [byIP EXCEPT ![arg[h]] = @ + 1]
      BY <1>10, <2>5, GotoMoves DEF Opening, StreamPlaces
    <3>2. arg'[h] = arg[h]
      BY <1>1, <3>1 DEF MovesIn
    <3>3. In' = In /\ Open' = Open
      BY <1>2, <2>3, <3>1
    <3>4. ASSUME NEW i \in Hosts
          PROVE  byIP'[i] = Cardinality(OpenFor(i)') /\ byIP'[i] <= MaxViewersPerIP
      <4>1. CASE i = arg[h]
        <5>1. OpenFor(i)' = OpenFor(i) \cup {h}
          BY <1>2, <3>1, <3>2, <4>1
        <5>2. Cardinality(OpenFor(i)') = Cardinality(OpenFor(i)) + 1
          BY <1>3, <2>3, <5>1, OneIn
        <5>3. byIP'[i] = byIP[i] + 1 /\ byIP[i] \in Nat /\ byIP[i] < MaxViewersPerIP
          BY <1>5, <2>5, <3>1, <4>1
        <5> QED
          BY <1>5, <5>2, <5>3
      <4>2. CASE i # arg[h]
        <5>1. OpenFor(i)' = OpenFor(i)
          BY <1>2, <2>3, <3>1, <3>2, <4>2
        <5> QED
          BY <1>5, <3>1, <4>2, <5>1
      <4> QED
        BY <4>1, <4>2
    <3>5. byIP' \in [Hosts -> Nat]
      BY <1>5, <2>2, <3>1
    <3> QED
      BY <1>5, <2>1, <3>3, <3>4, <3>5
  <2> QED
    BY <2>4, <2>5
<1>11. CASE Closing(h)
  <2>1. /\ at[h] = "streaming" /\ viewers' = viewers
        /\ byIP' = [byIP EXCEPT ![arg[h]] = @ - 1] /\ at'[h] = "leaving"
    BY <1>11, GotoMoves DEF Closing, StreamPlaces
  <2>2. arg[h] \in Hosts
    BY <1>8, <2>1 DEF ArgAt
  <2>3. h \in In /\ h \in Open /\ \A i \in Hosts : h \in OpenFor(i) <=> i = arg[h]
    BY <1>4, <2>1
  <2>4. In' = In /\ Open' = Open \ {h}
    BY <1>2, <2>1, <2>3
  <2>5. Cardinality(Open') = Cardinality(Open) - 1
    BY <1>3, <2>3, <2>4, OneOut
  <2>6. ASSUME NEW i \in Hosts
        PROVE  /\ byIP'[i] = Cardinality(OpenFor(i)') /\ byIP'[i] <= MaxViewersPerIP
               /\ byIP'[i] \in Nat
    <3>1. OpenFor(i)' = OpenFor(i) \ {h}
      BY <1>2, <2>1
    <3>2. CASE i = arg[h]
      <4>1. h \in OpenFor(i)
        BY <2>3, <3>2
      <4>2. Cardinality(OpenFor(i) \ {h}) = Cardinality(OpenFor(i)) - 1
        BY <1>3, <4>1, OneOut
      <4>3. Cardinality(OpenFor(i)) # 0
        BY <1>3, <4>1, FS_EmptySet
      <4>4. byIP'[i] = byIP[i] - 1
        BY <1>5, <2>1, <2>2, <3>2
      <4> QED
        BY <1>3, <1>5, <3>1, <4>2, <4>3, <4>4
    <3>3. CASE i # arg[h]
      <4>1. OpenFor(i) \ {h} = OpenFor(i)
        BY <2>3, <3>3
      <4> QED
        BY <1>5, <2>1, <3>1, <3>3, <4>1
    <3> QED
      BY <3>2, <3>3
  <2>7. byIP' \in [Hosts -> Nat]
    BY <1>5, <2>1, <2>6
  <2> QED
    BY <1>3, <1>5, <2>1, <2>4, <2>5, <2>6, <2>7
<1>12. CASE Leaving(h)
  <2>1. at[h] = "leaving" /\ viewers' = viewers - 1 /\ byIP' = byIP /\ at'[h] = "idle"
    BY <1>12, GotoMoves DEF Leaving, StreamPlaces
  <2>2. h \in In /\ h \notin Open /\ \A i \in Hosts : h \notin OpenFor(i)
    BY <1>4, <2>1
  <2>3. In' = In \ {h} /\ Open' = Open /\ \A i \in Hosts : OpenFor(i)' = OpenFor(i)
    <3>1. In' = In \ {h} /\ Open' = Open \ {h}
      BY <1>2, <2>1
    <3>2. ASSUME NEW i \in Hosts PROVE OpenFor(i)' = OpenFor(i)
      BY <1>2, <2>1, <2>2
    <3> QED
      BY <2>2, <3>1, <3>2
  <2>4. Cardinality(In') = Cardinality(In) - 1 /\ Cardinality(In) # 0
    BY <1>3, <2>2, <2>3, OneOut, FS_EmptySet
  <2> QED
    BY <1>3, <1>5, <2>1, <2>3, <2>4
<1> QED
  BY <1>9, <1>10, <1>11, <1>12 DEF StreamStep

\* The handlers of other requests are not counted.
LEMMA StreamsElsewhere ==
    ASSUME Streams, UNCHANGED streamVars,
           \A h \in Handlers :
                \/ at'[h] = at[h] /\ arg'[h] = arg[h]
                \/ {at[h], at'[h]} \cap {"counted", "streaming", "leaving"} = {}
    PROVE  Streams'
<1>1. /\ CountedAt({"counted", "streaming", "leaving"})' = CountedAt({"counted", "streaming", "leaving"})
      /\ CountedAt({"counted", "streaming"})' = CountedAt({"counted", "streaming"})
      /\ \A i : OpenFor(i)' = OpenFor(i)
  BY DEF CountedAt, OpenFor
<1>2. viewers' = viewers /\ byIP' = byIP
  BY DEF streamVars
<1> QED
  BY <1>1, <1>2 DEF Streams

LEMMA StreamsKept ==
    ASSUME Shape, Streams, [Next]_vars
    PROVE  Streams'
<1>1. ASSUME NEW h \in Handlers, StreamStep(h) PROVE Streams'
  BY <1>1, StreamsStep
<1>2. ASSUME NEW h \in Handlers, NEW S \in {LimitPlaces, FaucetPlaces, ButtonPlaces},
             MovesIn(h, S), UNCHANGED streamVars
      PROVE  Streams'
  BY <1>2, StreamsElsewhere DEF MovesIn, LimitPlaces, FaucetPlaces, ButtonPlaces
<1>3. ASSUME NEW h \in Handlers, Arrive(h) PROVE Streams'
  BY <1>3, ArriveMoves, StreamsElsewhere DEF Kinds
<1>4. Tick \/ NodeStep \/ UNCHANGED vars => Streams'
  <2>1. Tick \/ NodeStep \/ UNCHANGED vars => UNCHANGED streamVars
    BY DEF Tick, NodeStep, Detected, OwnSlash, Healed, vars
  <2> QED
    BY <2>1, OthersShape, StreamsElsewhere
<1> QED
  BY <1>1, <1>2, <1>3, <1>4, NextSteps, LimitMoves, FaucetMoves, ButtonMoves

-----------------------------------------------------------------------------
(***************************************************************************)
(* Bounded queues.  Both registries of the server are a FIFO without       *)
(* repetitions whose oldest entry makes room for a new one.                *)
(***************************************************************************)

LEMMA TailKept ==
    ASSUME NEW X, NEW s \in Seq(X), s # <<>>, IsInjective(s)
    PROVE  /\ Tail(s) \in Seq(X) /\ IsInjective(Tail(s)) /\ Len(Tail(s)) = Len(s) - 1
           /\ ToSet(Tail(s)) = ToSet(s) \ {Head(s)}
<1>1. /\ Len(s) \in Nat \ {0} /\ DOMAIN s = 1..Len(s)
  BY EmptySeq, LenProperties
<1>2. /\ Tail(s) \in Seq(X) /\ Len(Tail(s)) = Len(s) - 1
      /\ \A i \in 1..Len(Tail(s)) : Tail(s)[i] = s[i+1]
      /\ DOMAIN Tail(s) = 1..Len(Tail(s)) /\ Head(s) = s[1]
  BY <1>1, HeadTailProperties, LenProperties
<1> DEFINE n == Len(s)
           r == Tail(s)
<1>3. /\ n \in Nat \ {0} /\ DOMAIN s = 1..n /\ DOMAIN r = 1..(n-1)
      /\ \A i \in 1..(n-1) : r[i] = s[i+1]
      /\ \A i, j \in 1..n : s[i] = s[j] => i = j
  BY <1>1, <1>2 DEF IsInjective
<1> HIDE DEF n, r
<1>4. IsInjective(r)
  <2>1. ASSUME NEW i \in 1..(n-1), NEW j \in 1..(n-1), r[i] = r[j] PROVE i = j
    <3>1. i+1 \in 1..n /\ j+1 \in 1..n /\ s[i+1] = s[j+1]
      BY <1>3, <2>1
    <3>2. i+1 = j+1
      BY <1>3, <3>1
    <3> QED
      BY <1>3, <3>2
  <2> QED
    BY <1>3, <2>1 DEF IsInjective
<1>5. ASSUME NEW x \in ToSet(r) PROVE x \in ToSet(s) \ {s[1]}
  <2>1. PICK i \in 1..(n-1) : x = r[i]
    BY <1>3, <1>5 DEF ToSet
  <2>2. i+1 \in 1..n /\ 1 \in 1..n /\ i+1 # 1 /\ x = s[i+1]
    BY <1>3, <2>1
  <2>3. x # s[1]
    BY <1>3, <2>2
  <2> QED
    BY <1>3, <2>2, <2>3 DEF ToSet
<1>6. ASSUME NEW x \in ToSet(s), x # s[1] PROVE x \in ToSet(r)
  <2>1. PICK i \in 1..n : x = s[i]
    BY <1>3, <1>6 DEF ToSet
  <2>2. i-1 \in 1..(n-1) /\ r[i-1] = s[(i-1)+1] /\ (i-1)+1 = i
    BY <1>3, <1>6, <2>1
  <2> QED
    BY <1>3, <2>1, <2>2 DEF ToSet
<1>7. ToSet(r) = ToSet(s) \ {s[1]}
  BY <1>5, <1>6
<1> QED
  BY <1>2, <1>4, <1>7 DEF r

LEMMA AppendKept ==
    ASSUME NEW X, NEW s \in Seq(X), IsInjective(s), NEW x \in X, x \notin ToSet(s)
    PROVE  /\ Append(s, x) \in Seq(X) /\ IsInjective(Append(s, x))
           /\ Len(Append(s, x)) = Len(s) + 1
           /\ ToSet(Append(s, x)) = ToSet(s) \cup {x}
<1> DEFINE n == Len(s)
           r == Append(s, x)
<1>1. /\ n \in Nat /\ DOMAIN s = 1..n /\ r \in Seq(X) /\ Len(r) = n + 1
      /\ DOMAIN r = 1..(n+1) /\ r[n+1] = x /\ \A i \in 1..n : r[i] = s[i]
  BY LenProperties, AppendProperties
<1>2. \A i, j \in 1..n : s[i] = s[j] => i = j
  BY <1>1 DEF IsInjective
<1>3. \A i \in 1..n : s[i] # x
  BY <1>1 DEF ToSet
<1> HIDE DEF n, r
<1>4. \A i \in 1..(n+1) : i = n+1 \/ i \in 1..n
  BY <1>1
<1>5. IsInjective(r)
  BY <1>1, <1>2, <1>3, <1>4 DEF IsInjective
<1>6. ToSet(r) = ToSet(s) \cup {x}
  <2>1. n+1 \in 1..(n+1) /\ 1..n \subseteq 1..(n+1)
    BY <1>1
  <2>2. ASSUME NEW y \in ToSet(r) PROVE y \in ToSet(s) \cup {x}
    BY <1>1, <1>4, <2>2 DEF ToSet
  <2>3. ASSUME NEW y \in ToSet(s) \cup {x} PROVE y \in ToSet(r)
    BY <1>1, <2>1, <2>3 DEF ToSet
  <2> QED
    BY <2>2, <2>3
<1> QED
  BY <1>1, <1>5, <1>6 DEF n, r

\* A queue stays within its bound, and holds what it held less what it evicts.
LEMMA QueueKept ==
    ASSUME NEW X, NEW s \in Seq(X), IsInjective(s), NEW cap \in Nat \ {0}, Len(s) <= cap,
           NEW x \in X, x \notin ToSet(s)
    PROVE  /\ Queued(s, x, cap) \in Seq(X) /\ IsInjective(Queued(s, x, cap))
           /\ Len(Queued(s, x, cap)) <= cap
           /\ ToSet(Queued(s, x, cap)) = (ToSet(s) \ Evicted(s, cap)) \cup {x}
<1>1. Len(s) \in Nat
  BY LenProperties
<1>2. CASE Len(s) >= cap
  <2>1. Len(s) = cap /\ s # <<>>
    BY <1>1, <1>2, EmptySeq
  <2>2. /\ Tail(s) \in Seq(X) /\ IsInjective(Tail(s)) /\ Len(Tail(s)) = Len(s) - 1
        /\ ToSet(Tail(s)) = ToSet(s) \ {Head(s)}
    BY <2>1, TailKept
  <2>3. x \notin ToSet(Tail(s))
    BY <2>2
  <2> DEFINE q == Append(Tail(s), x)
  <2>4. /\ q \in Seq(X) /\ IsInjective(q) /\ Len(q) = Len(Tail(s)) + 1
        /\ ToSet(q) = ToSet(Tail(s)) \cup {x}
    BY <2>2, <2>3, AppendKept
  <2>5. q = Queued(s, x, cap) /\ Evicted(s, cap) = {Head(s)}
    BY <1>2 DEF Queued, Evicted
  <2> HIDE DEF q
  <2>6. Len(q) <= cap
    BY <1>1, <2>1, <2>2, <2>4
  <2> QED
    BY <2>2, <2>4, <2>5, <2>6
<1>3. CASE ~(Len(s) >= cap)
  <2> DEFINE q == Append(s, x)
  <2>1. /\ q \in Seq(X) /\ IsInjective(q) /\ Len(q) = Len(s) + 1
        /\ ToSet(q) = ToSet(s) \cup {x}
    BY AppendKept
  <2>2. q = Queued(s, x, cap) /\ Evicted(s, cap) = {}
    BY <1>3 DEF Queued, Evicted
  <2> HIDE DEF q
  <2>3. Len(q) <= cap
    BY <1>1, <1>3, <2>1
  <2> QED
    BY <2>1, <2>2, <2>3
<1> QED
  BY <1>2, <1>3

-----------------------------------------------------------------------------
(***************************************************************************)
(* The limiter.  There is always a bucket to make a new entry with: the    *)
(* registry holds at most MaxTracked, and the handlers have at most one    *)
(* each in their hands, the one that looks up none.                        *)
(***************************************************************************)

LEMMA ImageSmaller ==
    ASSUME NEW S, IsFiniteSet(S), NEW f
    PROVE  LET T == {f[x] : x \in S}
           IN  /\ IsFiniteSet(T) /\ Cardinality(T) \in Nat
               /\ Cardinality(T) <= Cardinality(S)
<1> DEFINE T == {f[x] : x \in S}
           g == [x \in S |-> f[x]]
<1>1. g \in Surjection(S, T)
  BY DEF Surjection
<1> HIDE DEF g, T
<1>2. IsFiniteSet(T) /\ Cardinality(T) <= Cardinality(S)
  BY <1>1, FS_Surjection
<1>3. Cardinality(T) \in Nat
  BY <1>2, FS_CardinalityType
<1> QED
  BY <1>2, <1>3 DEF T

LEMMA UpTo ==
    ASSUME NEW n \in Nat
    PROVE  IsFiniteSet(1..n) /\ Cardinality(1..n) = n
<1> DEFINE c == Cardinality(1..n)
<1>1. IsFiniteSet(1..n) /\ c = IF 1 > n THEN 0 ELSE n - 1 + 1
  <2>1. 1 \in Int /\ n \in Int
    OBVIOUS
  <2> QED
    BY <2>1, FS_Interval, Zenon
<1> HIDE DEF c
<1>2. c = n
  BY <1>1
<1> QED
  BY <1>1, <1>2 DEF c

LEMMA FreshBucket ==
    ASSUME Limiter, NEW h \in Handlers, held[h] = 0
    PROVE  \E k \in Buckets : \A x \in Hosts, g \in Handlers : owned[x] # k /\ held[g] # k
<1> DEFINE L == Len(order)
           f == [j \in 1..L |-> owned[order[j]]]
           A == {f[j] : j \in 1..L}
           B == {held[g] : g \in Handlers \ {h}}
           H == Cardinality(Handlers)
<1>1. L \in Nat /\ L <= MaxTracked /\ MaxTracked \in Nat /\ DOMAIN order = 1..L
  BY LenProperties, ServerAssumption DEF Limiter
<1>2. IsFiniteSet(Handlers) /\ H \in Nat
  BY ServerAssumption, FS_CardinalityType
<1>3. IsFiniteSet(A) /\ Cardinality(A) \in Nat /\ Cardinality(A) <= L
  <2>1. IsFiniteSet(1..L) /\ Cardinality(1..L) = L
    BY <1>1, UpTo
  <2> HIDE DEF f, L
  <2> QED
    BY <2>1, ImageSmaller
<1>4. IsFiniteSet(B) /\ Cardinality(B) \in Nat /\ Cardinality(B) <= H - 1
  <2>1. IsFiniteSet(Handlers \ {h}) /\ Cardinality(Handlers \ {h}) = H - 1
    BY <1>2, FS_RemoveElement
  <2>2. IsFiniteSet(B) /\ Cardinality(B) \in Nat /\ Cardinality(B) <= Cardinality(Handlers \ {h})
    BY <2>1, ImageSmaller
  <2> QED
    BY <2>1, <2>2
<1>5. IsFiniteSet(Buckets) /\ Cardinality(Buckets) = MaxTracked + H
  <2>1. MaxTracked + H \in Nat
    BY <1>1, <1>2
  <2> QED
    BY <2>1, UpTo DEF Buckets
<1>6. /\ IsFiniteSet(A \cup B) /\ Cardinality(A \cup B) \in Nat
      /\ Cardinality(A \cup B) <= Cardinality(A) + Cardinality(B)
  <2>1. /\ IsFiniteSet(A \cup B)
        /\ Cardinality(A \cup B) = Cardinality(A) + Cardinality(B) - Cardinality(A \cap B)
    BY <1>3, <1>4, FS_Union
  <2>2. Cardinality(A \cup B) \in Nat
    BY <2>1, FS_CardinalityType
  <2>3. Cardinality(A \cap B) \in Nat
    <3>1. IsFiniteSet(A \cap B)
      BY <1>3, FS_Intersection
    <3> QED
      BY <3>1, FS_CardinalityType
  <2> HIDE DEF A, B
  <2> QED
    BY <1>3, <1>4, <2>1, <2>2, <2>3
<1>7. ~(Buckets \subseteq A \cup B)
  <2>1. Buckets \subseteq A \cup B => Cardinality(Buckets) <= Cardinality(A \cup B)
    BY <1>6, FS_Subset
  <2> HIDE DEF A, B, L, H
  <2> QED
    BY <1>1, <1>2, <1>3, <1>4, <1>5, <1>6, <2>1
<1>8. PICK k \in Buckets : k \notin A /\ k \notin B
  BY <1>7
<1>9. k # 0
  BY <1>1, <1>2 DEF Buckets
<1>10. ASSUME NEW x \in Hosts PROVE owned[x] # k
  <2>1. owned[x] = k => x \in ToSet(order)
    BY <1>9 DEF Limiter
  <2>2. ASSUME x \in ToSet(order) PROVE owned[x] \in A
    <3>1. PICK j \in 1..L : x = order[j]
      BY <1>1, <2>2 DEF ToSet
    <3> QED
      BY <3>1
  <2> QED
    BY <1>8, <2>1, <2>2
<1>11. ASSUME NEW g \in Handlers PROVE held[g] # k
  BY <1>8, <1>9
<1> QED
  BY <1>10, <1>11

LEMMA LookupLimiter ==
    ASSUME Shape, Limiter, NEW h \in Handlers, Lookup(h)
    PROVE  Limiter'
<1> DEFINE i == arg[h]
           k == CHOOSE k \in Buckets :
                    \A x \in Hosts, g \in Handlers : owned[x] # k /\ held[g] # k
<1>1. /\ at[h] = "lookup" /\ at'[h] = "spend" /\ held[h] = 0
      /\ \A g \in Handlers \ {h} : at'[g] = at[g]
  BY GotoMoves DEF Lookup, LimitPlaces, MovesIn, Limiter
<1>2. i \in Hosts
  BY <1>1 DEF Shape, ArgAt
<1>3. /\ k \in Buckets
      /\ \A x \in Hosts : owned[x] # k
  BY <1>1, FreshBucket
<1>4. k # 0
  BY <1>3, ServerAssumption, FS_CardinalityType DEF Buckets
<1>5. /\ global' = global
      /\ IF owned[i] # 0
         THEN held' = [held EXCEPT ![h] = owned[i]] /\ UNCHANGED <<tokens, owned, order>>
         ELSE /\ held' = [held EXCEPT ![h] = k]
              /\ tokens' = [tokens EXCEPT ![k] = Burst]
              /\ owned' = [x \in Hosts |-> IF x = i THEN k
                                           ELSE IF x \in Evicted(order, MaxTracked) THEN 0
                                           ELSE owned[x]]
              /\ order' = Queued(order, i, MaxTracked)
  BY DEF Lookup
<1> HIDE DEF k
<1>6. Limiter
  OBVIOUS
<1>7. \A g \in Handlers : at'[g] # "spend" => held'[g] = 0
  BY <1>1, <1>5, <1>6 DEF Limiter
<1>8. CASE owned[i] # 0
  BY <1>2, <1>5, <1>7, <1>8 DEF Limiter
<1>9. CASE owned[i] = 0
  <2>1. i \notin ToSet(order) /\ order \in Seq(Hosts) /\ Len(order) <= MaxTracked
    BY <1>2, <1>9 DEF Limiter
  <2>2. /\ order' \in Seq(Hosts) /\ IsInjective(order') /\ Len(order') <= MaxTracked
        /\ ToSet(order') = (ToSet(order) \ Evicted(order, MaxTracked)) \cup {i}
    BY <1>2, <1>5, <1>9, <2>1, QueueKept, ServerAssumption DEF Limiter
  <2>3. /\ held' \in [Handlers -> {0} \cup Buckets]
        /\ tokens' \in [Buckets -> 0..Burst]
        /\ owned' \in [Hosts -> {0} \cup Buckets]
    <3>1. Burst \in 0..Burst
      BY ServerAssumption
    <3>2. tokens' \in [Buckets -> 0..Burst]
      BY <1>3, <1>5, <1>9, <3>1 DEF Limiter
    <3>3. held' \in [Handlers -> {0} \cup Buckets]
      BY <1>3, <1>5, <1>9 DEF Limiter
    <3>4. owned' \in [Hosts -> {0} \cup Buckets]
      BY <1>3, <1>5, <1>9 DEF Limiter
    <3> QED
      BY <3>2, <3>3, <3>4
  <2>4. {x \in Hosts : owned'[x] # 0} = ToSet(order')
    BY <1>2, <1>4, <1>5, <1>9, <2>2 DEF Limiter
  <2>5. ASSUME NEW x \in ToSet(order'), NEW y \in ToSet(order'), owned'[x] = owned'[y]
        PROVE  x = y
    <3>1. /\ x \in Hosts /\ y \in Hosts /\ owned'[x] # 0 /\ owned'[y] # 0
      BY <2>4
    <3>2. /\ owned'[x] = IF x = i THEN k ELSE owned[x]
          /\ owned'[y] = IF y = i THEN k ELSE owned[y]
      BY <1>5, <1>9, <3>1
    <3>3. /\ x # i => owned[x] # 0 /\ owned[x] # k /\ x \in ToSet(order)
          /\ y # i => owned[y] # 0 /\ owned[y] # k /\ y \in ToSet(order)
      BY <1>3, <3>1, <3>2 DEF Limiter
    <3> QED
      BY <2>5, <3>2, <3>3 DEF Limiter
  <2>6. global' \in 0..GlobalBurst
    BY <1>5 DEF Limiter
  <2> QED
    BY <1>7, <2>2, <2>3, <2>4, <2>5, <2>6 DEF Limiter
<1> QED
  BY <1>8, <1>9

LEMMA AccruedType ==
    ASSUME NEW burst \in Nat, NEW rate \in Nat, NEW amount \in 0..burst
    PROVE  Accrued(amount, rate, burst) \in 0..burst /\ Accrued(amount, rate, burst) <= amount + rate
  BY DEF Accrued

\* The rest of a limiter's work touches tokens and what is in hand only.
LEMMA LimiterFrame ==
    ASSUME Limiter, UNCHANGED <<owned, order>>, global' \in 0..GlobalBurst,
           tokens' \in [Buckets -> 0..Burst], held' \in [Handlers -> {0} \cup Buckets],
           \A h \in Handlers : at'[h] # "spend" => held'[h] = 0
    PROVE  Limiter'
  BY DEF Limiter

LEMMA SpendLimiter ==
    ASSUME Shape, Limiter, NEW h \in Handlers, SpendGlobal(h) \/ SpendOwn(h)
    PROVE  Limiter'
<1>1. \A g \in Handlers \ {h} : at'[g] = at[g]
  BY LimitMoves DEF LimitStep, MovesIn
<1>2. CASE SpendGlobal(h)
  <2>1. /\ at[h] = "read" /\ UNCHANGED <<tokens, owned, order, held>>
        /\ (global' = global \/ (global' = global - 1 /\ global >= 1))
    BY <1>2 DEF SpendGlobal
  <2>2. global' \in 0..GlobalBurst
    BY <2>1, ServerAssumption DEF Limiter
  <2> QED
    BY <1>1, <2>1, <2>2, LimiterFrame DEF Limiter
<1>3. CASE SpendOwn(h)
  <2>1. /\ at'[h] = "idle" /\ UNCHANGED <<global, owned, order>>
        /\ held' = [held EXCEPT ![h] = 0]
        /\ tokens' = [tokens EXCEPT ![held[h]] = IF @ >= 1 THEN @ - 1 ELSE @]
    BY <1>3, GotoMoves DEF SpendOwn, LimitPlaces
  <2>2. held' \in [Handlers -> {0} \cup Buckets]
    BY <2>1 DEF Limiter
  <2>3. tokens' \in [Buckets -> 0..Burst]
    <3>1. \A x \in 0..Burst : x >= 1 => x - 1 \in 0..Burst
      BY ServerAssumption
    <3> QED
      BY <2>1, <3>1 DEF Limiter
  <2> QED
    BY <1>1, <2>1, <2>2, <2>3, LimiterFrame DEF Limiter
<1> QED
  BY <1>2, <1>3

LEMMA LimiterKept ==
    ASSUME Shape, Limiter, [Next]_vars
    PROVE  Limiter'
<1>1. ASSUME NEW h \in Handlers, LimitStep(h) PROVE Limiter'
  BY <1>1, LookupLimiter, SpendLimiter DEF LimitStep
<1>2. ASSUME UNCHANGED limitVars,
             \A h \in Handlers : at[h] = "spend" => at'[h] = "spend"
      PROVE  Limiter'
  BY <1>2, LimiterFrame DEF limitVars, Limiter
<1>3. ASSUME NEW h \in Handlers, NEW S \in {StreamPlaces, FaucetPlaces, ButtonPlaces},
             MovesIn(h, S), UNCHANGED limitVars
      PROVE  Limiter'
  BY <1>2, <1>3 DEF MovesIn, StreamPlaces, FaucetPlaces, ButtonPlaces
<1>4. ASSUME NEW h \in Handlers, Arrive(h) PROVE Limiter'
  BY <1>2, <1>4, ArriveMoves DEF Kinds
<1>5. CASE Tick
  <2>1. /\ global' = Accrued(global, GlobalRate, GlobalBurst)
        /\ tokens' = [k \in Buckets |-> Accrued(tokens[k], Rate, Burst)]
        /\ UNCHANGED <<at, owned, order, held>>
    BY <1>5 DEF Tick
  <2>2. global' \in 0..GlobalBurst
    BY <2>1, AccruedType, ServerAssumption DEF Limiter
  <2>3. tokens' \in [Buckets -> 0..Burst]
    BY <2>1, AccruedType, ServerAssumption DEF Limiter
  <2> QED
    BY <2>1, <2>2, <2>3, LimiterFrame DEF Limiter
<1>6. NodeStep \/ UNCHANGED vars => Limiter'
  BY <1>2 DEF NodeStep, Detected, OwnSlash, Healed, vars
<1> QED
  BY <1>1, <1>3, <1>4, <1>5, <1>6, NextSteps, StreamMoves, FaucetMoves, ButtonMoves

-----------------------------------------------------------------------------
(***************************************************************************)
(* The rate.  From any time s on, what has passed and what is left in the  *)
(* shared bucket come to no more than the burst and what accrued since s.  *)
(***************************************************************************)

\* The count goes on to the next time, at which nothing has passed yet ...
LEMMA PassedExtends ==
    ASSUME NEW s \in Nat, NEW t \in Nat, s <= t, NEW f, NEW a, IsPassed(f, a, s, t),
           \A u \in s..t : f[u] \in Nat, a[t+1] = 0
    PROVE  \E g : /\ IsPassed(g, a, s, t+1) /\ g[t+1] = f[t]
                  /\ \A u \in s..(t+1) : g[u] \in Nat
<1> DEFINE g == [u \in s..(t+1) |-> IF u = t+1 THEN f[t] ELSE f[u]]
<1>1. ASSUME NEW u \in s..(t+1)
      PROVE  g[u] = a[u] + (IF u = s THEN 0 ELSE g[u-1])
  <2>1. CASE u = t+1
    <3>1. t \in s..(t+1) /\ t # t+1 /\ u # s /\ u-1 = t
      BY <2>1
    <3>2. g[t] = f[t] /\ g[u] = f[t] /\ f[t] \in Nat
      BY <2>1, <3>1
    <3> QED
      BY <2>1, <3>1, <3>2
  <2>2. CASE u # t+1
    <3>1. u \in s..t /\ (u # s => u-1 \in s..(t+1) /\ u-1 # t+1)
      BY <2>2
    <3>2. f[u] = a[u] + (IF u = s THEN 0 ELSE f[u-1])
      BY <3>1 DEF IsPassed
    <3> QED
      BY <2>2, <3>1, <3>2
  <2> QED
    BY <2>1, <2>2
<1>2. t+1 \in s..(t+1)
  OBVIOUS
<1>3. g[t+1] = f[t]
  BY <1>2
<1>4. IsPassed(g, a, s, t+1)
  BY <1>1, Zenon DEF IsPassed
<1>5. \A u \in s..(t+1) : g[u] \in Nat
  OBVIOUS
<1> QED
  BY <1>3, <1>4, <1>5

\* ... and a request that passes now counts from every time on.
LEMMA PassedCounts ==
    ASSUME NEW s \in Nat, NEW t \in Nat, s <= t, NEW f, NEW a, IsPassed(f, a, s, t),
           \A u \in s..t : f[u] \in Nat, NEW b, b[t] = a[t] + 1, a[t] \in Nat,
           \A u \in s..t : u # t => b[u] = a[u]
    PROVE  \E g : /\ IsPassed(g, b, s, t) /\ g[t] = f[t] + 1
                  /\ \A u \in s..t : g[u] \in Nat
<1> DEFINE g == [u \in s..t |-> IF u = t THEN f[t] + 1 ELSE f[u]]
<1>1. \A u \in s..t : f[u] = a[u] + (IF u = s THEN 0 ELSE f[u-1])
  BY DEF IsPassed
<1>2. t \in s..t /\ (t # s => t-1 \in s..t)
  OBVIOUS
<1>3. ASSUME NEW u \in s..t
      PROVE  g[u] = b[u] + (IF u = s THEN 0 ELSE g[u-1])
  <2>1. CASE u = t /\ t = s
    BY <1>1, <1>2, <2>1
  <2>2. CASE u = t /\ t # s
    <3>1. g[t-1] = f[t-1] /\ f[t] = a[t] + f[t-1] /\ f[t-1] \in Nat
      BY <1>1, <1>2, <2>2
    <3>2. a[t] + f[t-1] + 1 = b[t] + f[t-1]
      <4> DEFINE x == f[t-1]
                 y == a[t]
                 z == b[t]
      <4>1. x \in Nat /\ y \in Nat /\ z = y + 1
        BY <3>1
      <4> HIDE DEF x, y, z
      <4>2. y + x + 1 = z + x
        BY <4>1
      <4> QED
        BY <4>2 DEF x, y, z
    <3> QED
      BY <2>2, <3>1, <3>2
  <2>3. CASE u # t
    <3>1. u # s => u-1 \in s..t /\ u-1 # t
      BY <2>3
    <3> QED
      BY <1>1, <2>3, <3>1
  <2> QED
    BY <2>1, <2>2, <2>3
<1>4. g[t] = f[t] + 1
  BY <1>2
<1>5. IsPassed(g, b, s, t)
  BY <1>3, Zenon DEF IsPassed
<1>6. \A u \in s..t : g[u] \in Nat
  OBVIOUS
<1> QED
  BY <1>4, <1>5, <1>6

LEMMA MeteredTick ==
    ASSUME Shape, Limiter, Metered, Tick
    PROVE  Metered'
<1>1. /\ now \in Nat /\ now + 1 \in 0..MaxTime /\ now' = now + 1 /\ admitted' = admitted
      /\ global' = Accrued(global, GlobalRate, GlobalBurst)
      /\ GlobalRate \in Nat /\ GlobalBurst \in Nat /\ MaxTime \in Nat
  BY ServerAssumption DEF Tick, Shape
<1>2. global \in 0..GlobalBurst /\ global' \in 0..GlobalBurst /\ global' <= global + GlobalRate
  BY <1>1, AccruedType DEF Limiter
<1>3. /\ admitted \in [0..MaxTime -> Nat]
      /\ \A t \in 0..MaxTime : t > now => admitted[t] = 0
  BY DEF Metered
<1>4. \A t \in 0..MaxTime : t > now' => admitted'[t] = 0
  BY <1>1, <1>3
<1>5. admitted[now + 1] = 0
  BY <1>1, <1>3
<1>6. ASSUME NEW s \in 0..(now + 1)
      PROVE  \E g : /\ IsPassed(g, admitted, s, now + 1)
                    /\ \A t \in s..(now + 1) : g[t] \in Nat
                    /\ g[now + 1] + global' <= GlobalBurst + GlobalRate * ((now + 1) - s)
  <2>1. CASE s = now + 1
    <3> DEFINE g == [u \in s..s |-> 0]
    <3>1. g[s] = 0 /\ \A u \in s..s : u = s /\ g[u] = 0
      BY <1>1, <2>1
    <3>2. IsPassed(g, admitted, s, s)
      BY <1>5, <2>1, <3>1 DEF IsPassed
    <3>3. GlobalRate * ((now + 1) - s) = 0
      BY <1>1, <2>1
    <3> HIDE DEF g
    <3> QED
      BY <1>1, <1>2, <2>1, <3>1, <3>2, <3>3
  <2>2. CASE s # now + 1
    <3>1. s \in 0..now /\ s \in Nat /\ s <= now
      BY <1>1, <2>2
    <3>2. PICK f : /\ IsPassed(f, admitted, s, now)
                   /\ \A t \in s..now : f[t] \in Nat
                   /\ f[now] + global <= GlobalBurst + GlobalRate * (now - s)
      BY <3>1 DEF Metered
    <3>3. PICK g : /\ IsPassed(g, admitted, s, now + 1) /\ g[now + 1] = f[now]
                   /\ \A u \in s..(now + 1) : g[u] \in Nat
      BY <1>1, <1>5, <3>1, <3>2, PassedExtends
    <3>4. GlobalRate * ((now + 1) - s) = GlobalRate * (now - s) + GlobalRate
      BY <1>1, <3>1
    <3> DEFINE x == f[now]
               y == GlobalRate * (now - s)
    <3>5. x \in Nat /\ y \in Nat /\ x + global <= GlobalBurst + y
      BY <1>1, <3>1, <3>2
    <3>6. x + global' <= GlobalBurst + (y + GlobalRate)
      <4> HIDE DEF x, y
      <4> QED
        BY <1>1, <1>2, <3>5
    <3> QED
      BY <3>3, <3>4, <3>6
  <2> QED
    BY <2>1, <2>2
<1>7. \A s \in 0..now' : \E g :
            /\ IsPassed(g, admitted', s, now')
            /\ \A t \in s..now' : g[t] \in Nat
            /\ g[now'] + global' <= GlobalBurst + GlobalRate * (now' - s)
  <2> DEFINE n == now + 1
             G(s) == \E g : /\ IsPassed(g, admitted, s, n)
                            /\ \A t \in s..n : g[t] \in Nat
                            /\ g[n] + global' <= GlobalBurst + GlobalRate * (n - s)
  <2>1. \A s \in 0..n : G(s)
    BY <1>6, Zenon
  <2>2. now' = n /\ admitted' = admitted
    BY <1>1
  <2> HIDE DEF n
  <2> QED
    BY <2>1, <2>2, Zenon
<1> QED
  BY <1>1, <1>3, <1>4, <1>7 DEF Metered

LEMMA MeteredSpend ==
    ASSUME Shape, Limiter, Metered, NEW h \in Handlers, SpendGlobal(h)
    PROVE  Metered'
<1>1. /\ now \in Nat /\ now \in 0..MaxTime /\ now' = now /\ MaxTime \in Nat
      /\ global \in Nat /\ GlobalRate \in Nat /\ GlobalBurst \in Nat
  BY ServerAssumption DEF SpendGlobal, Shape, Limiter
<1>2. /\ admitted \in [0..MaxTime -> Nat]
      /\ \A t \in 0..MaxTime : t > now => admitted[t] = 0
  BY DEF Metered
<1>3. CASE UNCHANGED <<global, admitted>>
  BY <1>1, <1>3 DEF Metered
<1>4. CASE global' = global - 1 /\ admitted' = [admitted EXCEPT ![now] = @ + 1]
  <2>1. /\ admitted'[now] = admitted[now] + 1 /\ admitted[now] \in Nat
        /\ \A t \in 0..MaxTime : t # now => admitted'[t] = admitted[t]
        /\ admitted' \in [0..MaxTime -> Nat]
    BY <1>1, <1>2, <1>4
  <2>2. \A t \in 0..MaxTime : t > now => admitted'[t] = 0
    BY <1>1, <1>2, <2>1
  <2>3. ASSUME NEW s \in 0..now
        PROVE  \E g : /\ IsPassed(g, admitted', s, now)
                      /\ \A t \in s..now : g[t] \in Nat
                      /\ g[now] + global' <= GlobalBurst + GlobalRate * (now - s)
    <3>1. s \in Nat /\ s <= now /\ s..now \subseteq 0..MaxTime
      BY <1>1
    <3>2. PICK f : /\ IsPassed(f, admitted, s, now)
                   /\ \A t \in s..now : f[t] \in Nat
                   /\ f[now] + global <= GlobalBurst + GlobalRate * (now - s)
      BY DEF Metered
    <3>3. PICK g : /\ IsPassed(g, admitted', s, now) /\ g[now] = f[now] + 1
                   /\ \A u \in s..now : g[u] \in Nat
      <4>1. PICK a, b, t : a = admitted /\ b = admitted' /\ t = now
        OBVIOUS
      <4>2. t \in Nat /\ s \in Nat /\ s <= t
        BY <1>1, <3>1, <4>1
      <4>3. IsPassed(f, a, s, t) /\ \A u \in s..t : f[u] \in Nat
        BY <3>2, <4>1, Zenon
      <4>4. /\ b[t] = a[t] + 1 /\ a[t] \in Nat
            /\ \A u \in s..t : u # t => b[u] = a[u]
        BY <2>1, <3>1, <4>1
      <4>5. \E g : /\ IsPassed(g, b, s, t) /\ g[t] = f[t] + 1
                   /\ \A u \in s..t : g[u] \in Nat
        BY <4>2, <4>3, <4>4, PassedCounts
      <4> QED
        BY <4>1, <4>5
    <3>4. f[now] \in Nat
      BY <1>1, <3>1, <3>2
    <3>5. f[now] + 1 + (global - 1) = f[now] + global
      BY <1>1, <3>4
    <3> QED
      BY <1>4, <3>2, <3>3, <3>5
  <2> QED
    BY <1>1, <2>1, <2>2, <2>3 DEF Metered
<1> QED
  BY <1>3, <1>4 DEF SpendGlobal

LEMMA MeteredKept ==
    ASSUME Shape, Limiter, Metered, [Next]_vars
    PROVE  Metered'
<1>1. ASSUME NEW h \in Handlers, SpendGlobal(h) PROVE Metered'
  BY <1>1, MeteredSpend
<1>2. ASSUME UNCHANGED <<now, global, admitted>> PROVE Metered'
  BY <1>2 DEF Metered
<1>3. ASSUME NEW h \in Handlers, Lookup(h) \/ SpendOwn(h)
      PROVE  UNCHANGED <<now, global, admitted>>
  BY <1>3 DEF Lookup, SpendOwn
<1>4. ASSUME NEW h \in Handlers, StreamStep(h) \/ FaucetStep(h) \/ ButtonStep(h) \/ Arrive(h)
      PROVE  UNCHANGED <<now, global, admitted>>
  BY <1>4, StreamMoves, FaucetMoves, ButtonMoves DEF MovesIn, limitVars, Arrive
<1>5. NodeStep \/ UNCHANGED vars => UNCHANGED <<now, global, admitted>>
  BY DEF NodeStep, Detected, OwnSlash, Healed, vars, limitVars
<1> QED
  BY <1>1, <1>2, <1>3, <1>4, <1>5, NextSteps, MeteredTick DEF LimitStep

\* The recursion of NeverOverRate has one solution.
LEMMA OnePassed ==
    ASSUME NEW s \in Nat, NEW t \in Nat, s <= t, NEW a,
           NEW f, IsPassed(f, a, s, t), NEW g, IsPassed(g, a, s, t)
    PROVE  f[t] = g[t]
<1> DEFINE T == {u \in s..t : f[u] # g[u]}
<1>1. SUFFICES ASSUME T # {} PROVE FALSE
  OBVIOUS
<1>2. PICK u \in T : \A y \in T : u <= y
  <2>1. T \subseteq Nat
    OBVIOUS
  <2> HIDE DEF T
  <2> QED
    BY <1>1, <2>1, LeastElement
<1>3. /\ f[u] = a[u] + (IF u = s THEN 0 ELSE f[u-1])
      /\ g[u] = a[u] + (IF u = s THEN 0 ELSE g[u-1])
  BY DEF IsPassed
<1>4. u # s
  BY <1>2, <1>3
<1>5. u-1 \in s..t /\ ~(u <= u-1)
  BY <1>2, <1>4
<1>6. f[u-1] = g[u-1]
  BY <1>2, <1>5
<1> QED
  BY <1>2, <1>3, <1>6

LEMMA MeteredRate ==
    ASSUME Shape, Limiter, Metered
    PROVE  NeverOverRate
<1>1. SUFFICES ASSUME NEW s \in 0..now
      PROVE  LET passed[t \in s..now] == admitted[t] + (IF t = s THEN 0 ELSE passed[t-1])
             IN  passed[now] <= GlobalBurst + GlobalRate * (now - s)
  BY DEF NeverOverRate
<1> DEFINE passed == CHOOSE f : IsPassed(f, admitted, s, now)
<1>2. now \in Nat /\ global \in Nat /\ GlobalRate \in Nat /\ GlobalBurst \in Nat
  BY ServerAssumption DEF Shape, Limiter
<1>3. PICK f : /\ IsPassed(f, admitted, s, now)
               /\ \A t \in s..now : f[t] \in Nat
               /\ f[now] + global <= GlobalBurst + GlobalRate * (now - s)
  BY DEF Metered
<1>4. IsPassed(passed, admitted, s, now)
  BY <1>3
<1> HIDE DEF passed
<1>5. passed[now] = f[now]
  BY <1>2, <1>3, <1>4, OnePassed
<1>6. f[now] \in Nat /\ GlobalRate * (now - s) \in Nat
  BY <1>2, <1>3
<1> DEFINE x == passed[now]
           y == GlobalRate * (now - s)
<1>7. x <= GlobalBurst + y
  <2>1. x \in Nat /\ y \in Nat /\ x + global <= GlobalBurst + y
    BY <1>3, <1>5, <1>6
  <2> HIDE DEF x, y
  <2> QED
    BY <1>2, <2>1
<1> QED
  BY <1>7 DEF passed, IsPassed

-----------------------------------------------------------------------------
(* The faucet *)

LEMMA Times ==
    ASSUME NEW c \in Nat, NEW g \in Nat
    PROVE  /\ c * g \in Nat
           /\ c * (g + 1) = c * g + c
           /\ g # 0 => c * (g - 1) <= c * g
<1>1. c * g \in Nat /\ c * (g + 1) = c * g + c
  OBVIOUS
<1>2. ASSUME g # 0 PROVE c * (g - 1) <= c * g
  <2>1. c * (g - 1) = c * g - c
    OBVIOUS
  <2> QED
    BY <1>1, <2>1
<1> QED
  BY <1>1, <1>2

\* A handler comes to the place of the grant, or leaves it.
LEMMA GrantingMoves ==
    ASSUME NEW h \in Handlers, MovesIn(h, FaucetPlaces), NEW a
    PROVE  Granting(a)' = IF at'[h] = "grant" /\ arg'[h] = a
                          THEN Granting(a) \cup {h} ELSE Granting(a) \ {h}
<1>1. \A g \in Handlers : g # h => at'[g] = at[g] /\ arg'[g] = arg[g]
  BY DEF MovesIn
<1> QED
  BY <1>1 DEF Granting

LEMMA GrantingFinite ==
    ASSUME NEW a
    PROVE  IsFiniteSet(Granting(a)) /\ Cardinality(Granting(a)) \in Nat
<1>1. IsFiniteSet(Handlers) /\ Granting(a) \in SUBSET Handlers
  BY ServerAssumption DEF Granting
<1> QED
  BY <1>1, FS_Subset, FS_CardinalityType

LEMMA FaucetStepKept ==
    ASSUME Shape, Faucet, NEW h \in Handlers, FaucetStep(h)
    PROVE  Faucet'
<1> DEFINE pend(x) == Cardinality(Granting(x))
<1>1. MovesIn(h, FaucetPlaces) /\ arg[h] \in Accounts
  <2>1. arg[h] \in ArgAt(at[h]) /\ MovesIn(h, FaucetPlaces)
    BY FaucetMoves DEF Shape
  <2> QED
    BY <2>1 DEF MovesIn, FaucetPlaces, ArgAt
<1>a. PICK a \in Accounts : a = arg[h]
  BY <1>1
<1>2. /\ now' = now /\ now \in 0..MaxTime /\ now \in Nat
      /\ CoolOff \in Nat \ {0} /\ MaxTime \in Nat
  BY <1>1, ServerAssumption DEF MovesIn, Shape
<1>3. /\ lastFaucet \in [Accounts -> -CoolOff..MaxTime]
      /\ granted \in [Accounts -> Nat]
      /\ \A x \in Accounts : /\ lastFaucet[x] <= now /\ lastFaucet[x] \in Int
                             /\ CoolOff * (granted[x] + pend(x)) <= lastFaucet[x] + CoolOff
  BY <1>2 DEF Faucet
<1>4. \A x \in Accounts :
        Granting(x)' = IF at'[h] = "grant" /\ arg'[h] = x
                       THEN Granting(x) \cup {h} ELSE Granting(x) \ {h}
  BY <1>1, GrantingMoves
<1>5. \A x \in Accounts : IsFiniteSet(Granting(x)) /\ pend(x) \in Nat
  BY GrantingFinite
<1>6. \A x \in Accounts : h \in Granting(x) <=> at[h] = "grant" /\ a = x
  BY <1>a DEF Granting
<1> HIDE DEF pend
<1>7. SUFFICES /\ lastFaucet' \in [Accounts -> -CoolOff..MaxTime]
               /\ granted' \in [Accounts -> Nat]
               /\ \A x \in Accounts :
                    /\ lastFaucet'[x] <= now
                    /\ CoolOff * (granted'[x] + Cardinality(Granting(x)')) <= lastFaucet'[x] + CoolOff
  BY <1>2 DEF Faucet
<1>8. ASSUME NEW x \in Accounts, granted'[x] = granted[x], lastFaucet'[x] = lastFaucet[x],
             Granting(x)' = Granting(x)
      PROVE  CoolOff * (granted'[x] + Cardinality(Granting(x)')) <= lastFaucet'[x] + CoolOff
  BY <1>3, <1>8 DEF pend
<1>9. CASE AskFaucet(h)
  <2>1. at[h] = "faucet" /\ granted' = granted
    BY <1>9 DEF AskFaucet
  <2>2. \A x \in Accounts : h \notin Granting(x)
    BY <1>6, <2>1
  <2>3. CASE CoolingOff(a)
    <3>1. at'[h] = "idle" /\ lastFaucet' = lastFaucet
      BY <1>9, <1>a, <2>3, GotoMoves DEF AskFaucet, FaucetPlaces
    <3>2. \A x \in Accounts : Granting(x)' = Granting(x)
      BY <1>4, <2>2, <3>1
    <3> QED
      BY <1>3, <1>8, <2>1, <3>1, <3>2
  <2>4. CASE ~CoolingOff(a)
    <3>1. at'[h] = "grant" /\ lastFaucet' = [lastFaucet EXCEPT ![a] = now]
      BY <1>9, <1>a, <2>4, GotoMoves DEF AskFaucet, FaucetPlaces
    <3>2. arg'[h] = a
      BY <1>1, <1>a, <3>1 DEF MovesIn
    <3>3. \A x \in Accounts : x # a => Granting(x)' = Granting(x)
      BY <1>4, <2>2, <3>2
    <3>4. Cardinality(Granting(a)') = pend(a) + 1
      <4>1. Granting(a)' = Granting(a) \cup {h}
        BY <1>1, <1>4, <3>1, <3>2
      <4> QED
        BY <1>1, <1>5, <2>2, <4>1, OneIn DEF pend
    <3>5. now - lastFaucet[a] >= CoolOff
      BY <1>1, <1>2, <1>3, <2>4 DEF CoolingOff
    <3>6. CoolOff * (granted[a] + (pend(a) + 1)) <= now + CoolOff
      <4> DEFINE g == granted[a] + pend(a)
                 l == lastFaucet[a]
                 p == CoolOff * g
      <4>1. g \in Nat /\ l \in Int /\ p <= l + CoolOff /\ now - l >= CoolOff
        BY <1>1, <1>3, <1>5, <3>5
      <4>2. CoolOff * (g + 1) = p + CoolOff /\ p \in Nat
        BY <1>2, <4>1, Times
      <4>3. granted[a] + (pend(a) + 1) = g + 1
        BY <1>1, <1>3, <1>5
      <4> HIDE DEF g, l, p
      <4>4. CoolOff * (g + 1) <= now + CoolOff
        BY <1>2, <4>1, <4>2
      <4> QED
        BY <4>3, <4>4
    <3>7. /\ lastFaucet'[a] = now
          /\ \A x \in Accounts : x # a => lastFaucet'[x] = lastFaucet[x]
          /\ lastFaucet' \in [Accounts -> -CoolOff..MaxTime]
      <4>1. now \in -CoolOff..MaxTime
        BY <1>2
      <4> QED
        BY <1>1, <1>3, <3>1, <4>1
    <3>8. ASSUME NEW x \in Accounts
          PROVE  /\ lastFaucet'[x] <= now
                 /\ CoolOff * (granted'[x] + Cardinality(Granting(x)')) <= lastFaucet'[x] + CoolOff
      <4>1. CASE x = a
        BY <1>2, <2>1, <3>4, <3>6, <3>7, <4>1
      <4>2. CASE x # a
        BY <1>3, <1>8, <2>1, <3>3, <3>7, <4>2
      <4> QED
        BY <4>1, <4>2
    <3> QED
      BY <1>3, <2>1, <3>7, <3>8
  <2> QED
    BY <2>3, <2>4
<1>10. CASE Grant(h)
  <2>1. /\ at[h] = "grant" /\ lastFaucet' = lastFaucet
    BY <1>10 DEF Grant
  <2>2. /\ h \in Granting(a)
        /\ \A x \in Accounts : x # a => h \notin Granting(x)
    BY <1>1, <1>6, <2>1
  <2>3. \/ at'[h] = "seen" /\ granted' = [granted EXCEPT ![a] = @ + 1]
        \/ at'[h] = "idle" /\ granted' = granted
    BY <1>10, <1>a, GotoMoves DEF Grant, FaucetPlaces
  <2>4. \A x \in Accounts : Granting(x)' = Granting(x) \ {h}
    BY <1>4, <2>3
  <2>5. \A x \in Accounts : x # a => Granting(x)' = Granting(x)
    BY <2>2, <2>4
  <2>6. Cardinality(Granting(a)') = pend(a) - 1 /\ pend(a) # 0
    BY <1>1, <1>5, <2>2, <2>4, OneOut, FS_EmptySet DEF pend
  <2>7. granted' \in [Accounts -> Nat] /\ \A x \in Accounts : x # a => granted'[x] = granted[x]
    BY <1>1, <1>3, <2>3
  <2>8. CoolOff * (granted'[a] + (pend(a) - 1)) <= lastFaucet[a] + CoolOff
    <3> DEFINE g == granted[a] + pend(a)
               l == lastFaucet[a]
    <3>1. g \in Nat /\ g # 0 /\ l \in Int /\ CoolOff * g <= l + CoolOff
      BY <1>1, <1>3, <1>5, <2>6
    <3>2. CoolOff * (g - 1) <= CoolOff * g /\ CoolOff * g \in Nat /\ CoolOff * (g - 1) \in Nat
      <4>1. g - 1 \in Nat
        BY <3>1
      <4> QED
        BY <1>2, <3>1, <4>1, Times
    <3>3. granted'[a] + (pend(a) - 1) = g \/ granted'[a] + (pend(a) - 1) = g - 1
      <4> DEFINE x == granted[a]
                 y == granted'[a]
                 p == pend(a)
      <4>1. x \in Nat /\ p \in Nat /\ (y = x + 1 \/ y = x)
        BY <1>3, <1>5, <2>3
      <4> HIDE DEF x, y, p
      <4>2. y + (p - 1) = x + p \/ y + (p - 1) = (x + p) - 1
        BY <4>1
      <4> QED
        BY <4>2 DEF x, y, p
    <3> HIDE DEF g, l
    <3>4. CoolOff * (g - 1) <= l + CoolOff
      BY <1>2, <3>1, <3>2
    <3> QED
      BY <3>1, <3>3, <3>4 DEF l
  <2>9. ASSUME NEW x \in Accounts
        PROVE  /\ lastFaucet'[x] <= now
               /\ CoolOff * (granted'[x] + Cardinality(Granting(x)')) <= lastFaucet'[x] + CoolOff
    <3>1. CASE x = a
      BY <1>3, <2>1, <2>6, <2>8, <3>1
    <3>2. CASE x # a
      BY <1>3, <1>8, <2>1, <2>5, <2>7, <3>2
    <3> QED
      BY <3>1, <3>2
  <2> QED
    BY <1>3, <2>1, <2>7, <2>9
<1>11. CASE MarkSeen(h)
  <2>1. at[h] = "seen" /\ at'[h] = "idle" /\ UNCHANGED <<lastFaucet, granted>>
    BY <1>11, GotoMoves DEF MarkSeen, FaucetPlaces
  <2>2. \A x \in Accounts : Granting(x)' = Granting(x)
    BY <1>4, <1>6, <2>1
  <2> QED
    BY <1>3, <1>8, <2>1, <2>2
<1> QED
  BY <1>9, <1>10, <1>11 DEF FaucetStep

LEMMA FaucetElsewhere ==
    ASSUME Faucet, UNCHANGED <<lastFaucet, granted>>, Shape, Shape', now <= now',
           \A h \in Handlers : \/ at'[h] = at[h] /\ arg'[h] = arg[h]
                               \/ at[h] # "grant" /\ at'[h] # "grant"
    PROVE  Faucet'
<1>1. \A a : Granting(a)' = Granting(a)
  BY DEF Granting
<1>2. now \in Nat /\ now' \in Nat /\ MaxTime \in Nat /\ CoolOff \in Nat
  BY ServerAssumption DEF Shape
<1>3. ASSUME NEW a \in Accounts PROVE lastFaucet[a] <= now'
  BY <1>2 DEF Faucet
<1> QED
  BY <1>1, <1>3 DEF Faucet

LEMMA FaucetKept ==
    ASSUME Shape, Faucet, [Next]_vars
    PROVE  Faucet'
<1>1. ASSUME NEW h \in Handlers, FaucetStep(h) PROVE Faucet'
  BY <1>1, FaucetStepKept
<1>2. now \in Nat
  BY ServerAssumption DEF Shape
<1>3. ASSUME NEW h \in Handlers, NEW S \in {LimitPlaces, StreamPlaces, ButtonPlaces},
             MovesIn(h, S), UNCHANGED faucetVars
      PROVE  Faucet'
  <2>1. Shape'
    BY <1>3, MovesShape
  <2>2. at[h] # "grant" /\ at'[h] # "grant"
    BY <1>3 DEF MovesIn, LimitPlaces, StreamPlaces, ButtonPlaces
  <2>3. now <= now' /\ \A g \in Handlers : g # h => at'[g] = at[g] /\ arg'[g] = arg[g]
    BY <1>2, <1>3 DEF MovesIn
  <2> QED
    BY <1>3, <2>1, <2>2, <2>3, FaucetElsewhere DEF faucetVars
<1>4. ASSUME NEW h \in Handlers, Arrive(h) PROVE Faucet'
  <2>1. /\ at[h] = "idle" /\ at'[h] \in Kinds /\ Shape' /\ UNCHANGED <<now, faucetVars>>
        /\ \A g \in Handlers \ {h} : at'[g] = at[g] /\ arg'[g] = arg[g]
    BY <1>4, ArriveMoves
  <2>2. now <= now' /\ at[h] # "grant" /\ at'[h] # "grant"
    BY <1>2, <2>1 DEF Kinds
  <2> QED
    BY <2>1, <2>2, FaucetElsewhere DEF faucetVars
<1>5. Tick \/ NodeStep \/ UNCHANGED vars => Faucet'
  <2>1. Tick \/ NodeStep \/ UNCHANGED vars => UNCHANGED faucetVars
    BY DEF Tick, NodeStep, Detected, OwnSlash, Healed, vars
  <2> QED
    BY <2>1, OthersShape, FaucetElsewhere DEF faucetVars
<1> QED
  BY <1>1, <1>3, <1>4, <1>5, NextSteps, LimitMoves, StreamMoves, ButtonMoves

LEMMA Quotient ==
    ASSUME NEW c \in Nat \ {0}, NEW n \in Nat, NEW g \in Nat, c * g <= n + c
    PROVE  g <= 1 + n \div c
<1> DEFINE q == n \div c
           r == n % c
<1>1. q \in Nat /\ r \in 0..(c-1) /\ n = c * q + r
  OBVIOUS
<1> HIDE DEF q, r
<1>2. SUFFICES ASSUME g >= q + 2 PROVE FALSE
  BY <1>1 DEF q
<1>3. c * g >= c * (q + 2)
  BY <1>1, <1>2
<1>4. c * (q + 2) = c * q + 2 * c
  BY <1>1
<1> QED
  BY <1>1, <1>3, <1>4

LEMMA FaucetRate ==
    ASSUME Shape, Faucet
    PROVE  OncePerCoolOff
<1>1. SUFFICES ASSUME NEW a \in Accounts PROVE granted[a] <= 1 + now \div CoolOff
  BY DEF OncePerCoolOff
<1> DEFINE g == granted[a]
           p == Cardinality(Granting(a))
           l == lastFaucet[a]
<1>2. /\ g \in Nat /\ p \in Nat /\ l \in Int /\ l <= now /\ now \in Nat
      /\ CoolOff \in Nat \ {0} /\ CoolOff * (g + p) <= l + CoolOff
  BY GrantingFinite, ServerAssumption DEF Faucet, Shape
<1> HIDE DEF g, p, l
<1>3. CoolOff * (g + p) = CoolOff * g + CoolOff * p /\ CoolOff * p \in Nat /\ CoolOff * g \in Nat
  BY <1>2
<1>4. CoolOff * g <= now + CoolOff
  BY <1>2, <1>3
<1>5. g <= 1 + now \div CoolOff
  BY <1>2, <1>4, Quotient
<1> QED
  BY <1>5 DEF g

LEMMA SeenKept ==
    ASSUME Shape, SeenAccounts, [Next]_vars
    PROVE  SeenAccounts'
<1>1. ASSUME NEW h \in Handlers, MarkSeen(h) PROVE SeenAccounts'
  <2>1. arg[h] \in Accounts
    BY <1>1 DEF MarkSeen, Shape, ArgAt
  <2>2. CASE arg[h] \in seenSet
    BY <1>1, <2>2 DEF MarkSeen, SeenAccounts
  <2>3. CASE arg[h] \notin seenSet
    <3>1. /\ seenSet' = (seenSet \ Evicted(seenList, MaxSeen)) \cup {arg[h]}
          /\ seenList' = Queued(seenList, arg[h], MaxSeen)
      BY <1>1, <2>3 DEF MarkSeen
    <3>2. MaxSeen \in Nat \ {0}
      BY ServerAssumption
    <3> QED
      BY <2>1, <2>3, <3>1, <3>2, QueueKept DEF SeenAccounts
  <2> QED
    BY <2>2, <2>3
<1>2. ASSUME UNCHANGED <<seenList, seenSet>> PROVE SeenAccounts'
  BY <1>2 DEF SeenAccounts
<1>3. ASSUME NEW h \in Handlers, AskFaucet(h) \/ Grant(h)
      PROVE  UNCHANGED <<seenList, seenSet>>
  BY <1>3 DEF AskFaucet, Grant
<1>4. ASSUME NEW h \in Handlers, LimitStep(h) \/ StreamStep(h) \/ ButtonStep(h) \/ Arrive(h)
      PROVE  UNCHANGED <<seenList, seenSet>>
  BY <1>4, LimitMoves, StreamMoves, ButtonMoves DEF faucetVars, Arrive
<1>5. Tick \/ NodeStep \/ UNCHANGED vars => UNCHANGED <<seenList, seenSet>>
  BY DEF Tick, NodeStep, Detected, OwnSlash, Healed, vars, faucetVars
<1> QED
  BY <1>1, <1>2, <1>3, <1>4, <1>5, NextSteps DEF FaucetStep

-----------------------------------------------------------------------------
(***************************************************************************)
(* The fault button.  The lock makes the pieces of the budget one: while   *)
(* its holder adds it up, nobody else makes a validator faulty, and what a *)
(* slash takes out of byz meanwhile only makes the budget too cautious.    *)
(***************************************************************************)

LEMMA BudgetShrinks ==
    ASSUME NEW S \in SUBSET Nodes, NEW T \in SUBSET S, ~ReachesThird(S)
    PROVE  ~ReachesThird(T)
<1>1. Power(Stake, T) <= Power(Stake, S)
  BY StakeAssumption, PowerMonotone
<1>2. /\ Power(Stake, T) \in Nat /\ Power(Stake, S) \in Nat /\ Total(Stake) \in Nat
  BY StakeAssumption, PowerNat DEF Total
<1> DEFINE x == Power(Stake, T)
           y == Power(Stake, S)
           z == Total(Stake)
<1>3. x \in Nat /\ y \in Nat /\ z \in Nat /\ x <= y /\ ~(3 * y >= z)
  BY <1>1, <1>2 DEF ReachesThird
<1> HIDE DEF x, y, z
<1>4. ~(3 * x >= z)
  BY <1>3
<1> QED
  BY <1>4 DEF x, z, ReachesThird

\* Past the lock, h is alone.
LEMMA HolderAlone ==
    ASSUME Button, NEW h \in Handlers, at[h] \in {"asked", "budget"}
    PROVE  /\ h \in faultMu
           /\ \A g \in Handlers : g # h => g \notin faultMu /\ at[g] \notin {"asked", "budget"}
  BY DEF Button

LEMMA ButtonStepKept ==
    ASSUME Shape, Button, NEW h \in Handlers, ButtonStep(h)
    PROVE  Button'
<1>1. MovesIn(h, ButtonPlaces) /\ arg[h] \in Nodes
  <2>1. arg[h] \in ArgAt(at[h]) /\ MovesIn(h, ButtonPlaces)
    BY ButtonMoves DEF Shape
  <2> QED
    BY <2>1 DEF MovesIn, ButtonPlaces, ArgAt
<1>2. \A g \in Handlers : g # h => at'[g] = at[g] /\ arg'[g] = arg[g]
  BY <1>1 DEF MovesIn
<1>3. /\ faultMu \subseteq Handlers
      /\ read \in [Handlers -> SUBSET Nodes]
      /\ lost \in [Handlers -> SUBSET Nodes]
      /\ shown \in [Handlers -> SUBSET Nodes]
      /\ byz \subseteq Nodes /\ voted \subseteq Nodes /\ due \subseteq Nodes /\ flagged \subseteq Nodes
      /\ \A g \in Handlers : g \in faultMu <=> at[g] \in {"asked", "budget"}
      /\ \A g \in faultMu, k \in faultMu : g = k
      /\ \A g \in Handlers : at[g] = "budget" =>
            arg[g] \in lost[g] /\ byz \subseteq lost[g] \cup read[g]
      /\ ~ReachesThird(byz)
  BY DEF Button, FaultyBelowThird
<1>4. SUFFICES /\ faultMu' \subseteq Handlers
               /\ read' \in [Handlers -> SUBSET Nodes]
               /\ lost' \in [Handlers -> SUBSET Nodes]
               /\ shown' \in [Handlers -> SUBSET Nodes]
               /\ byz' \subseteq Nodes /\ voted' \subseteq Nodes
               /\ due' \subseteq Nodes /\ flagged' \subseteq Nodes
               /\ \A g \in Handlers : g \in faultMu' <=> at'[g] \in {"asked", "budget"}
               /\ \A g \in faultMu', k \in faultMu' : g = k
               /\ \A g \in Handlers : at'[g] = "budget" =>
                        arg'[g] \in lost'[g] /\ byz' \subseteq lost'[g] \cup read'[g]
               /\ ~ReachesThird(byz')
  BY DEF Button, FaultyBelowThird, ReachesThird
<1>5. CASE Lock(h)
  <2>1. /\ at[h] = "fault" /\ at'[h] = "asked" /\ faultMu = {} /\ faultMu' = faultMu \cup {h}
        /\ UNCHANGED <<read, lost, shown, byz, voted, due, flagged>>
    BY <1>5, GotoMoves DEF Lock, CanLock, ButtonPlaces, nodeVars
  <2> QED
    BY <1>2, <1>3, <2>1
<1>6. CASE AlreadyFaulty(h)
  <2>1. /\ at[h] = "asked" /\ at'[h] = "idle" /\ faultMu' = faultMu \ {h}
        /\ UNCHANGED <<read, lost, shown, byz, voted, due, flagged>>
    BY <1>6, GotoMoves DEF AlreadyFaulty, Unlocked, ButtonPlaces, nodeVars
  <2> QED
    BY <1>2, <1>3, <2>1
<1>7. CASE TakeSnapshot(h)
  <2>1. /\ at[h] = "asked" /\ at'[h] = "budget" /\ UNCHANGED <<faultMu, byz, voted, due, flagged>>
        /\ shown' = [shown EXCEPT ![h] = flagged]
        /\ lost' = [lost EXCEPT ![h] = {arg[h]}]
        /\ read' = [read EXCEPT ![h] = Nodes \ {arg[h]}]
    BY <1>7, GotoMoves DEF TakeSnapshot, ButtonPlaces, nodeVars
  <2>2. /\ arg'[h] = arg[h] /\ lost'[h] = {arg[h]} /\ read'[h] = Nodes \ {arg[h]}
    BY <1>1, <1>3, <2>1 DEF MovesIn
  <2>3. \A g \in Handlers : g # h => at'[g] # "budget"
    BY <1>2, <2>1, HolderAlone
  <2>4. arg'[h] \in lost'[h] /\ byz' \subseteq lost'[h] \cup read'[h]
    BY <1>3, <2>1, <2>2
  <2>5. /\ read' \in [Handlers -> SUBSET Nodes] /\ lost' \in [Handlers -> SUBSET Nodes]
        /\ shown' \in [Handlers -> SUBSET Nodes]
    BY <1>1, <1>3, <2>1
  <2> QED
    BY <1>2, <1>3, <2>1, <2>3, <2>4, <2>5
<1>8. CASE ReadFlag(h)
  <2>1. PICK v \in read[h] :
            /\ lost' = [lost EXCEPT ![h] = IF v \in shown[h] \cup byz THEN @ \cup {v} ELSE @]
            /\ read' = [read EXCEPT ![h] = @ \ {v}]
    BY <1>8 DEF ReadFlag
  <2>2. at[h] = "budget" /\ UNCHANGED <<at, arg, faultMu, shown, byz, voted, due, flagged>>
    BY <1>8 DEF ReadFlag, nodeVars
  <2>3. v \in Nodes
    BY <1>3, <2>1
  <2>4. /\ lost'[h] = IF v \in shown[h] \cup byz THEN lost[h] \cup {v} ELSE lost[h]
        /\ read'[h] = read[h] \ {v}
        /\ read' \in [Handlers -> SUBSET Nodes] /\ lost' \in [Handlers -> SUBSET Nodes]
    BY <1>3, <2>1, <2>3
  <2>5. \A g \in Handlers : g # h => at'[g] # "budget"
    BY <2>2, HolderAlone
  <2>6. arg'[h] \in lost'[h] /\ byz' \subseteq lost'[h] \cup read'[h]
    BY <1>3, <2>2, <2>4
  <2> QED
    BY <1>3, <2>2, <2>4, <2>5, <2>6
<1>9. CASE Decide(h)
  <2>1. /\ at[h] = "budget" /\ at'[h] = "idle" /\ faultMu' = faultMu \ {h} /\ read[h] = {}
        /\ byz' = IF ReachesThird(lost[h]) THEN byz ELSE byz \cup {arg[h]}
        /\ voted' = voted \cup byz'
        /\ lost' = [lost EXCEPT ![h] = {}]
        /\ shown' = [shown EXCEPT ![h] = {}]
        /\ UNCHANGED <<read, due, flagged>>
    BY <1>9, GotoMoves DEF Decide, Unlocked, ButtonPlaces
  <2>2. \A g \in Handlers : at'[g] # "budget"
    BY <1>2, <2>1, HolderAlone
  <2>3. ~ReachesThird(byz')
    <3>1. byz \cup {arg[h]} \subseteq lost[h]
      BY <1>3, <2>1
    <3> QED
      BY <1>3, <2>1, <3>1, BudgetShrinks
  <2>4. /\ lost' \in [Handlers -> SUBSET Nodes] /\ shown' \in [Handlers -> SUBSET Nodes]
        /\ byz' \subseteq Nodes /\ voted' \subseteq Nodes
    BY <1>1, <1>3, <2>1
  <2>5. /\ \A g \in Handlers : g \in faultMu' <=> at'[g] \in {"asked", "budget"}
        /\ faultMu' \subseteq Handlers /\ \A g \in faultMu', k \in faultMu' : g = k
    BY <1>2, <1>3, <2>1
  <2> QED
    BY <1>3, <2>1, <2>2, <2>3, <2>4, <2>5
<1> QED
  BY <1>5, <1>6, <1>7, <1>8, <1>9 DEF ButtonStep

\* A slash or a heal while the budget is added up takes nobody into byz.
LEMMA ButtonElsewhere ==
    ASSUME Button, UNCHANGED buttonVars, byz' \subseteq byz, voted' = voted,
           due' \subseteq Nodes, flagged' \subseteq Nodes,
           \A h \in Handlers : \/ at'[h] = at[h] /\ arg'[h] = arg[h]
                               \/ {at[h], at'[h]} \cap {"asked", "budget"} = {}
    PROVE  Button'
<1>1. byz \subseteq Nodes /\ byz' \subseteq Nodes /\ voted \subseteq Nodes /\ ~ReachesThird(byz)
  BY DEF Button, FaultyBelowThird
<1>2. ~ReachesThird(byz')
  BY <1>1, BudgetShrinks
<1>3. \A h \in Handlers : at'[h] \in {"asked", "budget"} <=> at[h] \in {"asked", "budget"}
  OBVIOUS
<1>4. \A h \in Handlers : at'[h] = "budget" => at[h] = "budget" /\ arg'[h] = arg[h]
  OBVIOUS
<1>5. UNCHANGED <<faultMu, read, lost, shown>>
  BY DEF buttonVars
<1>6. FaultyBelowThird'
  BY <1>2 DEF FaultyBelowThird, ReachesThird
<1>7. \A h \in Handlers : at'[h] = "budget" =>
            arg'[h] \in lost'[h] /\ byz' \subseteq lost'[h] \cup read'[h]
  BY <1>4, <1>5 DEF Button
<1>8. {byz', voted', due', flagged'} \subseteq SUBSET Nodes
  BY <1>1
<1>9. \A h \in Handlers : h \in faultMu' <=> at'[h] \in {"asked", "budget"}
  BY <1>3, <1>5 DEF Button
<1>10. /\ faultMu' \subseteq Handlers
       /\ read' \in [Handlers -> SUBSET Nodes]
       /\ lost' \in [Handlers -> SUBSET Nodes]
       /\ shown' \in [Handlers -> SUBSET Nodes]
       /\ \A g, h \in faultMu' : g = h
  BY <1>5 DEF Button
<1> QED
  BY <1>6, <1>7, <1>8, <1>9, <1>10 DEF Button

LEMMA ButtonKept ==
    ASSUME Shape, Button, [Next]_vars
    PROVE  Button'
<1>1. ASSUME NEW h \in Handlers, ButtonStep(h) PROVE Button'
  BY <1>1, ButtonStepKept
<1>2. byz \subseteq Nodes /\ voted \subseteq Nodes /\ due \subseteq Nodes /\ flagged \subseteq Nodes
  BY DEF Button
<1>3. ASSUME NEW h \in Handlers, NEW S \in {LimitPlaces, StreamPlaces, FaucetPlaces},
             MovesIn(h, S), UNCHANGED <<buttonVars, nodeVars>>
      PROVE  Button'
  <2>1. {at[h], at'[h]} \cap {"asked", "budget"} = {}
    BY <1>3 DEF MovesIn, LimitPlaces, StreamPlaces, FaucetPlaces
  <2> QED
    BY <1>2, <1>3, <2>1, ButtonElsewhere DEF MovesIn, nodeVars
<1>4. ASSUME NEW h \in Handlers, Arrive(h) PROVE Button'
  <2>1. {at[h], at'[h]} \cap {"asked", "budget"} = {}
    BY <1>4, ArriveMoves DEF Kinds
  <2>2. /\ UNCHANGED <<buttonVars, nodeVars>>
        /\ \A g \in Handlers \ {h} : at'[g] = at[g] /\ arg'[g] = arg[g]
    BY <1>4, ArriveMoves
  <2> QED
    BY <1>2, <2>1, <2>2, ButtonElsewhere DEF nodeVars
<1>5. Tick \/ NodeStep \/ UNCHANGED vars => Button'
  <2>1. ASSUME Tick \/ NodeStep \/ UNCHANGED vars
        PROVE  /\ UNCHANGED <<at, arg, buttonVars, voted>> /\ byz' \subseteq byz
               /\ due' \subseteq Nodes /\ flagged' \subseteq Nodes
    BY <1>2, <2>1 DEF Tick, NodeStep, Detected, OwnSlash, Healed, vars, nodeVars
  <2> QED
    BY <2>1, ButtonElsewhere
<1> QED
  BY <1>1, <1>3, <1>4, <1>5, NextSteps, LimitMoves, StreamMoves, FaucetMoves

-----------------------------------------------------------------------------
(* The theorems *)

LEMMA ServerStep == ServerInv /\ [Next]_vars => ServerInv'
<1> SUFFICES ASSUME ServerInv, [Next]_vars PROVE ServerInv'
  OBVIOUS
<1>1. Shape /\ Limiter /\ Metered /\ Streams /\ Faucet /\ SeenAccounts /\ Button
  BY DEF ServerInv
<1>2. Shape'
  <2>1. ASSUME NEW h \in Handlers, LimitStep(h) \/ StreamStep(h) \/ FaucetStep(h) \/ ButtonStep(h)
        PROVE  Shape'
    BY <1>1, <2>1, LimitMoves, StreamMoves, FaucetMoves, ButtonMoves, MovesShape
  <2> QED
    BY <1>1, <2>1, NextSteps, ArriveMoves, OthersShape
<1> QED
  BY <1>1, <1>2, LimiterKept, MeteredKept, StreamsKept, FaucetKept, SeenKept, ButtonKept
     DEF ServerInv

\* Initially nobody is served, every bucket is full and no stake is faulty.
LEMMA ServerInit ==
    ASSUME Total(Stake) > 0, Init
    PROVE  ServerInv
<1>1. Shape
  <2>1. 0 \in 0..MaxTime
    BY ServerAssumption
  <2> QED
    BY <2>1 DEF Init, Shape, Places, ArgAt
<1>2. ToSet(<<>>) = {} /\ IsInjective(<<>>) /\ Len(<<>>) = 0
  BY DEF ToSet, IsInjective
<1>3. Limiter
  <2>1. GlobalBurst \in 0..GlobalBurst /\ Burst \in 0..Burst
    BY ServerAssumption
  <2> QED
    BY <1>2, <2>1, ServerAssumption DEF Init, Limiter
<1>4. Metered
  <2> DEFINE f == [u \in 0..0 |-> 0]
  <2>1. now = 0 /\ admitted = [t \in 0..MaxTime |-> 0] /\ global = GlobalBurst
    BY DEF Init
  <2>2. 0 \in 0..MaxTime /\ GlobalBurst \in Nat /\ GlobalRate \in Nat /\ MaxTime \in Nat
    BY ServerAssumption
  <2>3. f[0] = 0 /\ \A u \in 0..0 : u = 0 /\ f[u] = 0
    OBVIOUS
  <2>4. IsPassed(f, admitted, 0, 0)
    BY <2>1, <2>2, <2>3 DEF IsPassed
  <2>5. GlobalRate * (0 - 0) = 0
    BY <2>2
  <2> HIDE DEF f
  <2>6. \A s \in 0..0 : s = 0
    OBVIOUS
  <2>7. \A s \in 0..now : \E g :
            /\ IsPassed(g, admitted, s, now)
            /\ \A t \in s..now : g[t] \in Nat
            /\ g[now] + global <= GlobalBurst + GlobalRate * (now - s)
    BY <2>1, <2>2, <2>3, <2>4, <2>5, <2>6
  <2> QED
    BY <2>1, <2>2, <2>7 DEF Metered
<1>5. \A S : "idle" \notin S => CountedAt(S) = {}
  BY DEF Init, CountedAt
<1>6. Streams
  <2>1. /\ CountedAt({"counted", "streaming", "leaving"}) = {}
        /\ CountedAt({"counted", "streaming"}) = {} /\ \A i \in Hosts : OpenFor(i) = {}
    BY <1>5 DEF OpenFor
  <2>2. MaxViewers \in Nat /\ MaxViewersPerIP \in Nat
    BY ServerAssumption
  <2>3. viewers = 0 /\ byIP = [i \in Hosts |-> 0]
    BY DEF Init
  <2>4. Cardinality({}) = 0
    BY FS_EmptySet
  <2> QED
    BY <2>1, <2>2, <2>3, <2>4 DEF Streams
<1>7. Faucet
  <2>1. \A a \in Accounts : Granting(a) = {}
    BY DEF Init, Granting
  <2>2. CoolOff \in Nat /\ MaxTime \in Nat /\ -CoolOff \in -CoolOff..MaxTime /\ -CoolOff <= 0
    BY ServerAssumption
  <2>3. CoolOff * (0 + 0) = 0 /\ -CoolOff + CoolOff = 0
    BY <2>2
  <2>4. /\ lastFaucet = [a \in Accounts |-> -CoolOff] /\ granted = [a \in Accounts |-> 0]
        /\ now = 0
    BY DEF Init
  <2>5. ASSUME NEW a \in Accounts
        PROVE  /\ lastFaucet[a] <= now
               /\ CoolOff * (granted[a] + Cardinality(Granting(a))) <= lastFaucet[a] + CoolOff
    BY <2>1, <2>2, <2>3, <2>4, FS_EmptySet
  <2> QED
    BY <2>2, <2>4, <2>5 DEF Faucet
<1>8. SeenAccounts
  BY <1>2, ServerAssumption DEF Init, SeenAccounts
<1>9. Button
  <2>1. ~ReachesThird({})
    <3>1. Power(Stake, {}) = 0 /\ Total(Stake) \in Nat
      BY StakeAssumption, PowerEmpty, PowerNat DEF Total
    <3> QED
      BY <3>1 DEF ReachesThird
  <2> QED
    BY <2>1 DEF Init, Button, FaultyBelowThird
<1> QED
  BY <1>1, <1>3, <1>4, <1>6, <1>7, <1>8, <1>9 DEF ServerInv

\* What every behaviour of the server keeps, whatever its limits and however
\* its requests interleave; the validators of its cluster have some stake.
THEOREM ServerInvariant ==
    ASSUME Total(Stake) > 0
    PROVE  Spec => []ServerInv
<1>1. Init => ServerInv
  BY ServerInit
<1>2. ServerInv /\ [Next]_vars => ServerInv'
  BY ServerStep
<1> QED
  BY <1>1, <1>2, PTL DEF Spec

\* The limiter's buckets, the counters and the faucet's times keep their
\* ranges: no counter of streams ever goes below zero.
THEOREM ServerTypes ==
    ASSUME Total(Stake) > 0
    PROVE  Spec => []TypeOK
<1>1. ServerInv => TypeOK
  <2> SUFFICES ASSUME ServerInv PROVE TypeOK
    OBVIOUS
  <2>1. seenSet \subseteq Accounts
    <3>1. DOMAIN seenList = 1..Len(seenList) /\ \A i \in 1..Len(seenList) : seenList[i] \in Accounts
      BY LenProperties, ElementOfSeq DEF ServerInv, SeenAccounts
    <3> QED
      BY <3>1 DEF ServerInv, SeenAccounts, ToSet
  <2> QED
    BY <2>1 DEF ServerInv, Shape, Limiter, Streams, Faucet, Button, TypeOK
<1> QED
  BY <1>1, ServerInvariant, PTL

\* However requests from many hosts come together, the shared bucket passes no
\* more of them in any stretch of time than its burst and what accrued in it.
THEOREM NeverOverRateHolds ==
    ASSUME Total(Stake) > 0
    PROVE  Spec => []NeverOverRate
<1>1. ServerInv => NeverOverRate
  BY MeteredRate DEF ServerInv
<1> QED
  BY <1>1, ServerInvariant, PTL

\* Both bounded registries agree with their queues and stay within their bound,
\* and no two hosts ever share a bucket, whatever is evicted while a handler
\* still has the evicted bucket in hand.
THEOREM RegistriesHold ==
    ASSUME Total(Stake) > 0
    PROVE  Spec => []Registries
<1>1. ServerInv => Registries
  BY DEF ServerInv, Limiter, SeenAccounts, Registries
<1> QED
  BY <1>1, ServerInvariant, PTL

\* The counters of streams are exact in every interleaving of arrivals, refusals
\* and ends of streams, and the limits on open streams hold.
THEOREM StreamsCountedHolds ==
    ASSUME Total(Stake) > 0
    PROVE  Spec => []StreamsCounted
<1>1. ServerInv => StreamsCounted
  BY DEF ServerInv, Streams, StreamsCounted, CountedAt, OpenFor
<1> QED
  BY <1>1, ServerInvariant, PTL

\* An account is granted coins at most once per cool-off, however many of its
\* requests are handled at once and however late their grants are submitted.
THEOREM OncePerCoolOffHolds ==
    ASSUME Total(Stake) > 0
    PROVE  Spec => []OncePerCoolOff
<1>1. ServerInv => OncePerCoolOff
  BY FaucetRate DEF ServerInv
<1> QED
  BY <1>1, ServerInvariant, PTL

\* The fault button never takes the stake that is double-voting to a third,
\* whoever presses it and whatever is slashed or healed while it adds up.
THEOREM FaultyBelowThirdHolds ==
    ASSUME Total(Stake) > 0
    PROVE  Spec => []FaultyBelowThird
<1>1. ServerInv => FaultyBelowThird
  BY DEF ServerInv, Button
<1> QED
  BY <1>1, ServerInvariant, PTL

\* The lock of the fault button has at most one holder, who is between its
\* first check and its answer: every way out gives it back.
THEOREM LockReleasedHolds ==
    ASSUME Total(Stake) > 0
    PROVE  Spec => []LockReleased
<1>1. ServerInv => LockReleased
  <2> SUFFICES ASSUME ServerInv PROVE LockReleased
    OBVIOUS
  <2>1. /\ faultMu \subseteq Handlers
        /\ \A h \in Handlers : h \in faultMu <=> at[h] \in {"asked", "budget"}
        /\ \A g, h \in faultMu : g = h
    BY DEF ServerInv, Button
  <2>2. Cardinality(faultMu) <= 1
    <3>1. CASE faultMu = {}
      BY <3>1, FS_EmptySet
    <3>2. CASE faultMu # {}
      <4>1. PICK h : faultMu = {h}
        BY <2>1, <3>2
      <4>2. Cardinality({h}) = 1
        BY FS_Singleton
      <4> QED
        BY <4>1, <4>2
    <3> QED
      BY <3>1, <3>2
  <2> QED
    BY <2>1, <2>2 DEF LockReleased
<1> QED
  BY <1>1, ServerInvariant, PTL
=============================================================================
