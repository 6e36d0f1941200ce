------------------------------- MODULE Server -------------------------------
(***************************************************************************)
(* The request handlers of cmd/dyld/main.go that decide by what other      *)
(* requests did: the rate limiters in front of them, the count of live     *)
(* event streams, the faucet's cool-off, and the fault button with its     *)
(* budget.  Every request runs on a goroutine of its own, here a handler;  *)
(* a step is the code between two points where another one can notice: an  *)
(* atomic operation, a section under a lock.                               *)
(*                                                                         *)
(* What the handlers call in the cluster is here only as far as they see   *)
(* it: validators that double-vote are flagged as slashed, stop voting     *)
(* twice when they apply their own slash, and heal (module Consensus).     *)
(***************************************************************************)
EXTENDS Validators, FiniteSets, SequencesExt

CONSTANTS
    Handlers,     \* goroutines that serve requests
    Hosts,        \* network addresses requests come from
    Accounts,     \* chain addresses that ask the faucet
    Mixes,        \* which kinds of request come together in a behaviour
    Rate, Burst,  \* of one host's bucket: tokens per tick, and at most
    GlobalRate, GlobalBurst,   \* the same of the bucket all hosts share
    MaxTracked,   \* how many hosts have a bucket of their own
    MaxViewers, MaxViewersPerIP,   \* event streams at a time
    CoolOff,      \* ticks between two grants to an account
    MaxSeen,      \* how many accounts the list of seen ones keeps
    MaxTime       \* bound: how often the clock ticks

ASSUME ServerAssumption ==
    /\ {Rate, Burst, GlobalRate, GlobalBurst, MaxTracked, MaxTime} \subseteq Nat
    /\ {MaxViewers, MaxViewersPerIP, CoolOff, MaxSeen} \subseteq Nat
    /\ MaxTracked > 0 /\ MaxSeen > 0 /\ CoolOff > 0
    /\ IsFiniteSet(Handlers)

VARIABLES
    mix,         \* the kinds of request of this behaviour
    now,         \* the clock
    at,          \* where each handler is
    arg,         \* the host, account or validator its request is about
    \* the limiter
    global,      \* tokens in the shared bucket
    tokens,      \* tokens in each bucket
    owned,       \* the bucket of a host, 0: none
    order,       \* the hosts with a bucket, oldest first
    held,        \* the bucket a handler has looked up, 0: none
    admitted,    \* how many requests the shared bucket let pass at each time
    \* streams
    viewers,     \* the counter of streams
    byIP,        \* the counters per host; an absent key is zero
    \* the faucet
    lastFaucet,  \* when each account was last granted coins
    granted,     \* how often it was
    seenList,    \* accounts seen, oldest first
    seenSet,     \* the same, for lookup
    \* the fault button
    faultMu,     \* the handlers that hold the lock
    read,        \* the validators a handler still has to read the flag of
    lost,        \* the validators it found faulty or slashed
    shown,       \* the validators its snapshot shows as slashed
    byz,         \* the validators that are double-voting
    voted,       \* those that ever were: their votes may be anywhere
    due,         \* those that have their own slash ahead of them
    flagged      \* those the cluster shows as slashed

limitVars  == <<global, tokens, owned, order, held, admitted>>
streamVars == <<viewers, byIP>>
faucetVars == <<lastFaucet, granted, seenList, seenSet>>
buttonVars == <<faultMu, read, lost, shown>>
nodeVars   == <<byz, voted, due, flagged>>
vars == <<mix, now, at, arg, limitVars, streamVars, faucetVars, buttonVars, nodeVars>>

\* As many buckets as can be in the map or in somebody's hands.
Buckets == 1..(MaxTracked + Cardinality(Handlers))

Nothing == 0

\* The next place of a handler; one whose request is answered forgets it.
Goto(h, place) ==
    /\ at' = [at EXCEPT ![h] = place]
    /\ arg' = [arg EXCEPT ![h] = IF place = "idle" THEN Nothing ELSE @]

Init ==
    /\ mix \in Mixes /\ now = 0
    /\ at = [h \in Handlers |-> "idle"] /\ arg = [h \in Handlers |-> Nothing]
    /\ global = GlobalBurst /\ tokens = [k \in Buckets |-> Burst]
    /\ owned = [i \in Hosts |-> 0] /\ order = <<>> /\ held = [h \in Handlers |-> 0]
    /\ admitted = [t \in 0..MaxTime |-> 0]
    /\ viewers = 0 /\ byIP = [i \in Hosts |-> 0]
    /\ lastFaucet = [a \in Accounts |-> -CoolOff] /\ granted = [a \in Accounts |-> 0]
    /\ seenList = <<>> /\ seenSet = {}
    /\ faultMu = {} /\ read = [h \in Handlers |-> {}] /\ lost = [h \in Handlers |-> {}]
    /\ shown = [h \in Handlers |-> {}]
    /\ byz = {} /\ voted = {} /\ due = {} /\ flagged = {}

\* A request comes in, and where its handler starts.
Kinds == {"read", "events", "faucet", "fault"}
About(kind) ==
    CASE kind \in {"read", "events"} -> Hosts
      [] kind = "faucet"             -> Accounts
      [] kind = "fault"              -> Nodes

ASSUME MixesAssumption == Mixes \subseteq SUBSET Kinds

Arrive(h) ==
    /\ at[h] = "idle"
    /\ \E kind \in mix : \E x \in About(kind) :
        /\ at' = [at EXCEPT ![h] = kind]
        /\ arg' = [arg EXCEPT ![h] = x]
    /\ UNCHANGED <<mix, now, limitVars, streamVars, faucetVars, buttonVars, nodeVars>>

-----------------------------------------------------------------------------
(***************************************************************************)
(* readLimited and writeLimited: ipLimiters.allow, which spends a token of *)
(* the shared bucket, looks the host's own bucket up under a lock, making  *)
(* it if need be, and spends one of its tokens without that lock.          *)
(***************************************************************************)

Accrued_Uncapped(amount, rate, burst) == amount + rate
Accrued(amount, rate, burst) == IF amount + rate > burst THEN burst ELSE amount + rate

\* Time passes.  Tokens are added up when a bucket is next asked; adding them
\* as time passes comes to the same.
Tick ==
    /\ now < MaxTime
    /\ now' = now + 1
    /\ global' = Accrued(global, GlobalRate, GlobalBurst)
    /\ tokens' = [k \in Buckets |-> Accrued(tokens[k], Rate, Burst)]
    /\ UNCHANGED <<mix, at, arg, owned, order, held, admitted,
                   streamVars, faucetVars, buttonVars, nodeVars>>

SpendGlobal(h) ==
    /\ at[h] = "read"
    /\ IF global >= 1
       THEN /\ Goto(h, "lookup")
            /\ global' = global - 1
            /\ admitted' = [admitted EXCEPT ![now] = @ + 1]
       ELSE Goto(h, "idle") /\ UNCHANGED <<global, admitted>>
    /\ UNCHANGED <<mix, now, tokens, owned, order, held,
                   streamVars, faucetVars, buttonVars, nodeVars>>

\* The oldest entry makes room for a new one.
Evicted_Nobody(list, cap) == {}
Evicted(list, cap) == IF Len(list) >= cap THEN {Head(list)} ELSE {}

Queued(list, x, cap) == Append(IF Len(list) >= cap THEN Tail(list) ELSE list, x)

\* A new bucket is full of tokens.
Lookup(h) ==
    /\ at[h] = "lookup"
    /\ LET i == arg[h]
           k == CHOOSE k \in Buckets :
                    \A x \in Hosts, g \in Handlers : owned[x] # k /\ held[g] # k
       IN  IF owned[i] # 0
           THEN /\ held' = [held EXCEPT ![h] = owned[i]]
                /\ UNCHANGED <<tokens, owned, order>>
           ELSE /\ held' = [held EXCEPT ![h] = k]
                /\ tokens' = [tokens EXCEPT ![k] = Burst]
                /\ owned' = [x \in Hosts |-> IF x = i THEN k
                                             ELSE IF x \in Evicted(order, MaxTracked) THEN 0
                                             ELSE owned[x]]
                /\ order' = Queued(order, i, MaxTracked)
    /\ Goto(h, "spend")
    /\ UNCHANGED <<mix, now, global, admitted,
                   streamVars, faucetVars, buttonVars, nodeVars>>

SpendOwn(h) ==
    /\ at[h] = "spend"
    /\ LET k == held[h] IN
        tokens' = [tokens EXCEPT ![k] = IF @ >= 1 THEN @ - 1 ELSE @]
    /\ held' = [held EXCEPT ![h] = 0]
    /\ Goto(h, "idle")
    /\ UNCHANGED <<mix, now, global, owned, order, admitted,
                   streamVars, faucetVars, buttonVars, nodeVars>>

-----------------------------------------------------------------------------
(***************************************************************************)
(* handleEvents: a stream counts itself in, twice, before it subscribes,   *)
(* and out again in the opposite order when it ends, for whatever reason.  *)
(***************************************************************************)

Viewing(h) ==
    /\ at[h] = "events"
    /\ viewers' = viewers + 1
    /\ Goto(h, IF viewers' > MaxViewers THEN "leaving" ELSE "counted")
    /\ UNCHANGED <<mix, now, byIP, limitVars, faucetVars, buttonVars, nodeVars>>

\* The host's counter, under the server's lock.
TooMany_NoRollback(h) == "idle"
TooMany(h) == "leaving"

Opening(h) ==
    /\ at[h] = "counted"
    /\ IF byIP[arg[h]] >= MaxViewersPerIP
       THEN Goto(h, TooMany(h)) /\ UNCHANGED byIP
       ELSE Goto(h, "streaming") /\ byIP' = [byIP EXCEPT ![arg[h]] = @ + 1]
    /\ UNCHANGED <<mix, now, viewers, limitVars, faucetVars, buttonVars, nodeVars>>

\* The client has gone, its time is over, or a write failed.
Closing(h) ==
    /\ at[h] = "streaming"
    /\ byIP' = [byIP EXCEPT ![arg[h]] = @ - 1]
    /\ Goto(h, "leaving")
    /\ UNCHANGED <<mix, now, viewers, limitVars, faucetVars, buttonVars, nodeVars>>

Leaving(h) ==
    /\ at[h] = "leaving"
    /\ viewers' = viewers - 1
    /\ Goto(h, "idle")
    /\ UNCHANGED <<mix, now, byIP, limitVars, faucetVars, buttonVars, nodeVars>>

-----------------------------------------------------------------------------
(***************************************************************************)
(* handleFaucet: the cool-off is checked and started under the lock; the   *)
(* grant is signed and submitted later, and may be refused, which does not *)
(* take the cool-off back; then the account goes on the list of seen ones. *)
(***************************************************************************)

CoolingOff(a) == now - lastFaucet[a] < CoolOff

\* The lock given up between the check and the start: a request passes that has
\* checked before another one, not answered yet, started the cool-off.
AskFaucet_LockTwice(h) ==
    /\ at[h] = "faucet"
    /\ IF CoolingOff(arg[h]) /\ \A g \in Handlers : ~(at[g] = "grant" /\ arg[g] = arg[h])
       THEN Goto(h, "idle") /\ UNCHANGED lastFaucet
       ELSE Goto(h, "grant") /\ lastFaucet' = [lastFaucet EXCEPT ![arg[h]] = now]
    /\ UNCHANGED <<mix, now, granted, seenList, seenSet,
                   limitVars, streamVars, buttonVars, nodeVars>>

AskFaucet(h) ==
    /\ at[h] = "faucet"
    /\ IF CoolingOff(arg[h])
       THEN Goto(h, "idle") /\ UNCHANGED lastFaucet
       ELSE Goto(h, "grant") /\ lastFaucet' = [lastFaucet EXCEPT ![arg[h]] = now]
    /\ UNCHANGED <<mix, now, granted, seenList, seenSet,
                   limitVars, streamVars, buttonVars, nodeVars>>

Grant(h) ==
    /\ at[h] = "grant"
    /\ \/ Goto(h, "seen") /\ granted' = [granted EXCEPT ![arg[h]] = @ + 1]
       \/ Goto(h, "idle") /\ UNCHANGED granted
    /\ UNCHANGED <<mix, now, lastFaucet, seenList, seenSet,
                   limitVars, streamVars, buttonVars, nodeVars>>

MarkSeen(h) ==
    /\ at[h] = "seen"
    /\ LET a == arg[h] IN
        IF a \in seenSet
        THEN UNCHANGED <<seenList, seenSet>>
        ELSE /\ seenSet' = (seenSet \ Evicted(seenList, MaxSeen)) \cup {a}
             /\ seenList' = Queued(seenList, a, MaxSeen)
    /\ Goto(h, "idle")
    /\ UNCHANGED <<mix, now, lastFaucet, granted,
                   limitVars, streamVars, buttonVars, nodeVars>>

-----------------------------------------------------------------------------
(***************************************************************************)
(* handleFault, under a lock of its own from the first check to MakeFaulty *)
(* because the budget is read piece by piece: a snapshot of who is shown   *)
(* as slashed, then the double-voting flag of one validator after another. *)
(***************************************************************************)

CanLock_Always(h) == TRUE
CanLock(h) == faultMu = {}

Lock(h) ==
    /\ at[h] = "fault"
    /\ CanLock(h)
    /\ faultMu' = faultMu \cup {h}
    /\ Goto(h, "asked")
    /\ UNCHANGED <<mix, now, read, lost, shown,
                   limitVars, streamVars, faucetVars, nodeVars>>

\* Nothing to do for a validator that is double-voting already.
Unlocked_Kept(h) == faultMu
Unlocked(h) == faultMu \ {h}

AlreadyFaulty(h) ==
    /\ at[h] = "asked"
    /\ arg[h] \in byz
    /\ faultMu' = Unlocked(h)
    /\ Goto(h, "idle")
    /\ UNCHANGED <<mix, now, read, lost, shown,
                   limitVars, streamVars, faucetVars, nodeVars>>

TakeSnapshot(h) ==
    /\ at[h] = "asked"
    /\ arg[h] \notin byz
    /\ shown' = [shown EXCEPT ![h] = flagged]
    /\ lost' = [lost EXCEPT ![h] = {arg[h]}]
    /\ read' = [read EXCEPT ![h] = Nodes \ {arg[h]}]
    /\ Goto(h, "budget")
    /\ UNCHANGED <<mix, now, faultMu, limitVars, streamVars, faucetVars, nodeVars>>

ReadFlag(h) ==
    /\ at[h] = "budget"
    /\ \E v \in read[h] :
        /\ \A u \in read[h] : v <= u
        /\ lost' = [lost EXCEPT ![h] = IF v \in shown[h] \cup byz THEN @ \cup {v} ELSE @]
        /\ read' = [read EXCEPT ![h] = @ \ {v}]
    /\ UNCHANGED <<mix, now, at, arg, faultMu, shown,
                   limitVars, streamVars, faucetVars, nodeVars>>

ReachesThird(S) == 3 * Power(Stake, S) >= Total(Stake)

Decide(h) ==
    /\ at[h] = "budget"
    /\ read[h] = {}
    /\ byz' = IF ReachesThird(lost[h]) THEN byz ELSE byz \cup {arg[h]}
    /\ voted' = voted \cup byz'
    /\ faultMu' = Unlocked(h)
    /\ lost' = [lost EXCEPT ![h] = {}]
    /\ shown' = [shown EXCEPT ![h] = {}]
    /\ Goto(h, "idle")
    /\ UNCHANGED <<mix, now, read, due, flagged, limitVars, streamVars, faucetVars>>

\* What the nodes do meanwhile.  Somebody pulls a double vote of v and shows it
\* as slashed: v itself too, whose slash is then due, or only another node, which
\* may be so far behind that v has been slashed and healed since ...
Detected(v) ==
    /\ v \in voted
    /\ flagged' = flagged \cup {v}
    /\ \/ v \in byz /\ due' = due \cup {v}
       \/ UNCHANGED due
    /\ UNCHANGED <<mix, now, at, arg, limitVars, streamVars, faucetVars, buttonVars, byz, voted>>

\* ... v itself reaches the height of its slash and stops ...
OwnSlash(v) ==
    /\ v \in due
    /\ due' = due \ {v}
    /\ byz' = byz \ {v}
    /\ UNCHANGED <<mix, now, at, arg, limitVars, streamVars, faucetVars, buttonVars, voted, flagged>>

\* ... and the first node to reach that of the heal clears its flag.
Healed(v) ==
    /\ v \in flagged
    /\ flagged' = flagged \ {v}
    /\ UNCHANGED <<mix, now, at, arg, limitVars, streamVars, faucetVars, buttonVars, byz, voted, due>>

Handle(h) ==
    \/ SpendGlobal(h) \/ Lookup(h) \/ SpendOwn(h)
    \/ Viewing(h) \/ Opening(h) \/ Closing(h) \/ Leaving(h)
    \/ AskFaucet(h) \/ Grant(h) \/ MarkSeen(h)
    \/ Lock(h) \/ AlreadyFaulty(h) \/ TakeSnapshot(h) \/ ReadFlag(h) \/ Decide(h)

Next ==
    \/ \E h \in Handlers : Arrive(h) \/ Handle(h)
    \/ Tick
    \/ \E v \in Nodes : Detected(v) \/ OwnSlash(v) \/ Healed(v)

Spec == Init /\ [][Next]_vars

-----------------------------------------------------------------------------
(* Properties *)

Places == Kinds \cup {"idle", "lookup", "spend", "counted", "streaming", "leaving",
                      "grant", "seen", "asked", "budget"}

TypeOK ==
    /\ now \in 0..MaxTime
    /\ at \in [Handlers -> Places]
    /\ global \in 0..GlobalBurst
    /\ tokens \in [Buckets -> 0..Burst]
    /\ owned \in [Hosts -> {0} \cup Buckets]
    /\ held \in [Handlers -> {0} \cup Buckets]
    /\ viewers \in Nat
    /\ byIP \in [Hosts -> Nat]
    /\ lastFaucet \in [Accounts -> -CoolOff..MaxTime]
    /\ seenSet \subseteq Accounts
    /\ {byz, voted, due, flagged} \subseteq SUBSET Nodes

\* However many hosts share it, the shared bucket lets no more requests pass in
\* any stretch of time than its burst and what accrued meanwhile.
NeverOverRate ==
    \A s \in 0..now :
        LET passed[t \in s..now] == admitted[t] + (IF t = s THEN 0 ELSE passed[t-1])
        IN  passed[now] <= GlobalBurst + GlobalRate * (now - s)

\* The bounded registries agree with the queues that say whom to forget: the
\* buckets with their order, no two hosts sharing a bucket, and the set of seen
\* accounts with its list.  Neither forgets what is queued nor outgrows its bound.
Registries ==
    /\ {i \in Hosts : owned[i] # 0} = ToSet(order)
    /\ \A i, j \in ToSet(order) : owned[i] = owned[j] => i = j
    /\ IsInjective(order) /\ Len(order) <= MaxTracked
    /\ seenSet = ToSet(seenList)
    /\ IsInjective(seenList) /\ Len(seenList) <= MaxSeen

\* The counters of streams never lose or keep a stream, whoever was refused
\* when, and the open streams stay within both limits.
StreamsCounted ==
    LET Counted(S) == {h \in Handlers : at[h] \in S}
        Of(i)      == {h \in Counted({"streaming"}) : arg[h] = i}
    IN  /\ viewers = Cardinality(Counted({"counted", "streaming", "leaving"}))
        /\ Cardinality(Counted({"counted", "streaming"})) <= MaxViewers
        /\ \A i \in Hosts : byIP[i] = Cardinality(Of(i)) /\ byIP[i] <= MaxViewersPerIP

\* The faucet grants an account once per cool-off, also when several of its
\* requests are handled at once and their grants are submitted late.
OncePerCoolOff ==
    \A a \in Accounts : granted[a] <= 1 + now \div CoolOff

\* The validators that are double-voting at a time never hold a third of the
\* original stake between them, however the nodes slash and heal them while a
\* handler adds up its budget.
FaultyBelowThird == ~ReachesThird(byz)

\* "Refuse if faulty-plus-slashed stake would reach a third of the original
\* total, so the honest set can always still make two thirds" (cmd/dyld/main.go,
\* the comment in handleFault).
BudgetHolds == ~ReachesThird(byz \cup flagged)

\* The lock of the fault button is held by one request that is being handled,
\* or by none: no way out of the handler leaves it locked, which nobody could
\* undo.
LockReleased ==
    /\ \A h \in faultMu : at[h] \in {"asked", "budget"}
    /\ Cardinality(faultMu) <= 1
=============================================================================
