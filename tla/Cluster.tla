------------------------------ MODULE Cluster -------------------------------
(***************************************************************************)
(* What becomes of a committed block: chain/cluster.go's recordBlock, the  *)
(* block log of cmd/dyld/persist.go it calls, the subscribers it tells,    *)
(* and buildServer of cmd/dyld/main.go, which brings all of it back after  *)
(* a restart.                                                              *)
(*                                                                         *)
(* The first node to commit a height holds the cluster's lock while the    *)
(* view takes the block in, the log is written and the event is emitted    *)
(* (which node that is, and that heights come once and in order, is the    *)
(* business of module Consensus).  Readers of the view wait for the lock;  *)
(* subscribers read their channels without it.  The process may be killed  *)
(* between any two steps: main does not wait for the nodes, so an orderly  *)
(* shutdown is no different.  The machine may go down too, and lose what   *)
(* the disk had not got, because nothing is fsynced.                       *)
(***************************************************************************)
EXTENDS LiveView, BlockLog

CONSTANTS
    Clients,      \* who subscribes to events and asks for the state
    Buffer,       \* capacity of a subscriber's channel
    Sizes,        \* how many transactions a block may carry
    WritesFail,   \* may a write to the log fail (a full disk)?
    MaxHeight,    \* bound: how many blocks are committed
    MaxCrashes    \* bound: how often process or machine go down

ASSUME BufferAssumption == Buffer \in Nat \ {0} /\ Sizes \subseteq Nat
ASSUME CrashAssumption  == WritesFail \in BOOLEAN /\ MaxHeight \in Nat /\ MaxCrashes \in Nat

VARIABLES
    run,       \* what the process is doing, or that there is none
    keys,      \* keys.json: the keys it holds, or Absent, or Torn
    file,      \* blocks.jsonl
    broken,    \* has a write failed?  bufio.Writer keeps the error for good
    chain,     \* the blocks after genesis, on every node once all have caught up
    view,      \* the cluster's live view
    subs,      \* the clients that are subscribed
    buf,       \* the heights of the events in each one's channel
    heard,     \* the height of the last event each one read
    shown,     \* the longest chain anybody was shown while the log was sound
    crashes,   \* how often process or machine went down
    excused    \* has the machine gone down, or a write failed?

Absent == 0
Torn   == -1

procVars   == <<run, broken, chain, view>>
clientVars == <<subs, buf, heard, shown>>
vars == <<procVars, keys, file, clientVars, crashes, excused>>

NewBlock(size, p) ==
    [height |-> Len(chain) + 1, proposer |-> p,
     txs |-> [i \in 1..size |-> <<Len(chain) + 1, i>>]]

\* The genesis block allots coins to the accounts of the keys.
Genesis == [height |-> 0, txs |-> <<>>, keys |-> keys]

Locked  == {"line", "newline", "emit"}
Serving == {"ready"} \cup Locked

Init ==
    /\ run = "down" /\ keys = Absent /\ file = <<>> /\ broken = FALSE
    /\ chain = <<>> /\ view = Blank
    /\ subs = {} /\ buf = [c \in Clients |-> <<>>] /\ heard = [c \in Clients |-> 0]
    /\ shown = <<>> /\ crashes = 0 /\ excused = FALSE

-----------------------------------------------------------------------------
(* buildServer *)

\* loadOrCreateKeys: WriteFile makes the file first and then fills it.
LoadKeys ==
    /\ run = "down"
    /\ \/ /\ keys = Absent
          /\ keys' = Torn
          /\ run' = "keys"
       \/ /\ keys = Torn
          /\ run' = "fatal"
          /\ UNCHANGED keys
       \/ /\ keys \notin {Absent, Torn}
          /\ run' = "open"
          /\ UNCHANGED keys
    /\ UNCHANGED <<file, broken, chain, view, clientVars, crashes, excused>>

SaveKeys ==
    /\ run = "keys"
    /\ \/ keys' = crashes + 1 /\ run' = "open" /\ UNCHANGED excused
       \/ WritesFail /\ run' = "fatal" /\ excused' = TRUE /\ UNCHANGED keys
    /\ UNCHANGED <<file, broken, chain, view, clientVars, crashes>>

\* What a restart accepts: a log that parses, begins with the genesis of these
\* keys, and replays, every block on top of the one before.
Resumable ==
    /\ Parses(file)
    /\ Blocks(file)[1].height = 0 /\ Blocks(file)[1].keys = keys
    /\ \A i \in DOMAIN Blocks(file) : Blocks(file)[i].height = i - 1

Resume ==
    /\ run = "open"
    /\ file # <<>>
    /\ IF Resumable
       THEN /\ chain' = Tail(Blocks(file))
            /\ view' = Seed(chain')
            /\ run' = "ready"
       ELSE /\ run' = "fatal"
            /\ UNCHANGED <<chain, view>>
    /\ UNCHANGED <<keys, file, broken, clientVars, crashes, excused>>

\* An empty log: a new cluster, whose genesis block is written next.
Fresh ==
    /\ run = "open"
    /\ file = <<>>
    /\ run' = "line"
    /\ UNCHANGED <<keys, file, broken, chain, view, clientVars, crashes, excused>>

-----------------------------------------------------------------------------
(* recordBlock, under the cluster's lock *)

\* Every node that commits a height calls it; the first one is heard.
IsNew_Any(b) == TRUE
IsNew(b) == b.height > view.height

Committed == ToSet(chain) \cup
    (IF Len(chain) < MaxHeight THEN {NewBlock(s, p) : s \in Sizes, p \in Proposers} ELSE {})

\* emit: to every subscriber whose channel has room.
Delivered_ToAll(h) ==
    [c \in Clients |-> IF Len(buf[c]) < Buffer THEN Append(buf[c], h) ELSE buf[c]]
Delivered(h) ==
    [c \in Clients |-> IF c \in subs /\ Len(buf[c]) < Buffer
                       THEN Append(buf[c], h) ELSE buf[c]]

Commit_EmitFirst(b) ==
    /\ run = "ready" /\ IsNew(b)
    /\ chain' = Append(chain, b) /\ view' = Record(view, b)
    /\ buf' = Delivered(b.height)
    /\ run' = "line"
    /\ UNCHANGED <<keys, file, broken, subs, heard, shown, crashes, excused>>

Commit(b) ==
    /\ run = "ready"
    /\ IsNew(b)
    /\ chain' = Append(chain, b)
    /\ view' = Record(view, b)
    /\ run' = "line"
    /\ UNCHANGED <<keys, file, broken, clientVars, crashes, excused>>

\* blockLog.append: the block being written, and what follows it.
Written == IF chain = <<>> THEN Genesis ELSE Last(chain)
Done    == IF chain = <<>> THEN "ready" ELSE "emit"

Stuck_Never == FALSE
Stuck == broken

Fail ==
    /\ WritesFail
    /\ broken' = TRUE
    /\ excused' = TRUE

\* A failed write leaves nothing of the line, a part of it, or all of it but the
\* newline.
WriteLine ==
    /\ run = "line"
    /\ \/ Stuck /\ run' = Done /\ UNCHANGED <<file, broken, excused>>
       \/ /\ ~Stuck /\ Fail
          /\ file' \in {file, Append(file, Partial), Append(file, Line(Written))}
          /\ run' = Done
       \/ /\ ~Stuck /\ OneWrite(Written)
          /\ file' = file \o <<Line(Written), Newline>>
          /\ run' = Done
          /\ UNCHANGED <<broken, excused>>
       \/ /\ ~Stuck /\ ~OneWrite(Written)
          /\ file' = Append(file, Line(Written))
          /\ run' = "newline"
          /\ UNCHANGED <<broken, excused>>
    /\ UNCHANGED <<keys, chain, view, clientVars, crashes>>

WriteNewline ==
    /\ run = "newline"
    /\ \/ Fail /\ UNCHANGED file
       \/ file' = Append(file, Newline) /\ UNCHANGED <<broken, excused>>
    /\ run' = Done
    /\ UNCHANGED <<keys, chain, view, clientVars, crashes>>

\* The lock is free once the event is with everybody who has room for it.
Emit_Waiting ==
    /\ run = "emit" /\ \A c \in subs : Len(buf[c]) < Buffer
    /\ buf' = Delivered(view.height)
    /\ run' = "ready"
    /\ UNCHANGED <<keys, file, broken, chain, view, subs, heard, shown, crashes, excused>>

Emit ==
    /\ run = "emit"
    /\ buf' = Delivered(view.height)
    /\ run' = "ready"
    /\ UNCHANGED <<keys, file, broken, chain, view, subs, heard, shown, crashes, excused>>

-----------------------------------------------------------------------------
(* The clients *)

\* What anybody has been shown, up to height h, while the log was sound.
Shown(h) == IF broken \/ h <= Len(shown) THEN shown ELSE SubSeq(chain, 1, h)

Subscribe(c) ==
    /\ run = "ready"
    /\ c \notin subs
    /\ subs' = subs \cup {c}
    /\ UNCHANGED <<procVars, keys, file, buf, heard, shown, crashes, excused>>

\* The channel goes with whatever is still in it.
Unsubscribe(c) ==
    /\ run = "ready"
    /\ c \in subs
    /\ subs' = subs \ {c}
    /\ buf' = [buf EXCEPT ![c] = <<>>]
    /\ heard' = [heard EXCEPT ![c] = 0]
    /\ UNCHANGED <<procVars, keys, file, shown, crashes, excused>>

ReadEvent(c) ==
    /\ run \in Serving
    /\ buf[c] # <<>>
    /\ heard' = [heard EXCEPT ![c] = Head(buf[c])]
    /\ buf' = [buf EXCEPT ![c] = Tail(@)]
    /\ shown' = Shown(Head(buf[c]))
    /\ UNCHANGED <<procVars, keys, file, subs, crashes, excused>>

Snapshot ==
    /\ run = "ready"
    /\ shown' = Shown(view.height)
    /\ UNCHANGED <<procVars, keys, file, subs, buf, heard, crashes, excused>>

-----------------------------------------------------------------------------
(* Going down *)

Down ==
    /\ crashes < MaxCrashes
    /\ crashes' = crashes + 1
    /\ run' = "down"
    /\ broken' = FALSE
    /\ chain' = <<>> /\ view' = Blank
    /\ subs' = {} /\ buf' = [c \in Clients |-> <<>>] /\ heard' = [c \in Clients |-> 0]

ProcessCrash ==
    /\ run \notin {"down", "fatal"}
    /\ Down
    /\ UNCHANGED <<keys, file, shown, excused>>

MachineCrash ==
    /\ run \notin {"down", "fatal"}
    /\ Down
    /\ file' \in {file} \cup Survivors(file)
    /\ keys' \in {keys} \cup (IF keys = Absent THEN {} ELSE {Absent, Torn})
    /\ shown' = <<>>
    /\ excused' = TRUE

Server ==
    \/ LoadKeys \/ SaveKeys \/ Resume \/ Fresh
    \/ \E b \in Committed : Commit(b)
    \/ WriteLine \/ WriteNewline \/ Emit

Next ==
    \/ Server
    \/ \E c \in Clients : Subscribe(c) \/ Unsubscribe(c) \/ ReadEvent(c)
    \/ Snapshot
    \/ ProcessCrash \/ MachineCrash

Spec == Init /\ [][Next]_vars

\* The nodes go on committing; no subscriber needs ever read its channel.
FairSpec == Spec /\ WF_vars(Server)

-----------------------------------------------------------------------------
(* Properties *)

TypeOK ==
    /\ run \in Serving \cup {"down", "keys", "open", "fatal"}
    /\ keys \in -1..(MaxCrashes + 1)
    /\ \A i \in DOMAIN file : file[i].piece \in {"block", "newline", "part"}
    /\ \A i \in DOMAIN chain : chain[i].height = i /\ chain[i].proposer \in Proposers
    /\ subs \subseteq Clients
    /\ \A c \in Clients : Len(buf[c]) <= Buffer /\ (c \notin subs => buf[c] = <<>>)
    /\ <<broken, excused>> \in BOOLEAN \X BOOLEAN

\* The view that blocks were recorded into one by one is the view a restart
\* seeds from the whole chain: the two trimmings of the feeds, and the counts of
\* proposals, cannot be told apart.
ViewIsSeed == view = Seed(chain)

\* "InclusionProof can always answer for a hash the feed still shows" (the
\* comment in recordBlock): with a proof that verifies against the root of the
\* block of that height, and with none for a transaction of another height.
FeedIsProvable ==
    /\ \A i \in DOMAIN view.txs :
        LET t == view.txs[i]
            p == InclusionProof(view, t.height, Leaf(t.tx))
        IN  /\ p # NotFound
            /\ p.root = Root(chain[t.height].txs)
            /\ Verify(p.leaf, p.index, p.siblings, p.root)
    /\ \A b \in ToSet(view.fullBlocks), t \in ToSet(view.txs) :
        InclusionProof(view, b.height, Leaf(t.tx)) # NotFound => t.height = b.height

\* Whatever height a client was shown, by a state or by an event, survives the
\* process, with the blocks below it: the server never comes back with another
\* block in its place.
NothingShownIsLost == run = "ready" => IsPrefix(shown, chain)

\* The log has no gap: what it holds is at all times a prefix of the committed
\* chain, even when a write failed and later ones would succeed again.
LogIsPrefix ==
    run \in Serving => IsPrefix(Blocks(file), <<Genesis>> \o chain)

\* A subscriber hears of blocks in the order of their heights, of each at most
\* once, and of none the state does not show yet, whatever was dropped in between.
EventsInOrder ==
    \A c \in subs :
        LET h == <<heard[c]>> \o buf[c] \o <<view.height + 1>>
        IN  \A i, j \in DOMAIN h : i < j => h[i] < h[j]

\* "A process crash keeps the line, only a machine crash could lose the last
\* few" (persist.go, the comment on append): once there is a log, a restart
\* fails only after the machine went down or a write failed.
RestartsFromLog == run = "fatal" => excused \/ file = <<>>

\* No subscriber can hold up the chain by not reading: unless it is down, the
\* server commits every height there is.
CommitsGoOn == []<>(run \in {"down", "fatal"} \/ Len(chain) = MaxHeight)
=============================================================================
