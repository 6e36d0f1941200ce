# dylchain in TLA+

dylchain is a proof-of-stake chain in one Go process: every validator is a
goroutine with a chain of its own, the network is a set of channels, and a small
server (`cmd/dyld`) or a page (`cmd/dylwasm`) lets people send transactions,
delegate, and make validators double-vote. This directory holds TLA+ modules of
it, TLC configurations that check them on small instances, and proofs, checked
by TLAPS, that hold for every instance.

Paths below are relative to the repository. Lines are those of the commit the
modules were written from; `PROJECT.json` has the lines of every definition.

## The system

| component | state it keeps | operations | interacts with |
|---|---|---|---|
| validator set (`chain/validator.go`) | ordered members, a stake each that a slash zeroes and a heal puts back | `Slash`, `Restore`, `StakeOf` | shared by all nodes, read by the live view for display only |
| election (`chain/proposer.go`) | per node: delegated stake, slashed flags, priorities | `syncDelegations`, `slash`, `restore`, `next`, `effective` | advanced by its node once per height |
| node (`chain/consensus.go`) | chain, stash of messages, first votes seen, detected offenders, slashes and heals to come, double-voting flag | `run`, `runHeight`, `propose`, `waitFor`, `observe`, `prunePending` | other nodes over the bus; the cluster for the log and the flags; the mempool |
| bus (`chain/consensus.go`) | one bounded FIFO channel per node | `broadcast`: one blocking send per inbox, in order | nodes |
| cluster (`chain/cluster.go`) | live view (height, ledger, feeds, slashed flags, halts), subscribers | `Run`, `RunContext`, `MakeFaulty`, `Submit`, `recordBlock`, `recordSlash`, `recordHeal`, `recordHalt`, `Snapshot`, `ResumeCluster` | nodes call it under its lock; the server reads it |
| ledger (`chain/state.go`) | balances, nonces, delegations, base stakes | `Apply`, `applyTx`, `distributeReward`, `ReplayBlocks` | nodes, on every block |
| chain and blocks (`chain/chain.go`, `block.go`) | blocks and the state after them | `AddBlock`, `checkCandidate`, `CommitBlock`, `Validate` | ledger, Merkle trees |
| mempool (`chain/mempool.go`) | bounded FIFO of transactions | `Add`, `Drain` | `Submit`; the proposer |
| Merkle trees (`chain/transaction.go`, `block.go`) | none | root, proof, verification | block headers, the lookup page |
| demo server (`cmd/dyld/main.go`) | nonce caches of its own accounts, faucet times, seen addresses, token buckets, counters of viewers, the lock of the fault button | rate limits, faucet, traffic driver, transaction and fault handlers, event streams | cluster |
| block log (`cmd/dyld/persist.go`) | keys and a file of blocks, one per line, behind a buffered writer | load, append, resume | `OnCommit`, `ResumeCluster` |
| browser build, web interface | - | bindings and presentation | cluster |

What is hard here: goroutines progress at their own speed and only the proposal
and the votes tie them together; a node may commit heights on the votes of the
others while messages for it sit unread in its inbox; a broadcast reaches the
inboxes one by one; a slash and a heal are scheduled by each node for itself, at
heights fixed in advance, from a second vote it happens to pull; any node may be
the first to commit a height and to update what the cluster shows; waiting has
no timeout, only a context. The hazards this makes are listed, line by line,
under `hazards` in `PROJECT.json`.

What makes each component correct:

- **validators, election**: whoever is elected has weight; nodes at the same
  height elect the same proposer with the same threshold; two quorums of the
  weights intersect in somebody honest; priorities stay in bounds.
- **node, bus**: commits are final and agree; nobody innocent is slashed; the
  books on an offender stay consistent from detection to heal; `Run` returns;
  a cancelled `RunContext` returns.
- **cluster**: blocks are recorded once per height and in order, so that the
  server's log is a chain every node holds a prefix of; flags do not outlive
  what they stand for.
- **ledger, chain**: supply grows by the reward only, no account goes negative,
  a transaction applies once, a delegation can be taken back, replay gives the
  same state.
- **mempool, server**: what is accepted is proposed or dropped but never twice;
  a nonce cache does not get ahead of the chain for good; the fault budget keeps
  an honest two thirds; counters, bounded lists, rates and cool-offs hold whatever
  requests are handled at once.
- **live view, Merkle trees**: what the feeds show can be proved against the
  committed root; the view a restart computes is the one it had; subscribers hear
  of blocks in order and never hold the chain up.
- **block log**: after a crash the log is a prefix of what was committed, the
  cluster resumes from it, and nothing a client was shown is undone.

## The modules

| module | what it is |
|---|---|
| `Validators` | the set, sums of weights, the quorum rule |
| `Election` | the operators of one priority accumulator: weight, winner, advance, rejoin |
| `Consensus` | all nodes, the bus, double votes, slashes and heals, the cluster's log and flags |
| `FinalLog` | abstract: one log that grows by single items, replicas that copy it in order |
| `Rotation` | one election without end, and the reference `ProposerForHeight` |
| `Ledger` | what a transaction and a block do to balances, nonces and delegations; what a proposer keeps of its batch |
| `Traffic` | from signing to the ledger: the server's wallets and their goroutines, other people, the mempool, proposers |
| `Merkle` | trees, proofs and their verification over symbolic hashes |
| `LiveView` | the bounded feeds: kept block by block, seeded from a chain, asked for proofs |
| `BlockLog` | the log file as pieces written; what parses, what a machine crash leaves |
| `Cluster` | a committed block's way into view, log and events; restarts and crashes. Composes `LiveView` (on `Merkle`) and `BlockLog` |
| `Server` | the request handlers: limiter, streams, faucet, fault button |
| `MC*` and `*.cfg` | instances for TLC |
| `Validators_proofs`, `Election_proofs`, `Consensus_proofs`, `Books_proofs`, `Rotation_proofs`, `Traffic_proofs`, `Server_proofs`, `Cluster_proofs` | theorems and proofs; `Books_proofs` is the part about `Consensus` beside agreement, and `Cluster_proofs` has the lemmas about `Merkle`, `LiveView` and `BlockLog` too |

### How `Consensus` follows the code

One action is the code between two points at which another goroutine could
notice: a channel operation, an atomic load, a section under the cluster's lock.

| action | code |
|---|---|
| `StartHeight(n)` | top of `run`'s loop: due slashes, due heals (with `recordHeal` and the shared set), `syncDelegations`, `election.next`, and `propose` when the node elected itself |
| `NoProposer(n)` | `next` panics with a string, which `run` re-panics: the process ends, all nodes with it |
| `Send(n)` | one channel send of `broadcast`, blocked while the inbox is full; the proposal, the vote, the junk vote |
| `AfterVote(n)` | the load of the double-voting flag |
| `TakeStashed(n)` | `waitFor` finds a message in the stash |
| `Receive(n)` | `waitFor` pulls a message: `observe`, then either the caller takes it or it is stashed |
| `Commit(n)` | the threshold is passed: `CommitBlock`, `recordBlock`, `prunePending`, the pruning of seen votes |
| `MakeFaulty(v)`, `Cancel`, `Stop(n)`, `Returned` | `MakeFaulty`; the context; a node noticing it at the loop top or in `waitFor`; `Run` returning |

A block is identified with its history, the sequence of the headers up to it,
because its hash covers its parent's and a validator signs one block per parent.
A header keeps the proposer and the tally of delegated stake after the block:
all that consensus reads of the transactions. `Bondings` is the set of tallies a
block may leave. `Replayed` is the log a resumed cluster starts from: slash state
starts clear there, as `ResumeCluster` says. A message with a bad signature, a
block with a bad root or bad transactions does not exist in the model: nobody in
the process makes one. The two map iterations of the loop top (over slashes, over
heals) do not depend on their order; the comment on `Rejoined` says why for heals.
Two variables are not the code's: `junked`, who sent a second vote and at which
height, and `caught`, the double votes each node scheduled a slash for, in their
order. No guard reads them; `NoFalseSlash` compares them.

Left out of this module: lists of evidence and events (written, never read back by
the program while it runs), pacing and block retention (they change how long a
step takes and how much history is kept in memory), and the mempool.

### How `Ledger` and `Traffic` follow the code

`Ledger` has no variables: a ledger is a record of three functions on the
addresses, zero where the maps of the code have no key. `Applies` is the checks of
`applyTx`, `Effect` its writes, `Rewarded` is `distributeReward`, `Run`, `Valid` and
`Apply` are the all-or-nothing loop of `Apply`, `Applicable` is the loop in which a
proposer keeps what applies after what it has kept. Amounts are natural numbers:
a subtraction that the code's unsigned integers would wrap shows as a negative
one, which `TypeOK` forbids.

| action of `Traffic` | code |
|---|---|
| `Sign(c)` | `signFromKind` under the server's lock: reserve a nonce, the chain's or a later one |
| `HandIn(c)` | `cluster.Submit` without that lock: queued, or refused by a full mempool |
| `Rollback(c)` | the closure that takes the nonce back if it is the last one given out |
| `Post(tx)` | `handleTx`: anybody submits a transaction they signed, as often as they like |
| `Propose(p)` | `propose`: `Drain`, then `applicable`; what does not apply is gone |
| `Commit` | `CommitBlock` and the live view the next `Account` reads |

One `Commit` stands for all nodes: a height's proposer committed the height
before, so it drains the mempool on the state the last block left, and which
blocks are committed is the business of `Consensus`. A clerk is a goroutine of the
server (an HTTP handler of the faucet, the traffic driver).

### How `Rotation` follows the code

`NextHeight(S, H, b)` is the top of `run`'s loop for one node: slash `S`, restore
`H`, sync the delegations `b`, `next`. `Unchanged` takes it with nothing new,
`Changed` with any slashes, heals and delegations. A validator may be in `S` and in `H`
at once: a node that pulls the evidence late slashes and heals it in one loop top,
and puts it back at the lowest priority. Three variables are not the
code's: `height` (counted up to a bound, for the reference), `changes` (bounded) and
`owed`, what a validator is due since it started or rejoined.

### How `Cluster` follows the code

| action of `Cluster` | code |
|---|---|
| `LoadKeys`, `SaveKeys` | `loadOrCreateKeys`: an existing file, or `WriteFile`, which makes the file before it fills it |
| `Resume` | `read`, the check of the genesis against the keys, `ResumeCluster`, `seedLiveView`; or `log.Fatalf` |
| `Fresh` | an empty log: `NewCluster`, and the append of the genesis block |
| `Commit(b)` | `recordBlock` up to `onCommit`: refused if the height is not new, else the view takes it in |
| `WriteLine`, `WriteNewline` | `blockLog.append`: one write(2) for a short line, two for a long one; a write that fails, and the writer that keeps its error for good |
| `Emit` | `emit`: to every subscriber with room; then the lock is released |
| `Subscribe`, `Unsubscribe`, `ReadEvent`, `Snapshot` | the clients; all but `ReadEvent` wait for the lock |
| `ProcessCrash` | the process is killed, or ends by a signal: `main` does not wait for `RunContext` |
| `MachineCrash` | the end of the file is lost at any byte, and keys that were not on the disk |

`run` says where in this the process is. The chain here is the one all nodes agree
on; that heights reach `recordBlock` once and in order is shown by `Consensus`
(`FinalSpec`), and `Committed` lets late nodes call it again with old blocks. `shown`
is what anybody was ever shown, `excused` whether the machine or a write failed:
both only for the properties. Events are those of blocks: those of slashes,
heals and halts share the channel, are sent by other sections under the lock, and may
carry a height the view does not show yet, so that `EventsInOrder` does not speak of them.
A hash is the term it is computed from. The view's
ledger fields are those of `Ledger` and are not repeated.

### How `Server` follows the code

A handler is the goroutine of a request; `at` is where it is and `arg` the host,
account or validator it is about.

| actions of `Server` | code |
|---|---|
| `Arrive` | a request reaches its handler |
| `Tick` | time; tokens are added when it passes rather than when they are asked for |
| `SpendGlobal`, `Lookup`, `SpendOwn` | `ipLimiters.allow`: the shared bucket, the map under its lock with eviction of the oldest, the host's bucket |
| `Viewing`, `Opening`, `Closing`, `Leaving` | `handleEvents`: the atomic counter, the counter per host, and the two deferred calls |
| `AskFaucet`, `Grant`, `MarkSeen` | `handleFaucet`: cool-off under the lock, sign and submit, `markSeen` |
| `Lock`, `AlreadyFaulty`, `TakeSnapshot`, `ReadFlag`, `Decide` | `handleFault`, one read of the cluster at a time |
| `Detected`, `OwnSlash`, `Healed` | what the nodes do meanwhile (`recordSlash`, the node's own slash, `recordHeal`), as `Consensus` has it, without heights; a node far behind flags a validator again that was slashed and healed since |

The kinds of request share no variable but the clock, so a behaviour has requests
of one kind (`Mixes`). Faucet and fault requests have passed the limiter already.
`Detected`, `OwnSlash` and `Healed` come in any order that `Consensus` allows and in some that
it does not (an offender may heal before its own slash); `FaultyBelowThird` holds all the
same. `voted` is who ever double-voted: only they can be detected.

## Runs

Fairness: `FairSpec` of `Consensus` has weak fairness of every node's own steps, because the Go
scheduler runs every goroutine that can run and a channel serves blocked senders
in turn; nothing is assumed of `MakeFaulty` or `Cancel`, nor that a full inbox is
ever emptied. `FairSpec` of `Cluster` has weak fairness of the server's own steps (the
nodes go on committing) and none of its clients. `FairSpec` of `Rotation` lets
heights go on without changes.

| run | instance | shows |
|---|---|---|
| `honest` | stakes 3, 1; 4 heights; a block leaves one coin delegated to the second validator, or none; a context that can be cancelled; inboxes of 6 | `SameElection` with a threshold that the first validator meets alone at some heights and not at others, so that the second falls behind and must catch up; `RunReturns`; `CancelReturns` |
| `resumed` | stakes 2, 2, 1 with 2 delegated to the third; a replayed log of one block, one more height; the third may double-vote | `TypeOK`; `FinalSpec`: the server's log with the nodes' chains implements `FinalLog` |
| `minority` | stakes 3, 1; 4 heights; the second validator may be made faulty at any time; heal after 1 height | `Agreement`, `NeverHalts`, `NoFalseSlash`, `SlashLifecycle`, `NoStaleFlag` |
| `heavy` | stakes 1, 1; 3 heights; both may be made faulty; no heal | `SameElection` and `RunReturns`, up to the end of the process when both are slashed |
| `rotation` | stakes 2, 1, 1; a delegation of 3 that makes the last the heaviest, or none; 3 changes; any number of heights | `SpreadBounded`, `NoCatchingUp`, `FollowsReference`, `EverybodyProposes` |
| `fork` | stakes 3, 1; a block may delegate 7 to the faulty validator | violates `Agreement` |
| `traffic` | a validator, an account of the server used by two goroutines, a person; mempool of 2, blocks of 2, 2 blocks, nonces to 2 | `TypeOK` (no debt), `SupplyIsMinted`, `ProposalsApply`, `OnceOnly`, `SignedOnce` |
| `wedge` | as `traffic`, with transfers of the server only and a mempool of 1 | violates `NeverAhead` |
| `cluster` | 3 heights; blocks of 0, 1 or 3 transactions, the last too long for the writer's buffer; feeds of 2; one subscriber with a buffer of 1; 2 crashes; writes may fail | `TypeOK`, `ViewIsSeed`, `FeedIsProvable`, `NothingShownIsLost`, `LogIsPrefix`, `EventsInOrder`, `CommitsGoOn` |
| `torn_log` | blocks of one transaction that are too long for the buffer; no write fails; 3 crashes | violates `RestartsFromLog` |
| `server` | 3 handlers; 2 hosts with one tracked, 2 accounts with one remembered; burst 1 and 2; 2 streams, one per host; 4 equal validators | `TypeOK`, `NeverOverRate`, `Registries`, `StreamsCounted`, `OncePerCoolOff`, `FaultyBelowThird`, `LockReleased` |
| `budget_race` | 4 equal validators, one handler | violates `BudgetHolds` |

Why these bounds are enough for what they show. The interesting distance between
two nodes is one node ahead by the slash delay (2) plus the heal delay: with
stakes 3 and 1 the first validator commits alone, so within four heights the
second can fall behind past the slash and the heal of its own double vote, and be
faulted again. With stakes 2, 2, 1 a commit takes several voters and broadcasts of
three nodes reach the inboxes in part and in any order, one height being enough
for that; with 1 and 1 neither can move without the other, which is where a slash
must land at the same height for both. `InboxCap` is larger than
what these heights can put into an inbox. In `honest` it is the smallest that is: with five
messages instead of six, a node that lags until its inbox is full blocks when it
broadcasts its proposal to *itself*, being the only one that could empty that inbox,
and neither `RunReturns` nor `CancelReturns` holds. `NOTES.md` knows it: the
inboxes hold `max(1024, 16*N)` messages, and "a run that falls more than ~16 heights
behind on some node would still block"; with few validators the 1024 take a longer
lag than that. The runs with `CHECK_DEADLOCK FALSE` are those in which the cluster may
really stall (see below) and those that stop at their bounds.

In `traffic` two nonces under way at once, a mempool that two transactions fill
and a batch of two are what a collision, a refusal out of order and a dropped
second transaction need; the requests and the person's transactions bond, release
and overspend, and the second block pays a reward that does not divide evenly.
`MaxNonce` bounds a nonce that could otherwise grow with every refusal that takes
nothing back.

In `cluster` three blocks overflow feeds of two, a block of three transactions
overflows the feed of transactions on its own and has a tree with an odd layer; a
buffer of one drops events; two crashes let a restart continue a log that a crash
had cut, and be cut again. In `server` three handlers and limits of one or two let
every counter be passed by two requests at once, every list evict, and a third
request see what the two left; three ticks are more than a cool-off. Four validators
are the fewest the server runs with, and any two of them are too many. In `rotation`
the state space is finite although the heights are not, which is what bounded
priorities mean; three changes are a slash, a heal and a delegation at heights of
their own, and each may come with others at the same height, a slash and a heal of the
same validator included. A heavier validator and two that tie take a full turn in four
heights, and six are compared with the reference. In `server` the clock stands still
(`ClockMatters`) while event streams or faults are handled, which never look at it.

### What the violated properties say

1. **`fork`.** `README.md:169-170` calls a commit final. Delegations are voting
   weight, and the fault button's budget adds up genesis stakes only
   (`cmd/dyld/main.go:792-806`): a validator that most of the weight is delegated to
   can be made faulty, and while one node has excluded it and it has not excluded
   itself each commits a block of its own at a height. No message is lost. The
   theorem `AgreementHolds` gives the exact boundary: half of the weight.
2. **`wedge`.** `cmd/dyld/main.go:423-426` says that a rejected send does not leave
   the local nonce ahead of the chain for ever. It does when the send after it was
   signed before the rejection and queued: `n` is not taken back, `n+1` is dropped
   by a proposer, and everything signed later has a nonce the chain never reaches.
   (A signed transaction that is dropped for want of funds does the same; the
   comment only speaks of rejected ones.)
3. **`torn_log`.** `cmd/dyld/persist.go:135-137` says that a process crash keeps the
   line. A line longer than the writer's 4096 bytes, a dozen transactions, leaves in
   one write and its newline in another. A process that ends between them leaves a
   log that resumes once, whose next block continues the same line, and that no
   later start can read. The theorem `RestartsWhenLinesFit` says that nothing else
   breaks the promise.
4. **`budget_race`.** `cmd/dyld/main.go:788-789` says that faulty plus slashed stake
   stays below a third. A validator that is detected and applies its own slash
   between the handler's snapshot and the read of its flag is counted in neither.
   The handler has to be held up for the two heights of the slash delay. What the
   lock does guarantee is `FaultyBelowThird`.

Two comments about slashes are true only while no node lags, and the runs are
chosen accordingly. `chain/proposer.go:3-8` says that all honest nodes apply a slash
at the same height: a node that commits on the votes of others before it pulls the
second vote applies it later, so `SameElection` is checked where nobody is faulty
(`honest`) and where nobody can lag (`heavy`), and it fails on the instance of
`minority`; it is the first half of `fork`. `chain/consensus.go:188-190` says a slash and its
heal never fire at the same height: they do in a node that pulls the evidence when
both heights are past, which `minority` reaches and `SlashLifecycle` survives. Why the two nodes of
`minority` still commit the same blocks is `Agreement`.

## Proofs

The assumptions on the constants are the named `ASSUME`s of the modules: at least
one validator, natural stakes, delegations, amounts and bounds, a replayed log
that is not longer than the last height; the server's wallets
and the validators among the accounts; for `Rotation` finitely many tallies, the empty one among them;
a cool-off above zero and finitely many handlers. What a theorem needs beyond
them is a hypothesis in its statement, because some run is an instance where it
fails.

| theorem | states | needs |
|---|---|---|
| `QuorumsMeet` | two quorums share a voter | the faulty hold at most half |
| `WinnerHasWeight` | the elected validator has weight and the highest raised priority | |
| `TypeCorrect` | `TypeOK` of `Consensus` | |
| `AgreementHolds`, `NeverHaltsHolds`, `ImplementsFinalLog` | `Agreement`, `NeverHalts`, `FinalSpec` | `FaultyMinority` |
| `NoFalseSlashHolds`, `SlashLifecycleHolds`, `NoStaleFlagHolds` | `NoFalseSlash`, `SlashLifecycle`, `NoStaleFlag` | |
| `SameElectionHolds` | `SameElection` | `Faultable = {}` |
| `SpreadBoundedHolds`, `NoCatchingUpHolds` | `SpreadBounded`, `NoCatchingUp` | every validator has stake |
| `FollowsReferenceHolds` | `FollowsReference` | |
| `TrafficTypes`, `SupplyIsMintedHolds`, `ProposalsApplyHolds`, `OnceOnlyHolds`, `SignedOnceHolds` | `TypeOK` of `Traffic` (no debt), `SupplyIsMinted`, `ProposalsApply`, `OnceOnly`, `SignedOnce` | |
| `ServerTypes`, `NeverOverRateHolds`, `RegistriesHold`, `StreamsCountedHolds`, `OncePerCoolOffHolds`, `FaultyBelowThirdHolds`, `LockReleasedHolds` | the invariants of `Server` of those names | some stake |
| `ProofsVerify` | every proof made from a tree verifies against its root | |
| `ClusterTypes`, `ViewIsSeedHolds`, `FeedIsProvableHolds`, `NothingShownIsLostHolds`, `LogIsPrefixHolds`, `EventsInOrderHolds` | the invariants of `Cluster` of those names | |
| `RestartsWhenLinesFit` | `RestartsFromLog` | `ShortLines` |

`FaultyMinority` says that the validators in `Faultable` hold at most half of the
weight under every tally of delegations; it fails in `fork` and `heavy`. `ShortLines`
says that the line of every block fits the log's buffer; it fails in `cluster` and
`torn_log`.

**Agreement** (`Consensus_proofs`). `Agreement` alone is not inductive: a commit
looks at votes counted earlier, by a view of the weights that may differ from node
to node. `AgreementInv` adds what ties a commit to the voters:

- a validator *accepts* a block when it adopts it as its candidate and for ever
  after it commits it (`Accepts`), and accepts one block per height
  (`AcceptsOnce`);
- every vote in an inbox, a stash or a book of first votes is for a block its
  voter accepts, or is a junk vote of a faultable validator; every proposal is on
  top of a block its proposer committed (`Messages`);
- whoever is counted accepts the candidate (`CountedAccept`);
- only faultable validators are detected, scheduled or excluded (`Blame`): two
  conflicting votes for accepted blocks would contradict `AcceptsOnce`;
- every committed block was accepted by a quorum of *some* view, one that excludes
  faultable validators only (`Certified`).

When a node commits on top of a tip on which another already committed, both
blocks are certified over the same delegations; by `QuorumsMeet` somebody accepted
both, so they are the same block. That the nodes' exclusions differ does not
matter, which is why agreement survives slashes that land at different heights.

**The log, the books, the elections** (`Books_proofs`). That the server's log with
the nodes' chains implements `FinalLog` takes, beyond agreement, that the log is
the longest chain: the first node to commit a height records it, and the others
find it recorded. A commit is then a step in which a replica copies the next item,
which the log holds or gets in that step. The books of a node (detected, slash to
come, excluded, heal to come) are inductive beside the types, whoever is faulty, and
so are the flags the cluster shows.

`NoFalseSlash` says more than that nobody innocent is slashed: every detection is of a
second vote its sender really sent at that height, and none is held against it twice, so
that a validator that healed is only caught again for a new one. It needs nothing of
who is faulty, because it is a matter of order. A validator sends its vote for a height,
then its second one, then the vote for the next height, and an inbox is a queue; `Rank`
numbers the votes of one sender in that order, `Floor` is the least rank it may still
send to a node. `Order` says that the votes of one sender go up in rank in every inbox and
stay below that floor, and that what a node keeps in its book of first votes or has caught
ranks below whatever of that sender is still in its inbox (`Past`). A vote that conflicts with
a kept one of its height is then the second, and was not caught before.

`SameElection` is proved where nobody is faulty:
a node's priorities are then a function of the tallies of the blocks it committed,
and by agreement those of nodes at one height are the same.

**The election** (`Rotation_proofs`). What a height adds to all priorities its
winner pays, so that their sum over the validators that take part changes only with
them; the winner stands above the mean before it pays. `Close` says that the
priorities lie above a common floor by no more than `(N - 1) * Largest` together,
`Largest` being the greatest total of a tally; `Level`, that those that started with
the last change of members started at one level, at most the mean of all, and are owed
what they have above it. That every validator has stake is what the program builds:
`floorStake` of `chain/generate.go` raises every generated stake above zero. For
`FollowsReference` the invariant keeps, while nothing has changed, that the priorities
are those that as many turns of the reference leave.

**The ledger** (`Traffic_proofs`). The invariant is `TypeInv`; `ChainInv`, that the supply is
what was minted, the draft applies to the ledger, and every nonce in a block is below
its sender's and there once; and `SignInv`, that two different places of the queue, the draft
and the goroutines' hands never hold one nonce of one of the server's accounts, and
that each was given out. The lemmas are about the ledger alone: a transaction that applies moves coins
and keeps their sum and every balance above zero; the shares of a reward, each
rounded down, fit in the reward, so that what the proposer takes as the rest is not
negative, which is also why the quotient of `mulDiv` fits in 64 bits; a valid block uses up
the nonces of an account one after the other; what `applicable` keeps is valid. A
nonce is only taken back when it is the last one given out, and is then in nobody's
hands but the one that takes it back.

**The server** (`Server_proofs`). The kinds of request share no variable but where each
handler is, so the invariant is one part for each, kept by the steps of the others.
What has passed since any moment and what the shared bucket still holds are
covered by the burst and what accrued since (`Metered`). There is always a
bucket for a new host, because there are as many as handlers and tracked hosts can hold (a
pigeonhole). The counters of streams are the numbers of handlers at certain places.
What an account was granted and may still be granted each took a cool-off of
its own (`Faucet`). While a handler adds up its budget, what it has found lost and
what it is still to read cover every double-voting validator (`Button`), which is why
a slash in between does no harm to `FaultyBelowThird`.

**What becomes of a block** (`Cluster_proofs`). About the trees: a layer of `n` nodes has
half as many above it, rounded up, so that there is one left after at most as many
layers as there are leaves; in every layer the node on the path and its sibling give
the next node of the path, the last of an odd layer with itself, and the parity of the
halved index says on which side. About the log: a reader's blocks are those of the
pieces, in order, and a piece that is appended changes nothing read before it. About
the feeds: trimming before and after something is added is trimming once
(`NewestTwice`), so that recording a block in the view and seeding from the longer
chain come to the same (`SeedAppend`); and every transaction in the untrimmed feed
is of a block that was kept whole, after which came no more blocks that were kept than
transactions (`Covered`). Both feeds are cut to the same length, hence what the feed
of transactions still shows is in a block that is still there.

The invariant of the steps says that the log begins with the genesis block of the
present keys and goes on like the chain (`LogOf`); that it lacks the newest block only
while that block is being written, unless a write failed; that what was shown is in
the log, also while no process runs (`ShownIn`): `NothingShownIsLost` speaks of a
server that is ready and says nothing about the time in between; and that the heights in
a subscriber's channel rise, above the last it read and below the next one to come
(`Rising`). A log that parses is not empty, because a file that a crash cut begins with
a block or with a part of one. For `RestartsWhenLinesFit` the
log is whole at every step (`Whole`), up to the first failed write or lost machine.

TLC checked the strengthened invariants of `Consensus`, `Traffic` and `Cluster` as
invariants of `minority`, `traffic` and `cluster` before they were proved. Inductions are
by least counterexample or over a count, written out; sums over a set of validators, the
feeds seeded from a chain and the blocks read from a file are recursive functions.

Only model-checked is liveness: `RunReturns`, `CancelReturns`, `CommitsGoOn` and
`EverybodyProposes` are out of this prover's reach. Every invariant that a run finds to
hold is a theorem under the hypotheses in the table, and so is the refinement of
`FinalLog`; `heavy` checks `SameElection` with a faulty validator where nobody can lag,
which no theorem covers.

## Plan

All components that keep state are modelled and their safety is proved. What is left is to
say exactly, as `RestartsWhenLinesFit` does for `torn_log`, under which conditions
the promises hold that `wedge` and `budget_race` find broken, and to state the
elections of nodes that lag, between `SameElection` and `fork`.

## Not modelled

HTTP routing and static files (I/O); keys, signatures, address and coin formatting
(stateless encodings: nobody in the process forges); the browser build, which holds
the same cluster behind bindings, with copies of the server's wallets, faucet, seen
list and budget; the web interface; `AddBlock` and `Validate`, which only tests
call; the lists of evidence; pacing and block retention. Of the disk, only writes
that fail and machines that go down are modelled: not a file that changes by
itself, nor a read that fails. `/state` is put together from several reads under
different locks, and `Snapshot` itself from two; a page may show parts of two moments, and
nothing in the program decides by it. Widths of integers are not
modelled: amounts are natural numbers, `SupplyIsMintedHolds` bounds every balance by
what was minted, and the share a delegator gets is at most the reward.
