------------------------------ MODULE Traffic -------------------------------
(***************************************************************************)
(* Transactions from the people and the server that sign them to the       *)
(* blocks that apply them: the wallets of cmd/dyld/main.go, the mempool of *)
(* chain/mempool.go, and the proposers' use of it in chain/consensus.go.   *)
(*                                                                         *)
(* The server signs for accounts of its own (the faucet, the demo wallets) *)
(* and remembers the next nonce of each, because a transaction it has sent *)
(* is not on the chain yet when it signs the next.  Every request is       *)
(* handled by a goroutine, here a clerk, that reserves a nonce under the   *)
(* server's lock, submits without it, and takes the nonce back when the    *)
(* mempool refuses.  Everybody else signs for themselves, with any nonce,  *)
(* and may submit a transaction again.                                     *)
(*                                                                         *)
(* Blocks follow one another (module Consensus): a proposer drains the     *)
(* mempool on the state the last block left, and the next proposer does so *)
(* after its block is committed.                                           *)
(***************************************************************************)
EXTENDS Ledger

CONSTANTS
    Clerks,       \* goroutines of the server that may sign at the same time
    Wallets,      \* the addresses the server signs for
    Requests,     \* what they are asked to sign: kind, to and amount
    Posted,       \* the transactions other people may submit, any number of times
    Proposers,    \* the validators, any of which may be elected
    Genesis,      \* the balances at genesis
    MaxMempool,   \* capacity of the mempool
    MaxBlockTxs,  \* how many transactions a block may take, 0 for all there are
    MaxBlocks,    \* bound: how many blocks are committed
    MaxNonce      \* bound: the last nonce the server signs with

ASSUME WalletsAssumption  == Wallets \subseteq Nodes /\ Proposers \subseteq Nodes
ASSUME PostedAssumption   == Posted \subseteq {tx \in Transaction : tx.from \notin Wallets}
ASSUME RequestsAssumption ==
    Requests \subseteq [kind : Kinds, to : Nodes, amount : Nat]
ASSUME GenesisAssumption  == Genesis \in [Nodes -> Nat]
ASSUME BoundsAssumption   ==
    /\ MaxMempool \in Nat /\ MaxBlockTxs \in Nat
    /\ MaxBlocks \in Nat /\ MaxNonce \in Nat

VARIABLES
    state,     \* the ledger after the newest block, the one Account reads
    blocks,    \* the transactions of each committed block
    draft,     \* the block under consensus, or NoDraft
    mempool,   \* the queue of submitted transactions
    nonces,    \* the server's next nonce per wallet
    desk,      \* what each clerk is doing: idle, signed, refused
    slip       \* the transaction it holds

vars == <<state, blocks, draft, mempool, nonces, desk, slip>>

NoDraft == [proposer |-> 0, txs |-> <<>>]
NoTx    == [kind |-> "none"]

\* How much of the queue Drain takes.
Batch == IF MaxBlockTxs \in 1..Len(mempool) THEN MaxBlockTxs ELSE Len(mempool)

TakeFirst(s, k) == SubSeq(s, 1, k)
DropFirst(s, k) == SubSeq(s, k + 1, Len(s))

Init ==
    /\ state = [balance |-> Genesis, nonce |-> [a \in Nodes |-> 0],
                bonded |-> [d \in Nodes |-> [v \in Nodes |-> 0]]]
    /\ blocks = <<>>
    /\ draft = NoDraft
    /\ mempool = <<>>
    /\ nonces = [a \in Wallets |-> 0]
    /\ desk = [c \in Clerks |-> "idle"]
    /\ slip = [c \in Clerks |-> NoTx]

-----------------------------------------------------------------------------
(* The server's wallets *)

\* The nonce a wallet signs with: the chain's, or a later one it has given out.
NextNonce_Chain(a) == state.nonce[a]
NextNonce(a) == IF nonces[a] > state.nonce[a] THEN nonces[a] ELSE state.nonce[a]

\* signFromKind, under the server's lock.
Sign(c) ==
    /\ desk[c] = "idle"
    /\ \E a \in Wallets, r \in Requests :
        /\ ~(r.kind = "transfer" /\ r.to = a)
        /\ r.amount > 0
        /\ NextNonce(a) <= MaxNonce
        /\ slip' = [slip EXCEPT ![c] = [kind |-> r.kind, from |-> a, to |-> r.to,
                                        amount |-> r.amount, nonce |-> NextNonce(a)]]
        /\ nonces' = [nonces EXCEPT ![a] = NextNonce(a) + 1]
    /\ desk' = [desk EXCEPT ![c] = "signed"]
    /\ UNCHANGED <<state, blocks, draft, mempool>>

\* Submit, without the lock: Mempool.Add, which refuses when it is full.
HandIn(c) ==
    /\ desk[c] = "signed"
    /\ IF Len(mempool) < MaxMempool
       THEN /\ mempool' = Append(mempool, slip[c])
            /\ desk' = [desk EXCEPT ![c] = "idle"]
            /\ slip' = [slip EXCEPT ![c] = NoTx]
       ELSE /\ desk' = [desk EXCEPT ![c] = "refused"]
            /\ UNCHANGED <<mempool, slip>>
    /\ UNCHANGED <<state, blocks, draft, nonces>>

\* The nonce is taken back unless another was given out since.
TakesBack_Always(a, nonce) == TRUE
TakesBack(a, nonce) == nonces[a] = nonce + 1

Rollback(c) ==
    /\ desk[c] = "refused"
    /\ LET tx == slip[c] IN
        nonces' = [nonces EXCEPT ![tx.from] = IF TakesBack(tx.from, tx.nonce)
                                              THEN tx.nonce ELSE @]
    /\ desk' = [desk EXCEPT ![c] = "idle"]
    /\ slip' = [slip EXCEPT ![c] = NoTx]
    /\ UNCHANGED <<state, blocks, draft, mempool>>

-----------------------------------------------------------------------------
(* Everybody else, and the chain *)

\* handleTx: Submit turns away the malformed and, once full, everybody.
Post(tx) ==
    /\ tx.amount > 0
    /\ ~(tx.kind = "transfer" /\ tx.from = tx.to)
    /\ Len(mempool) < MaxMempool
    /\ mempool' = Append(mempool, tx)
    /\ UNCHANGED <<state, blocks, draft, nonces, desk, slip>>

\* propose: what is drained and does not apply is gone.
Propose(p) ==
    /\ draft = NoDraft
    /\ Len(blocks) < MaxBlocks
    /\ draft' = [proposer |-> p, txs |-> Applicable(state, TakeFirst(mempool, Batch))]
    /\ mempool' = DropFirst(mempool, Batch)
    /\ UNCHANGED <<state, blocks, nonces, desk, slip>>

Commit ==
    /\ draft # NoDraft
    /\ Valid(state, draft.txs)
    /\ state' = Apply(state, draft.proposer, draft.txs)
    /\ blocks' = Append(blocks, draft.txs)
    /\ draft' = NoDraft
    /\ UNCHANGED <<mempool, nonces, desk, slip>>

Next ==
    \/ \E c \in Clerks : Sign(c) \/ HandIn(c) \/ Rollback(c)
    \/ \E tx \in Posted : Post(tx)
    \/ \E p \in Proposers : Propose(p)
    \/ Commit

Spec == Init /\ [][Next]_vars

-----------------------------------------------------------------------------
(* Properties *)

TypeOK ==
    /\ state \in LedgerState
    /\ blocks \in Seq(Seq(Transaction))
    /\ draft = NoDraft \/ draft \in [proposer : Proposers, txs : Seq(Transaction)]
    /\ mempool \in Seq(Transaction)
    /\ nonces \in [Wallets -> Nat]
    /\ desk \in [Clerks -> {"idle", "signed", "refused"}]
    /\ slip \in [Clerks -> Transaction \cup {NoTx}]

\* Supply grows by the reward of every block and by nothing else, whatever was
\* moved, bonded and unbonded, and however the reward was split.
SupplyIsMinted == Supply(state) = Total(Genesis) + Reward * Len(blocks)

\* The block a proposer builds passes the check every node makes of it: were
\* it refused, all of them would halt on it.
ProposalsApply == draft # NoDraft => Valid(state, draft.txs)

\* A transaction takes effect at most once, however often it is submitted.
Everywhere == UNION {{<<i, j>> : j \in DOMAIN blocks[i]} : i \in DOMAIN blocks}
OnceOnly ==
    \A x, y \in Everywhere :
        LET s == blocks[x[1]][x[2]]
            t == blocks[y[1]][y[2]]
        IN  s.from = t.from /\ s.nonce = t.nonce => x = y

\* The server never has two transactions of a wallet under way that carry the
\* same nonce: one of them could not apply.
Queued == {mempool[i] : i \in DOMAIN mempool}
SignedOnce ==
    /\ \A i, j \in DOMAIN mempool :
        /\ mempool[i].from \in Wallets
        /\ mempool[i].from = mempool[j].from /\ mempool[i].nonce = mempool[j].nonce
        => i = j
    /\ \A c, d \in Clerks :
        desk[c] = "signed" =>
            /\ slip[c].nonce >= state.nonce[slip[c].from]
            /\ \A tx \in Queued : tx.from = slip[c].from => tx.nonce # slip[c].nonce
            /\ desk[d] = "signed" /\ slip[d].from = slip[c].from
               /\ slip[d].nonce = slip[c].nonce => c = d

\* "A rejected send does not leave the local nonce ahead of the chain forever"
\* (cmd/dyld/main.go, the comment on signFrom): when nothing of a wallet is
\* under way, its next nonce is the chain's.  With a later one nothing it signs
\* will ever apply.
NeverAhead ==
    \A a \in Wallets :
        /\ \A c \in Clerks : desk[c] = "idle" \/ slip[c].from # a
        /\ \A tx \in Queued : tx.from # a
        /\ draft = NoDraft
        => nonces[a] <= state.nonce[a]
=============================================================================
