SPECIFICATION Spec
CONSTANTS
    N = 3
    Stake <- OneValidator
    Reward = 3
    Clerks = {c1, c2}
    Wallets = {2}
    Requests <- AllKinds
    Posted <- BondAndBack
    Proposers = {1}
    Genesis <- Funded
    MaxMempool = 2
    MaxBlockTxs = 2
    MaxBlocks = 2
    MaxNonce = 2
INVARIANTS
    TypeOK
    SupplyIsMinted
    ProposalsApply
    OnceOnly
    SignedOnce
CHECK_DEADLOCK FALSE
