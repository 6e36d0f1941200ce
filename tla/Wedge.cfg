SPECIFICATION Spec
CONSTANTS
    N = 3
    Stake <- OneValidator
    Reward = 3
    Clerks = {c1, c2}
    Wallets = {2}
    Requests <- Grants
    Posted <- NobodyElse
    Proposers = {1}
    Genesis <- Funded
    MaxMempool = 1
    MaxBlockTxs = 2
    MaxBlocks = 2
    MaxNonce = 1
INVARIANT
    NeverAhead
CHECK_DEADLOCK FALSE
