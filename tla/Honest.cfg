SPECIFICATION FairSpec
CONSTANTS
    N = 2
    Stake <- ThreeOne
    MaxHeight = 4
    HealDelay = 0
    InboxCap = 6
    Faultable = {}
    Bondings <- MaybeLast
    Replayed <- FromGenesis
    Cancellable = TRUE
INVARIANTS
    SameElection
PROPERTIES
    RunReturns
    CancelReturns
