SPECIFICATION FairSpec
CONSTANTS
    N = 2
    Stake <- OneOne
    MaxHeight = 3
    HealDelay = 0
    InboxCap = 30
    Faultable = {1, 2}
    Bondings <- NoBondings
    Replayed <- FromGenesis
    Cancellable = FALSE
INVARIANTS
    SameElection
PROPERTIES
    RunReturns
