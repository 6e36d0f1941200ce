SPECIFICATION Spec
CONSTANTS
    N = 3
    Stake <- TwoTwoOne
    MaxHeight = 2
    HealDelay = 0
    InboxCap = 20
    Faultable = {3}
    Bondings <- BondedLast
    Replayed <- FromLog
    Cancellable = FALSE
INVARIANTS
    TypeOK
PROPERTIES
    FinalSpec
