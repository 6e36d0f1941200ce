SPECIFICATION Spec
CONSTANTS
    N = 2
    Stake <- ThreeOne
    MaxHeight = 3
    HealDelay = 0
    InboxCap = 30
    Faultable = {2}
    Bondings <- HeavyLast
    Replayed <- FromGenesis
    Cancellable = FALSE
CHECK_DEADLOCK FALSE
INVARIANTS
    Agreement
