SPECIFICATION Spec
CONSTANTS
    N = 2
    Stake <- ThreeOne
    MaxHeight = 4
    HealDelay = 1
    InboxCap = 30
    Faultable = {2}
    Bondings <- NoBondings
    Replayed <- FromGenesis
    Cancellable = FALSE
CHECK_DEADLOCK FALSE
INVARIANTS
    Agreement
    NeverHalts
    NoFalseSlash
    SlashLifecycle
    NoStaleFlag
