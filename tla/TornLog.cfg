SPECIFICATION Spec
CONSTANTS
    RecentBlocks = 2
    RecentTxs = 2
    Proposers = {1}
    Long <- OnlyOne
    Clients = {c1}
    Buffer = 1
    Sizes <- NoneOne
    WritesFail = FALSE
    MaxHeight = 2
    MaxCrashes = 3
CHECK_DEADLOCK FALSE
INVARIANTS
    RestartsFromLog
