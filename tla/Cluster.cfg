SPECIFICATION FairSpec
CONSTANTS
    RecentBlocks = 2
    RecentTxs = 2
    Proposers = {1}
    Long <- OnlyThree
    Clients = {c1}
    Buffer = 1
    Sizes <- NoneOneThree
    WritesFail = TRUE
    MaxHeight = 3
    MaxCrashes = 2
CHECK_DEADLOCK FALSE
INVARIANTS
    TypeOK
    ViewIsSeed
    FeedIsProvable
    NothingShownIsLost
    LogIsPrefix
    EventsInOrder
PROPERTIES
    CommitsGoOn
