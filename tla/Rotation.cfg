SPECIFICATION FairSpec
CONSTANTS
    N = 3
    Stake <- TwoOneOne
    Bondings <- MaybeHeaviest
    MaxChanges = 3
    MaxCounted = 7
INVARIANTS
    SpreadBounded
    NoCatchingUp
    FollowsReference
PROPERTIES
    EverybodyProposes
