SPECIFICATION Spec
CONSTANTS
    N = 4
    Stake <- FourEqual
    Handlers = {g1}
    Hosts = {x, y}
    Accounts = {a, b}
    Mixes <- FaultsOnly
    Rate = 1
    Burst = 1
    GlobalRate = 1
    GlobalBurst = 2
    MaxTracked = 1
    MaxViewers = 2
    MaxViewersPerIP = 1
    CoolOff = 2
    MaxSeen = 1
    MaxTime = 3
SYMMETRY Alike
INVARIANTS
    BudgetHolds
