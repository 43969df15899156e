\* Two requests and a keeper of the baseline, two faults, one corruption and one crash.
SPECIFICATION Spec
CONSTANTS
    r1 = r1
    r2 = r2
    w1 = w1
    w2 = w2
    Requests = {r1, r2}
    LeaseIds = {w1, w2}
    Plans <- MCPlans
    None = None
    Keeper = Keeper
    MaxFaults = 2
    MaxCorruptions = 1
    MaxCrashes = 1
    MaxKeeperOps = 1
INVARIANTS
    TypeOK
    WithinBudget
    HandedOutIsWhole
    NothingLeftSilently
    ReleaseCanGoOn
CHECK_DEADLOCK FALSE
