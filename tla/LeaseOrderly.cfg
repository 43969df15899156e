SPECIFICATION FairSpec
CONSTANTS
    l1 = l1
    None = None
    Leases <- OneLease
    MaxSessions = 6
    MaxFaults = 2
    MaxOutages = 2
    Orderly = TRUE
INVARIANTS
    ChildIsJournaled
    RetainedKept
PROPERTIES
    LeaseSettles
CHECK_DEADLOCK FALSE
