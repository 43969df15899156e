SPECIFICATION Spec
CONSTANTS
    l1 = l1
    None = None
    Leases <- OneLease
    MaxSessions = 6
    MaxFaults = 1
    MaxOutages = 1
    Orderly = FALSE
INVARIANTS
    TypeOK
    RunningLeaseMounted
    LeaseIsExclusive
    MountIsAccountedFor
CHECK_DEADLOCK FALSE
