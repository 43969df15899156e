SPECIFICATION Spec
CONSTANTS
    l1 = l1
    None = None
    Leases <- OneLease
    MaxSessions = 6
    MaxFaults = 0
    MaxOutages = 0
    Orderly = TRUE
PROPERTIES
    LiveUnityKeepsChild
CHECK_DEADLOCK FALSE
