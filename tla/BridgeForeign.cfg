SPECIFICATION Spec
CONSTANTS
    r1 = r1
    r2 = r2
    None = None
    Runs <- OneRun
    MaxSessions = 1
    MaxReloads = 0
    MaxForeign = 1
    MaxFaults = 0
INVARIANTS
    ForeignNeverCompletes
CHECK_DEADLOCK FALSE
