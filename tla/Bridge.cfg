SPECIFICATION FairSpec
CONSTANTS
    r1 = r1
    r2 = r2
    None = None
    Runs <- OneRun
    MaxSessions = 2
    MaxReloads = 2
    MaxForeign = 1
    MaxFaults = 2
INVARIANTS
    TypeOK
    CompletedIsClean
PROPERTIES
    ExecutedOnce
    EditorFrees
CHECK_DEADLOCK FALSE
