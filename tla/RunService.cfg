SPECIFICATION Spec
CONSTANTS
    Requests <- MCRequests
    NoCode = 99
    MaxBeats = 1
    MaxFaults = 2
INVARIANTS
    TypeOK
    ExitTellsPersisted
    WorkspaceIsAccountedFor
PROPERTIES
    RunEnds
CHECK_DEADLOCK FALSE
