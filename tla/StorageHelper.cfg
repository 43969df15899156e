\* Two helpers one after the other, three requests each, two faults, one crash,
\* one replacement of what lies at the paths.
CONSTANTS
    Ids = {1, 2, 3}
    MaxProcesses = 2
    MaxFaults = 2
    MaxTampers = 1
    MaxCrashes = 1
SPECIFICATION Spec
INVARIANTS
    NothingUnjournaled
    AnswerIsTrue
PROPERTY ForeignIsPreserved
CHECK_DEADLOCK FALSE
