\* Every driver with two workers, every command, two faults, one crash, three commands.
CONSTANTS
    N = 2
    Kinds = {"phase2", "parallel", "gnf"}
    Commands = {"setup", "status", "probe", "remove", "incomplete", "marker", "diagnose", "corrupt"}
    MaxFaults = 2
    MaxCrashes = 1
    MaxCommands = 3
SPECIFICATION Spec
INVARIANTS
    TypeOK
    OwnerIsProven
    CleanupStateIsTrue
    NoSilentDeadEnd
PROPERTY RemovedOnlyWhenEmpty
CHECK_DEADLOCK FALSE
