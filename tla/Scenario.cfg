\* Three instances, one bus line, the exit codes that order differently.
SPECIFICATION ScenarioSpec
CONSTANTS
    a = a
    b = b
    c = c
    Roles = {a, b, c}
    NoRole = none
    Files <- MCFiles
    BusFiles <- MCBusFiles
    Codes = {0, 3, 4, 10}
    MaxMessages = 1
INVARIANTS
    ScenarioTypeOK
    GateIsTrue
    EventsComplete
PROPERTY Terminates
CHECK_DEADLOCK FALSE
