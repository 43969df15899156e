\* Three runs, one of which may clear the store, and one crash.
CONSTANTS
    Runs = {r1, r2, r3}
    Nobody = Nobody
    MaxClears = 1
    MaxCrashes = 1
SPECIFICATION Spec
SYMMETRY Alike
INVARIANTS
    HandedOutIsWhole
    BuildIsNeeded
PROPERTY PublishedStays
CHECK_DEADLOCK FALSE
