SPECIFICATION FairSpec
CONSTANTS
    c1 = c1
    c2 = c2
    k1 = k1
    None = None
    Keys <- OneKey
    Clients <- TwoClients
    KeyOf <- SameKey
    MaxFaults = 2
    MaxKills = 2
    MaxOutages = 1
    Prompt = TRUE
INVARIANTS
    TypeOK
    PublishedIsVerified
    OneBuilder
PROPERTIES
    PublishedStays
    WaitingEnds
CHECK_DEADLOCK FALSE
