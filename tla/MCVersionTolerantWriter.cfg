SPECIFICATION Spec
CONSTANTS
    InitialOwned = 2
    Calls <- MCCalls
    Capacities = {3}
    FixedCap = 4
    Prefix <- MCPrefix
    Builds = {TRUE, FALSE}
    MaxBytes = 5
    MAX_MEMBER_COUNT = 2
    Values <- MCValues
    MaxMembers = 3
INVARIANTS TypeOK NoSilentLoss
