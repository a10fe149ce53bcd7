SPECIFICATION ClientsSpec
CONSTANTS
    s1 = s1
    s2 = s2
    s3 = s3
    n1 = n1
    n2 = n2
    n3 = n3
    r1 = r1
    Sessions = {s1, s2}
    WindowSets <- MCTwoClients
    Names = {n1, n2}
    CaseFold <- MCCaseFold
    Rooms = {r1}
    None = None
    Window = 1
    MaxRequests = 5
CHECK_DEADLOCK FALSE
PROPERTIES HandlersEnd LoginAnswered
