SPECIFICATION ClientsSpec
CONSTANTS
    s1 = s1
    s2 = s2
    s3 = s3
    n1 = n1
    n2 = n2
    n3 = n3
    r1 = r1
    Sessions = {s1, s2, s3}
    WindowSets <- MCWindowSets
    Names = {n1, n2, n3}
    CaseFold <- MCAlike
    Rooms = {r1, r2}
    None = None
    Window = 1
    MaxRequests = 6
CONSTRAINT Bound
CHECK_DEADLOCK FALSE
INVARIANTS NamesAreOwned RoomsAgree SameChatOrder ListFollowsRoom
