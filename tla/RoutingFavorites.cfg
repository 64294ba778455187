CONSTANTS
    a = a
    b = b
    c = c
    Peers = {a, b, c}
    Radios = {a, b}
    Routers = {a, c}
    Order <- MCOrder
    Workers = {w1, w2}
    Starts <- MCStarts
    MaxEvents = 1
    MaxRequests = 1
    MayFail = {"connect", "nack", "ack", "sync", "commit"}

SPECIFICATION FairSpec
INVARIANTS
    TypeOK
    SuccessIsReached
    RefreshSettles
    RefreshShows
    VisibilityAgrees
PROPERTIES
    OnlyTargets
    JobsEnd
CHECK_DEADLOCK FALSE
