CONSTANTS
    Nodes = {n1}
    Patchers = {p1}
    Batches = {p1}
    Syncers = {s1}
    Processes = {p1, s1}
    ProcessOf <- Apart
    Requests <- MixedRequests
    Retries = 1
    MayFail = {"commit", "write", "refuse", "partial"}
    Fields = {"hopLimit", "region", "mqttRoot"}

SPECIFICATION FairSpec
PROPERTIES
    OnlyAsked
    CatchesUp
CHECK_DEADLOCK FALSE
