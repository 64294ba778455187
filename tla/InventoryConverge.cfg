CONSTANTS
    Endpoints = {1, 2}
    Slots = {1}
    FailuresBeforeOffline = 2
    Syncers = {s1}
    Discoverers = {d1}
    Targets = {2}
    Presents = {"owner"}
    DbMayFail = FALSE
    Scheduled = TRUE
    HostsChange = TRUE
    Stations <- Stations1
    At <- TwoOfOne
    s1 = s1
    d1 = d1

SPECIFICATION FairSpec
INVARIANTS
    TypeOK
PROPERTIES
    OfflineAfterFailures
    Converges
