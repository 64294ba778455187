CONSTANTS
    Endpoints = {1, 2}
    Slots = {1, 2}
    FailuresBeforeOffline = 1
    Syncers = {s1, s2}
    Discoverers = {d1}
    Targets = {1, 2}
    Presents = {"owner", "alias", "unknown"}
    DbMayFail = TRUE
    Scheduled = FALSE
    HostsChange = FALSE
    Stations <- Stations2
    At <- OneEach
    s1 = s1
    s2 = s2
    d1 = d1

SPECIFICATION Spec
SYMMETRY Symmetry
INVARIANTS
    LinksTruthful
    NodesLinked
    ListedOnce
