CONSTANTS
    Jobs = {1}
    ClaimLimit = 1
    Workers = {w1}
    Threads = {}
    Handlers = {h1}
    Kinds = {"mutation"}
    LocalMode = FALSE
    OnceWorkers = {}
    DbMayFail = FALSE
    MaxItems = 1
    MaxStarts = 2
    w1 = w1
    h1 = h1

SPECIFICATION Spec
PROPERTIES
    RecoversOnlyOrphans
CHECK_DEADLOCK FALSE
