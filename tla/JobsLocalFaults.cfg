CONSTANTS
    Jobs = {1, 2}
    ClaimLimit = 2
    Workers = {}
    Threads = {t1, t2}
    Handlers = {h1, h2}
    Kinds = {"scan", "mutation", "inline"}
    LocalMode = TRUE
    OnceWorkers = {}
    DbMayFail = TRUE
    MaxItems = 1
    MaxStarts = 3
    t1 = t1
    t2 = t2
    h1 = h1
    h2 = h2

SPECIFICATION Spec
SYMMETRY Symmetry
INVARIANTS
    ExclusiveRun
    AtMostOnce
PROPERTIES
    ImplementsLifecycle
CHECK_DEADLOCK FALSE
