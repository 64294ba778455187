CONSTANTS
    Jobs = {1, 2}
    ClaimLimit = 1
    Workers = {w1, w2}
    Threads = {}
    Handlers = {h1}
    Kinds = {"scan"}
    LocalMode = FALSE
    OnceWorkers = {w2}
    DbMayFail = TRUE
    MaxItems = 1
    MaxStarts = 1
    w1 = w1
    w2 = w2
    h1 = h1

SPECIFICATION FairSpec
INVARIANTS
    TypeOK
    EvidenceAgrees
    HeartbeatTruthful
    ExclusiveRun
PROPERTIES
    ImplementsLifecycle
    PendingIsClaimed
    RunningEndsOrWorkerDied
CHECK_DEADLOCK FALSE
