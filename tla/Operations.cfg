CONSTANTS
    Nodes = {n1, n2}
    Patchers = {p1}
    Batches = {p1}
    Syncers = {s1}
    Processes = {web}
    ProcessOf <- Together
    Requests <- MCRequests
    Retries = 1
    MayFail = {"commit", "write", "refuse", "kill"}
    Fields = {"hopLimit", "region"}

SPECIFICATION Spec
INVARIANTS
    TypeOK
    AloneAgrees
    TimeoutScoped
PROPERTIES
    SuccessIsWritten
SYMMETRY Symmetry
CHECK_DEADLOCK FALSE
