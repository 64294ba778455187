CONSTANTS
    Nodes = {n1}
    Patchers = {p1}
    Batches = {p1}
    Syncers = {s1}
    Processes = {p1, s1}
    ProcessOf <- Apart
    Requests <- DryRequests
    Retries = 1
    MayFail = {}
    Fields = {"hopLimit", "region"}

SPECIFICATION Spec
PROPERTIES
    DryRunChangesNothing
CHECK_DEADLOCK FALSE
