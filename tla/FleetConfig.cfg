CONSTANTS
    a = a
    b = b
    scheduler = scheduler
    Nodes = {a, b}
    Order <- MCOrder
    Keys <- MCKeys
    Starts <- MCStarts
    Patches <- MCPatches
    Forms <- MCForms
    Targets <- MCTargets
    Selections <- MCSelections
    Syncers = {scheduler}
    MaxRequests = 2
    MaxPages = 1
    MaxEvents = 2

SPECIFICATION Spec
INVARIANTS
    TypeOK
    KeysStayPut
    AlignedMatch
PROPERTIES
    AsReviewed
CHECK_DEADLOCK FALSE
