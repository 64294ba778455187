CONSTANTS
    n1 = n1
    n2 = n2
    Nodes = {n1, n2}
    Names = {"g"}
    Filters = {"none", "routers"}
    Handlers = {h1, h2}
    Lists <- MCLists
    Order <- MCOrder
    DbMayFail = TRUE
    AtOnce = 2

SPECIFICATION FairSpec
INVARIANTS
    TypeOK
    DoneAsAsked
    OncePerNode
PROPERTIES
    JobPatchesMembers
    EverythingEnds
