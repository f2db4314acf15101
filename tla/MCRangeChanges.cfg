CONSTANTS
    n1 = n1
    n2 = n2
    n3 = n3
    NoNode = NoNode
    Nodes <- MCNodes
    Home <- MCHome
    SplitKeys = {2}
    Changes <- MCChanges
    Writes = {1, 3}
    Environments <- MCEnvironments
SPECIFICATION MCSpec
CHECK_DEADLOCK FALSE
INVARIANTS
    OneOwner
    AckedWritesKept
    RoutingRight
PROPERTIES
    MergeSettles
