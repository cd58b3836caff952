SPECIFICATION Spec
CONSTANTS
    Peer = {p1, p2}
    Nil = Nil
    Block <- MCBlock
    Previous <- MCPrevious
    Genesis = 0
    Bad = {3}
    Low = {3}
    Steady = {p1}
    Syncing = {p2}
    inflightQueueMax = 2
    downloadQueueMax = 1
    ignoreBlocksMax = 1
    MaxConnections = 2
INVARIANTS
    SteadyPeerStays
PROPERTIES
    LeaseSpec
    NextIsProcessed
CHECK_DEADLOCK FALSE
