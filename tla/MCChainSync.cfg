SPECIFICATION Spec
CONSTANTS
    n1 = n1
    n2 = n2
    Node = {n1, n2}
    Nil = Nil
    Genesis = 0
    Block <- MCBlock
    Previous <- MCPrevious
    Height <- MCHeight
    Starts <- MCStarts
    Elsewhere <- MCElsewhere
    maxBlocksPerInv = 2
    denseIDs = 1
    inflightQueueMax = 2
    downloadQueueMax = 3
INVARIANTS
    InflightIsUnderWay
PROPERTIES
    ChainsConverge
    ExchangeEnds
CHECK_DEADLOCK FALSE
