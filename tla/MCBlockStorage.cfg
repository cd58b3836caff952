SPECIFICATION Spec
CONSTANTS
    Block = {1, 2, 3}
    Genesis = 0
    Previous <- MCPrevious
    CompressFlags = {TRUE, FALSE}
    FaultSteps = {"idle", "open", "write", "put", "ledger"}
    MaxFaults = 3
INVARIANTS
    ReadableUnlessTorn
CHECK_DEADLOCK FALSE
