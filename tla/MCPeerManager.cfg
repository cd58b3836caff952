SPECIFICATION Spec
CONSTANTS
    Out = {a1, a2}
    In = {c1, c2, c3}
    Host <- MCHost
    Nil = Nil
    MAX_OUTBOUND_PEER_CONNECTIONS = 1
    inboundLimit = 2
    MAX_INBOUND_PEER_CONNECTIONS_FROM_SAME_HOST = 2
    addrChanSize = 2
    MaxMessages = 2
INVARIANTS
    CountByHostExact
    SlotIsFreed

    
CHECK_DEADLOCK FALSE
