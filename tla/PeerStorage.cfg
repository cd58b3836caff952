SPECIFICATION Spec
CONSTANTS
    Addr = {1, 2, 3}
    Nil = Nil
    Main = Main
    Handler = {h1}
    Banned = {3}
    Heard = {1}
    Claimed = {2, 3}
    want = 2
    MaxClock = 3
    MaxCrashes = 1
INVARIANTS
    
    ConnectedIsRecorded
    DialledOnce
PROPERTIES
    ConnectToPeersEnds
CHECK_DEADLOCK FALSE
