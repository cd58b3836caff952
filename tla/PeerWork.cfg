SPECIFICATION Spec
CONSTANTS
    Peer = {p1, p2}
    Worker = {p1}
    Leaver = {p2}
    TipChangeCap = 2
    BlockChanCap = 3
    MaxBlocks = 4
    MaxReorg = 1
    MaxWorks = 2
    SubmitsPerWork = 2
    Nil = Nil
INVARIANTS
    WorkIsFresh
    PeerKnowsTip
    SolvesItsWork
    AnnouncedIsWhole
CHECK_DEADLOCK FALSE
