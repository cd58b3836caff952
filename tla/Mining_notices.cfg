SPECIFICATION Spec
CONSTANTS
    Miner = {m1}
    Peer = {p1}
    Tx = {t1, t2}
    Nil = Nil
    TipChangeCap = 1
    NewTxCap = 1
    BlockChanCap = 1
    TxChanCap = 1
    MAX_TRANSACTIONS_TO_INCLUDE_PER_BLOCK = 3
    MaxBlocks = 4
INVARIANTS
    StaleWorkIsNoticed
    QueuedIsAnnounced
CHECK_DEADLOCK FALSE
