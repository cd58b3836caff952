SPECIFICATION Spec
CONSTANTS
    BlockID <- MCBlockID
    Genesis = 0
    Block <- MCBlock
    TransactionID <- MCTransactionID
    Transaction <- MCTransaction
    PublicKey = {"a", "b"}
    Nil = Nil
    COINBASE_MATURITY = 1
    BLOCKS_UNTIL_NEW_SERIES = 2
    INITIAL_COINBASE_REWARD = 4
    BLOCKS_UNTIL_REWARD_HALVING = 10
    INITIAL_MAX_TRANSACTIONS_PER_BLOCK = 2
    BLOCKS_UNTIL_TRANSACTIONS_PER_BLOCK_DOUBLING = 4
    MAX_TRANSACTIONS_PER_BLOCK = 4
    MAX_TRANSACTIONS_PER_BLOCK_EXCEEDED_AT_HEIGHT = 8
    Prune = FALSE
    MIN_FEE_CRUZBITS = 1
    MIN_AMOUNT_CRUZBITS = 1
    MAX_TRANSACTION_QUEUE_LENGTH = 2
    Times <- MCTimes
    MaxFaults = 2
INVARIANTS
    TipIsBest
    OnChainIsMain
    QueueIsMinable
    QueueIsUnconfirmed
    BalanceAtTip
PROPERTIES
    OldTipIsRestored
    ProcessBlockReturns
    ConnectRepairsQueue
    LedgerSpec
CHECK_DEADLOCK FALSE
