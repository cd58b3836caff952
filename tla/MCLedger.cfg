SPECIFICATION LedgerSpec
CONSTANTS
    BlockID <- MCBlockID
    Genesis = 0
    Block <- MCBlock
    TransactionID <- MCTransactionID
    Transaction <- MCTransaction
    PublicKey = {"a", "b"}
    Nil = Nil
    COINBASE_MATURITY = 1
    BLOCKS_UNTIL_NEW_SERIES = 1
    INITIAL_COINBASE_REWARD = 4
    BLOCKS_UNTIL_REWARD_HALVING = 2
    INITIAL_MAX_TRANSACTIONS_PER_BLOCK = 2
    BLOCKS_UNTIL_TRANSACTIONS_PER_BLOCK_DOUBLING = 4
    MAX_TRANSACTIONS_PER_BLOCK = 4
    MAX_TRANSACTIONS_PER_BLOCK_EXCEEDED_AT_HEIGHT = 8
    Prune = TRUE
INVARIANTS
    LedgerInv
    NoDoubleConfirmation
    BalancesAreReplay
    SupplyConserved
    TipCanBeDisconnected
