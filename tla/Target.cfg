SPECIFICATION Spec
CONSTANTS
    RETARGET_INTERVAL = 2
    TARGET_SPACING = 4
    RETARGET_SMA_WINDOW = 2
    BITCOIN_CASH_RETARGET_ALGORITHM_HEIGHT = 3
    NUM_BLOCKS_FOR_MEDIAN_TMESTAMP = 3
    INITIAL_TARGET = 255
    TwoTo256 = 65536
    MaxBlocks = 7
    Times = {1, 2, 3, 5, 40}
    MaxFork = 2
INVARIANTS
    MedianNeverFalls
    TimespansAddUp
    
CHECK_DEADLOCK FALSE
