SPECIFICATION Spec
CONSTANTS
    Commands <- MCCommands
    resultChanSize = 1
    MaxConnections = 2
    MaxCommands = 2
    MaxNotices = 1
INVARIANTS
    AnswersMatch
PROPERTIES
    CommandEnds
    NewIsAnnounced
CHECK_DEADLOCK FALSE
