CONSTANTS
    N = 4
    Programs <- MCPrograms
    INTEGER_ISSUE_QUEUE_SIZE = 3
    INTEGER_ISSUE_WIDTH = 2
    LSU_ISSUE_QUEUE_SIZE = 3
SPECIFICATION LiveSpec
INVARIANTS OperandsReady ExecutedOnce NoneDropped
PROPERTY AllExecuted
