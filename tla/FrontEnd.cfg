CONSTANTS
    FETCH_WIDTH = 2
    DECODE_WIDTH = 1
    RENAME_WIDTH = 1
    COMMIT_WIDTH = 1
    FETCH2_DECODE_FIFO_SIZE = 2
    DECODE_RENAME_FIFO_SIZE = 1
    ROB_SIZE = 2
    RETIRED_STORE_BUFFER_SIZE = 1
    PC_NUM = 5
    NoPc = none
    Programs <- MCPrograms
    Target <- MCTarget
    Misaligned = {4}
    TrapPc = 3
SPECIFICATION LiveSpec
INVARIANTS StreamUnbroken WaitOwned OldestIsNext FenceFresh
PROPERTY FetchProgress
