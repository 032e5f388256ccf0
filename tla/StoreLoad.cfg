CONSTANTS
    ROB_SIZE = 3
    LOAD_QUEUE_SIZE = 1
    STORE_BUFFER_SIZE = 2
    RETIRED_STORE_BUFFER_SIZE = 1
    COMMIT_WIDTH = 1
    Bytes = {0, 1}
    Accesses = {{0}, {0, 1}}
    Vals = {v1, v2}
SPECIFICATION Spec
SYMMETRY ValSymmetry
INVARIANTS StaleLoadCaught
PROPERTY InOrderMemory
