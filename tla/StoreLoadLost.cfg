CONSTANTS
    ROB_SIZE = 3
    LOAD_QUEUE_SIZE = 2
    STORE_BUFFER_SIZE = 2
    RETIRED_STORE_BUFFER_SIZE = 1
    COMMIT_WIDTH = 1
    Bytes = {0}
    Accesses = {{0}}
    Vals = {v1, v2}
SPECIFICATION Spec
SYMMETRY ValSymmetry
INVARIANT LoadsExact
