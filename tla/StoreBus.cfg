CONSTANTS
    RETIRED_STORE_BUFFER_SIZE = 2
    Kinds = {"memory", "memory_hole", "clint", "clint_refused", "hole"}
    MaxStores = 4
SPECIFICATION LiveSpec
INVARIANTS AckOwn WrittenOnce WriteOrder
PROPERTY StoresFinish
