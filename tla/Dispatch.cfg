CONSTANTS
    ROB_SIZE = 3
    DISPATCH_WIDTH = 2
    COMMIT_WIDTH = 2
    ISSUE_QUEUE_SIZE = 1
    Kinds = {"int", "bru", "csr", "fence", "load", "store"}
SPECIFICATION FairSpec
INVARIANTS PlacedOnce DispatchOrder FenceBarrier CsrIsolated
PROPERTIES HeadRetires WaitEnds
