CONSTANTS
    ROB_SIZE = 3
    DISPATCH_WIDTH = 2
    COMMIT_WIDTH = 2
    ISSUE_QUEUE_SIZE = 1
    Kinds = {"int", "fence", "store"}
SPECIFICATION FairSpec
PROPERTY FencePassed
