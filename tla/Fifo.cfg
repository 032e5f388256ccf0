CONSTANTS
    Size = 3
    Data = {a, b}
    NoData = none
SPECIFICATION Spec
INVARIANTS TypeOK ViewsNested UsedSpaceExact IdValidExact RingExact
PROPERTY ImplementsQueue
