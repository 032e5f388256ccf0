CONSTANTS
    Tags = {t1, t2, t3, t4}
    NoTag = none
    Kinds = {"memory", "clint32", "hole", "misaligned"}
    MaxReads = 3
SPECIFICATION LiveSpec
INVARIANTS OwnAnswer RevokeExact
PROPERTY EveryLoadAnswered
