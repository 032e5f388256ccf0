CONSTANTS
    Phys = {p1, p2, p3, p4, p5}
    Arch = {1, 2}
    ROB_SIZE = 2
    CHECKPOINT_BUFFER_SIZE = 2
    RENAME_WIDTH = 2
    COMMIT_WIDTH = 2
    Units = {"alu", "bru", "lu", "sdu"}
    NoReg = none
    MaxInst = 3
    MaxTrap = 1
    FaultRd = TRUE
SPECIFICATION Spec
SYMMETRY PhysSymmetry
VIEW Reachable
INVARIANTS TypeOK NoAbort SpeculativeMapExact OneRole ReadableExact ResultsLive
PROPERTY LooksInOrder
