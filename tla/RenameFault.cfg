CONSTANTS
    Phys = {p1, p2, p3}
    Arch = {1}
    ROB_SIZE = 2
    CHECKPOINT_BUFFER_SIZE = 2
    RENAME_WIDTH = 2
    COMMIT_WIDTH = 2
    Units = {"lu"}
    NoReg = none
    MaxInst = 4
    MaxTrap = 1
    FaultRd = TRUE
SPECIFICATION Spec
SYMMETRY PhysSymmetry
VIEW Reachable
INVARIANT NoneLost
