CONSTANTS
    Phys = {p1, p2, p3, p4}
    Arch = {1}
    ROB_SIZE = 3
    CHECKPOINT_BUFFER_SIZE = 2
    RENAME_WIDTH = 2
    COMMIT_WIDTH = 2
    Units = {"alu", "bru"}
    NoReg = none
    MaxInst = 4
    MaxTrap = 0
    FaultRd = TRUE
SPECIFICATION Spec
SYMMETRY PhysSymmetry
VIEW Reachable
INVARIANTS CheckpointExact NoneLost CheckpointsOwned
