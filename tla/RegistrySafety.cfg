SPECIFICATION Spec
CONSTANTS
    Ops = {h1, h2}
    Envs = {e1, e2}
    Inodes = {i1, i2}
    NoInode = noInode
    NoOp = noOp
    Foreign = foreign
    Timeouts = TRUE
CHECK_DEADLOCK FALSE
SYMMETRY Symmetry
INVARIANTS
    ResetSparesLive
    QuarantineHolds
    HookMeansStopped
    NothingLeftReserved
