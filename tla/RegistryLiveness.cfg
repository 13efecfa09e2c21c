SPECIFICATION FairSpec
CONSTANTS
    Ops = {h1, h2}
    Envs = {e1}
    Inodes = {i1, i2}
    NoInode = noInode
    NoOp = noOp
    Foreign = foreign
    Timeouts = FALSE
CHECK_DEADLOCK FALSE
PROPERTIES
    OperationsEnd
    HooksEnd
