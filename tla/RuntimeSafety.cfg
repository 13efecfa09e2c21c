SPECIFICATION Spec
CONSTANTS
    Cmds = {c1, c2, c3}
    EnvClose = envClose
    Workers = {w0, w1}
    OrdinaryWorker = w0
    Writer = writer
    None = none
    ReadOnly = FALSE
    MaxCommands = 2
CHECK_DEADLOCK FALSE
SYMMETRY CmdSymmetry
INVARIANTS
    TerminalAdmission
    FinishedQuiescent
    NothingLeftPending
    CloseOkMeansStopped
    RequireCleanKeepsMutations
    PoisonSticks
    
PROPERTY SettledOnce
