SPECIFICATION FairSpec
CONSTANTS
    Cmds = {c1, c2}
    EnvClose = envClose
    Workers = {w0, w1}
    OrdinaryWorker = w0
    Writer = writer
    None = none
    ReadOnly = FALSE
    MaxCommands = 2
CHECK_DEADLOCK FALSE
PROPERTIES
    AcceptedSettles
    ForcedCloseReleases
