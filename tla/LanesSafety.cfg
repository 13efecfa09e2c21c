SPECIFICATION Spec
CONSTANTS
    a = a
    b = b
    f1 = f1
    f2 = f2
    Runtimes = {a, b}
    Flexible = {f1, f2}
    Home <- HomeTwins
    MaxPermits = 1
    MaxQueued = 2
    Submissions <- SubmitTwins
    Closers = {a}
    Deadlines = TRUE
    Panics = TRUE
    Refusals = TRUE
SYMMETRY Twins
CHECK_DEADLOCK FALSE
INVARIANTS
    PermitsExact
    DemandExact
    NoSleepOverWork
    NothingLeftQueued
