SPECIFICATION Spec
CONSTANTS
    a = a
    b = b
    f1 = f1
    f2 = f2
    Runtimes = {a, b}
    Flexible = {f1}
    Home <- HomeOne
    MaxPermits = 1
    MaxQueued = 2
    Submissions <- SubmitOne
    Closers = {a, b}
    Deadlines = FALSE
    Panics = FALSE
    Refusals = TRUE
CHECK_DEADLOCK FALSE
INVARIANT
    WaitsForCapacityOnly
