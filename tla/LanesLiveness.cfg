SPECIFICATION FairSpec
CONSTANTS
    a = a
    b = b
    f1 = f1
    f2 = f2
    Runtimes = {a, b}
    Flexible = {f1}
    Home <- HomeOne
    MaxPermits = 1
    MaxQueued = 2
    Submissions <- SubmitFew
    Closers = {a, b}
    Deadlines = FALSE
    Panics = FALSE
    Refusals = FALSE
CHECK_DEADLOCK FALSE
PROPERTIES
    SearchesTaken
    ThreadsEnd
