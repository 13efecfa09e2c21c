CONSTANTS
    b1 = b1
    b2 = b2
    s1 = s1
    s2 = s2
    None = None
    Batches = {b1, b2}
    Plan <- PlanTwo
    MaxFrame = 2
    DeleteSize = 1
    Searches = {s1, s2}
    IdentitySize <- Sizes
    MaxPreparing = 1
    MaxPreparingBytes = 2
    MaxCommands = 2
    MaxSearches = 1
    MaxCalls = 4
    Settings <- SettingsBoth
    Operations = {"apply", "commit", "publish", "reload", "close", "search"}
    SearchOperations = {"search"}
    Workers = {"w1"}
SPECIFICATION Spec
INVARIANTS
    TelemetryExact
    BytesAreOfTheReader
    WholeBatchesCommitted
    AwaitedIsHeld
PROPERTIES
    NoSearchAfterClose
    LogicalSpec
CHECK_DEADLOCK FALSE
