SPECIFICATION Spec
CONSTANTS
    w1 = w1
    w2 = w2
    r1 = r1
    Indexes <- MCIndexes
    Readers <- MCReaders
    Requested <- MCRequested
    LimitChoices <- MCLimits
    NoIndex = noIndex
    NoLimits = noLimits
CHECK_DEADLOCK FALSE
INVARIANTS
    CountersExact
    WithinLimits
    NoneOutsideBudget
    HonestRefusal
