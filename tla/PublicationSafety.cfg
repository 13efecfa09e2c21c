SPECIFICATION Spec
CONSTANTS
    MaxBatch = 2
    MaxCalls = 2
    MaxSegments = 2
    None = none
CHECK_DEADLOCK FALSE
INVARIANTS
    CheckpointCovers
    KnownPayloadExact
    PayloadSearchable
PROPERTY
    CheckpointKept
