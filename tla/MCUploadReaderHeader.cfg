SPECIFICATION Spec
CONSTANTS
    MaxBytes = 5
    ChunkSize = 2
    MaxFile = 12
    MaxFraming = 2
CHECK_DEADLOCK FALSE
INVARIANT OnlyOversizeRefused
