\* Two epochs, jumps of two samples, a lock after two healthy fits.
SPECIFICATION Spec
CONSTANTS
    None = None
    Rollback = 1
    DriftUpdate = 1
    LockSpan = 1
    JumpCount = 2
    Confirm = 2
    MinSamples = 2
    MaxTime = 3
    MaxEpoch = 2
    MaxRevision = 3
INVARIANTS
    FitSound
    NeverFull
PROPERTIES
    TransformsFollow
    WorkerServes
    IsAMailbox
\* After Close nothing is left to do.
CHECK_DEADLOCK FALSE
