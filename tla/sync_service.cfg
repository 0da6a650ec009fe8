SPECIFICATION Spec
CONSTANTS
    Devices = {d1}
    MaxNonce = 2
    MaxSessions = 1
    OpenAttempts = 1
    BurstCount = 2
    NoSession = NoSession
INVARIANT
    SyncServiceRuns
