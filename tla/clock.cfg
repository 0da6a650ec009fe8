\* Room for two of the three requests of a session; a request handed to the
\* network late is not expired when the third one is due.
SPECIFICATION ClockSpec
CONSTANTS
    BaselineInterval = 3
    LoadedInterval = 2
    ResponseTimeout = 2
    OutstandingLimit = 2
    MaxSession = 2
    MaxSequence = 3
    MaxResets = 1
    MaxNow = 2
INVARIANTS
    RequestsSound
    OneSamplePerRequest
    NoLateSample
CHECK_DEADLOCK FALSE
