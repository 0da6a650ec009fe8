\* Two threads alive at a time: one of an earlier command or session against one
\* of a later; no property relates more than two.
SPECIFICATION LiveSpec
CONSTANTS
    MaxSessions = 2
    MaxWorkers = 2
    Tests = {t1}
    NoTest = NoTest
    None = None
INVARIANTS
    RegistrySound
    ConnectionKept
    OneSurvivor
PROPERTIES
    StoppedWorkersEnd
