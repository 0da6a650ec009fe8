SPECIFICATION LiveSpec
CONSTANTS
    MaxTime = 2
    Speeds = {1, 2}
    EdgeTolerance = 1
    MaxElapsed = 2
    NoTime = NoTime
    Devices = {d1, d2}
INVARIANTS
    TransportSound
    SourceSound
PROPERTIES
    HistoryKept
    ReplayEnds
