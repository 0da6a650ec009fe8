SPECIFICATION Spec
CONSTANTS
    Base = 8
    Wrap = 8
    ActivePeriod = 1
    IdlePeriod = 4
    CapsPeriod = 20
    PacketNumbers = {6, 7, 8, 9}
    Moments = {4}
    Stages <- TwoStages
INVARIANTS
    CurveArithmetic
    
    RecordingsAreKept
    
    PeriodsAreShown
    CapturesReadBack
    ReportsAreExact
    
CHECK_DEADLOCK FALSE
