SPECIFICATION Spec
CONSTANTS
    None = None
    Vars = {"p", "f", "m"}
    NfVars = {"p"}
    FtVars = {"f"}
    MocapVars = {"m"}
    Ports = {"port1"}
    NfClock = "nf"
    Ft = "ft"
    Mocap = "mocap"
    Sources = {"port1", "nf", "ft", "mocap", "csv_p", "csv_f", "csv_m", "csv"}
    CsvSource <- OneCsvSource
    CsvClock = "csv"
    Schemas <- OneSchema
    LosesBodies = TRUE
    Jump = 0
    Times = {0, 1}
    Packets <- BodyPackets
    Measured = {1}
    MaxSession = 2
    MaxSamples = 2
    MaxHandled = 1
    MaxResults = 1
    MaxEvidence = 1
INVARIANT SamplesKeepTime
CHECK_DEADLOCK FALSE
