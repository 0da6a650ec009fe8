SPECIFICATION Spec
CONSTANTS
    None = None
    Layouts <- TwoLayouts
    MaxRepeats = 1
INVARIANTS
    InstallationSound
    DecodedRight
PROPERTIES
    BeginsAfresh
    CatchesUp
