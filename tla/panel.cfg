SPECIFICATION Spec
CONSTANTS
    Schemas <- AllSchemas
    SectionNames <- AllSections
    DerivedNames = {"x", "y"}
    StaticNames = {"F_X"}
    MaxRefs = 2
    MaxDrags = 1
    InstallsWhileDragging = FALSE
    None = None
INVARIANTS
    
    HealthSound
