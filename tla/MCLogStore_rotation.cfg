SPECIFICATION Spec
CONSTANTS
    Files = {f1, f2, f3, f4}
    NoFile = NoFile
    MaxEvents = 3
    MaxTime = 3
    Limit = 1
    Retention = 1
    Window = 1
    Entry <- MCEntry
    Configured <- KeyConfigured
    Unix = TRUE
CHECK_DEADLOCK FALSE
SYMMETRY FileSymmetry
CONSTRAINT Focused
INVARIANTS AppendsToLive ScanExact OneName
PROPERTY ImplementsRetainedLog
