SPECIFICATION Spec
CONSTANTS
    Requests <- TwoKinds
    AtvTable <- Analog
    DtvTable <- Digital
    None = None
INVARIANTS DevicesFollow LockToldRight
PROPERTIES ProgressSteady
