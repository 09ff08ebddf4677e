CONSTANTS
    MAX_DETECTOR_PER_WNC = 2
    OfflineAfter = 1
    NoPackLimit = 1
    ResetLimit = 1
SPECIFICATION Spec
INVARIANTS
    TypeOK
PROPERTIES
    DetectorLedEventuallyOn
    NetLedEventuallyCurrent
    LinkDownLeadsToRestart
