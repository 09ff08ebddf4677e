CONSTANTS
    d1 = d1
    d2 = d2
    x1 = x1
    Detectors <- MCDetectorsTwo
    ParkStates = {0, 1}
    NewIds = {x1}
    MaxEvents = 3
SPECIFICATION Spec
INVARIANTS
    TypeOK
PROPERTIES
    EventuallyReported
