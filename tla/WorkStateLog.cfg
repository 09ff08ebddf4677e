CONSTANTS
    N = 2
    Frames <- MCFrames
    MaxDataEvents = 4
SPECIFICATION Spec
INVARIANT
    TypeOK
