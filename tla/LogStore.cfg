CONSTANTS
    SECTOR_NUM = 3
    SECTOR_UNITS = 3
    RecordSizes = {1, 2}
    FirstChunkUnits = 1
    ChunkUnits = 2
    MaxUnits = 14
    MaxResets = 3
    ResetPoints <- MCResetPointsNoErase
SPECIFICATION Spec
INVARIANTS
    TypeOK
    FlashHoldsLogSuffix
