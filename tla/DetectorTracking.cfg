CONSTANTS
    Detectors = {d1}
    ParkStates = {0, 1}
    Batteries = {80, 100}
    Bursts <- MCStatsBursts
    BootCnts <- MCStatsBootCnts
    MaxNodeEvents = 5
    AdrPackets <- MCAdrPackets
    MaxAdrSamples = 11
SPECIFICATION Spec
INVARIANTS
    TypeOK
    
    OfflineExactlyWhenSilent
PROPERTIES
    AdrWindowIsRecent
    SendNumNeverDecreases
