CONSTANTS
    l1 = l1
    l2 = l2
    l3 = l3
    d1 = d1
    d2 = d2
    LightIds <- MCListedLightIds
    DetIds <- MCDetIds
    Configs <- MCConfigsSameSize
    DetStates = {0, 1}
    MaxLights = 3
    MaxDets = 2
    MaxEnvEvents = 2
    MaxTicks = 1
SPECIFICATION Spec
INVARIANTS
    TypeOK
    LightFairness
PROPERTIES
    LostControlOnlyAfterRetries
    ScanTerminates
