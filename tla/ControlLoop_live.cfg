SPECIFICATION FairSpec
CONSTANTS
    SetpointMin = 31
    SetpointMax = 31
    SetpointStep = 1
    SetpointDefault = 31
    Hysteresis = 1
    Temps = {28}
    StoresMode = {TRUE, FALSE}
PROPERTIES CallsReturn OffPrevails
