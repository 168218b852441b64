SPECIFICATION Spec
CONSTANTS
    SetpointMin = 31
    SetpointMax = 31
    SetpointStep = 1
    SetpointDefault = 31
    Hysteresis = 1
    Temps = {28, 31, 34}
    StoresMode = {FALSE}
INVARIANT OffForcesOutput
