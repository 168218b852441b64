SPECIFICATION BootSpec
CONSTANTS
    SetpointMin = 31
    SetpointMax = 31
    SetpointStep = 1
    SetpointDefault = 31
    Hysteresis = 1
    Temps = {28}
    StoresMode = {TRUE, FALSE}
    MayBeMissing = {"SENSORS", "CONTROL", "BUTTONS", "DISPLAY"}
INVARIANTS BootTypeOK FoundReady DisplayOfThisLife
 
\* An app_main that is over and tasks that are all missing do nothing more.
CHECK_DEADLOCK FALSE
