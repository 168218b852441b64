SPECIFICATION Spec
CONSTANTS
    SetpointMin = 29
    SetpointMax = 33
    SetpointStep = 2
    SetpointDefault = 31
    Hysteresis = 1
    Temps = {31}
    StoresMode = {TRUE, FALSE}
INVARIANTS TypeOK CoreDiffersOnlyTowardsOff DisplayTellsRelays BothOnlyInPassing WrongWayOnlyKept
PROPERTIES KeepsPromise OffRoundOpensRelays
