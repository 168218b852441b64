SPECIFICATION Spec
CONSTANTS
    up = up
    down = down
    Buttons <- MCButtons
    BUTTON_EVENT_QUEUE_LEN = 2
    DebounceTicks = 3
    TickModulus = 5
    BounceTicks = 1
    LagTicks = 1
    MaxEdges = 2
SYMMETRY Symmetry
INVARIANTS TypeOK OneActionPerTap PressHeard
PROPERTIES DroppedByOthersOnly AcceptedApart
