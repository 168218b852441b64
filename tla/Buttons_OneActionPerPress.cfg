SPECIFICATION Spec
CONSTANTS
    Buttons = {"UP"}
    BUTTON_EVENT_QUEUE_LEN = 8
    DebounceTicks = 3
    TickModulus = 16
    BounceTicks = 1
    LagTicks = 1
    MaxEdges = 2
INVARIANT OneActionPerPress
