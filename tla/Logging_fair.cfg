SPECIFICATION FairSpec
CONSTANTS
    Tasks = {"CONTROL", "NET"}
    LOG_QUEUE_LENGTH = 2
    MaxPosts = 3
INVARIANTS TypeOK Fifo
PROPERTIES KeepsLossyLog PostersFinish Printed
\* The posts are bounded, and a program that aborted does nothing more.
CHECK_DEADLOCK FALSE
