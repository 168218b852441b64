\* A station that has given up, or is up and has sent, leaves NET polling for ever:
\* a poll whose condition is false is a stuttering step.
SPECIFICATION FairSpecGoodAP
CONSTANT WIFI_MAX_RETRY = 5
PROPERTY KeptRunning
CHECK_DEADLOCK FALSE
