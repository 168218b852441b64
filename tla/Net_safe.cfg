\* A station that has given up, or is up and has sent, leaves NET polling for ever:
\* a poll whose condition is false is a stuttering step.
SPECIFICATION FairSpec
CONSTANT WIFI_MAX_RETRY = 5
INVARIANTS TypeOK RetriesBounded ReadyFollowsLink AtMostOnePerConnection
PROPERTY ComesBack
CHECK_DEADLOCK FALSE
