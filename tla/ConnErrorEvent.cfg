CONSTANTS
    MSGBUF_CNT = 4
    RqDepths = {4}
    Faults = {"event"}
SPECIFICATION FairSpec
\* The channel's life ends.
CHECK_DEADLOCK FALSE
PROPERTY InitReturns
