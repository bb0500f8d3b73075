CONSTANTS
    MSGBUF_CNT = 4
    RqDepths = {4}
    Faults = {}
SPECIFICATION ClientSpec
\* The write ends.
CHECK_DEADLOCK FALSE
INVARIANT CallbackUsesLive
