CONSTANTS
    MSGBUF_CNT = 4
    RqDepths = {2, 4}
    Faults = {}
SPECIFICATION Spec
\* The channel's life ends.
CHECK_DEADLOCK FALSE
INVARIANTS ReturnsNullOnFailure
