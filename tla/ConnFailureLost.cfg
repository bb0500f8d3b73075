CONSTANTS
    MSGBUF_CNT = 4
    RqDepths = {4}
    Faults = {"map"}
SPECIFICATION Spec
\* The channel's life ends.
CHECK_DEADLOCK FALSE
INVARIANTS FailureReported
