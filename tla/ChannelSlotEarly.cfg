CONSTANTS
    Calls = {c1, c2, c3}
    NoCall = nocall
    Requesters = 2
    BIT_ARR_SIZE = 4
    SQ_DEPTH = 16
    Faults = {}
    UninitRet = {0}
SPECIFICATION Spec
\* A finite number of calls: the channel is idle once they are done.
CHECK_DEADLOCK FALSE
SYMMETRY CallSymmetry
INVARIANTS SlotHeldUntilAnswered
