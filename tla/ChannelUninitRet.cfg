CONSTANTS
    Calls = {c1, c2}
    NoCall = nocall
    Requesters = 1
    BIT_ARR_SIZE = 4
    SQ_DEPTH = 16
    Faults = {}
    UninitRet = {0, 1}
SPECIFICATION Spec
\* A finite number of calls: the channel is idle once they are done.
CHECK_DEADLOCK FALSE
SYMMETRY CallSymmetry
INVARIANTS CompletionNotStranded
