CONSTANTS
    Calls = {c1, c2, c3}
    NoCall = nocall
    Requesters = 3
    BIT_ARR_SIZE = 2
    SQ_DEPTH = 2
    Faults = {"peer", "recv", "repost", "poll"}
    UninitRet = {0}
SPECIFICATION Spec
\* A finite number of calls: the channel is idle once they are done.
CHECK_DEADLOCK FALSE
SYMMETRY CallSymmetry
INVARIANTS TypeOK WindowBound PoolFullMeansCallUnderWay ReceiverReady CompletionNotStranded CqBounded
