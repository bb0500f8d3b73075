CONSTANTS
    Calls = {c1, c2, c3, c4}
    NoCall = nocall
    Requesters = 1
    BIT_ARR_SIZE = 2
    SQ_DEPTH = 16
    Faults = {}
    UninitRet = {0}
SPECIFICATION FairSpec
\* A finite number of calls: the channel is idle once they are done.
CHECK_DEADLOCK FALSE
INVARIANTS AnswerMatchesCall
PROPERTIES EveryCallAnswered ServiceSpec
