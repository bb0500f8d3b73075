CONSTANTS
    Threads = {t1, t2}
    Callback = callback
    Nobody = nobody
    IrqPreempts = TRUE
    BIT_ARR_SIZE = 4
SPECIFICATION Spec
CHECK_DEADLOCK FALSE
INVARIANT NoSelfDeadlock
