CONSTANTS
    Threads = {t1, t2, t3}
    Callback = callback
    Nobody = nobody
    IrqPreempts = TRUE
    BIT_ARR_SIZE = 2
SPECIFICATION FairSpec
\* With a provider that interrupts callers the code may stop: see PoolIrq.cfg.
CHECK_DEADLOCK FALSE
INVARIANTS TypeOK ScanStillValid
PROPERTIES AbstractSpec FreeCompletes AllocReturnsOrPoolFull
