CONSTANTS
    MSGBUF_CNT = 4
    RqDepths = {2, 4, 8}
    Faults = {"nomem", "notify", "map", "call", "event", "removal", "signal", "peer", "completion", "unload"}
SPECIFICATION ClientFairSpec
\* The write ends.
CHECK_DEADLOCK FALSE
INVARIANTS ClientTypeOK ContextAlive FailedRunReleases NullLeaksOnlyBitmap ConnectedMeansReady
    CleanLifecycle TearDownWindow CallbackCodePinned CrashNeedsFailure
PROPERTY WriteEnds
