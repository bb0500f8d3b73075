CONSTANTS
    KEYS = 3
    BUFSIZE = 1
    Numbers <- MCNumbers
    MaxPings = 3
    Faults = {"nomem", "call", "event", "removal", "signal", "peer", "post", "bogus", "poll"}
SPECIFICATION FairSpec
\* The write ends.
CHECK_DEADLOCK FALSE
INVARIANTS TypeOK AdvertisedKeyValid PongMatchesPing ReceivePosted LeavesOnlyMappings StaleUses
PROPERTY KrpingEnds
