\* One instance of the hook with three sockets of different ages, two
\* forgotten timers, two missed pongs, two attempts.
CONSTANTS
    h1 = h1
    Hooks = {h1}
    s1 = s1
    s2 = s2
    s3 = s3
    Sockets = {s1, s2, s3}
    NoSocket = NoSocket
    MaxAttempts = 2
    MaxMissed = 2
    PingCap = 2
    MaxTimers = 2
SPECIFICATION FairSpec
INVARIANTS TypeOK LiveSocketIsCurrent ShownIsReal
PROPERTIES DeadLinkIsShown
CHECK_DEADLOCK FALSE
