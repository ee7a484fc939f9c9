\* One webhook, two events of up to two calls, a manual pass beside the
\* scheduler's, manual retries and test calls, a restart; only three deliveries
\* are kept.
CONSTANTS
    w1 = w1
    m1 = m1
    Hooks = {w1}
    ManualPasses = {m1}
    Tick = Tick
    NoPass = NoPass
    MaxRetries = 2
    Keep = 3
    MaxEvents = 2
    MaxCrashes = 1
    MaxManual = 1
SPECIFICATION FairSpec
INVARIANTS TypeOK OneLiveCallPerChain
PROPERTIES ImplementsChains ChainsEnd
CHECK_DEADLOCK FALSE
