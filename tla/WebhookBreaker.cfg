\* One webhook, one event and the five calls the code's own limit leaves it; no manual
\* calls, no restart.
CONSTANTS
    w1 = w1
    m1 = m1
    Hooks = {w1}
    ManualPasses = {m1}
    Tick = Tick
    NoPass = NoPass
    MaxRetries = 5
    Keep = 200
    MaxEvents = 1
    MaxCrashes = 0
    MaxManual = 0
SPECIFICATION Spec
PROPERTIES BreakerAfterAllRetries
CHECK_DEADLOCK FALSE
