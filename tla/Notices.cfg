\* Two agents that may take over a session from each other, the daemon without a
\* credential and two callers with one, batches of two of three notices, two
\* connections; three requests
\* (heartbeats and synchronisations among them) beside heartbeat checks, batches,
\* failures and restarts.
CONSTANTS
    a1 = a1
    a2 = a2
    Agents = {a1, a2}
    System = System
    k1 = k1
    Keys = {k1}
    None = None
    Daemon = Daemon
    Operator = Operator
    Poller = Poller
    Callers = {Daemon, Operator, Poller}
    Limit = 2
    MaxNotices = 3
    MaxConns = 2
    MaxRequests = 3
SPECIFICATION FairSpec
INVARIANTS TypeOK DeliveredReachedItsAgent HeardAgainIsDoubtful ConnectedIsUp
PROPERTIES PendingIsDelivered
CHECK_DEADLOCK FALSE
