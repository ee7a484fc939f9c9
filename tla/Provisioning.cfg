\* Two jobs of one tenant that may run at the same time, two admins, two
\* executions of two steps, failing commands, timeouts, dropped connections and a
\* crash.
CONSTANTS
    Tenants = {t1}
    Jobs = {1, 2}
    a1 = a1
    a2 = a2
    Actors = {a1, a2}
    None = None
    PlanLength = 2
    AllowExec = TRUE
    DaemonMayDie = TRUE
    WellFormedBodies = TRUE
    MaxRuns = 2
    MaxCrashes = 1
SPECIFICATION FairSpec
INVARIANT TypeOK
PROPERTIES JobHistory ImplementsApprovedChanges StartedJobEnds
CHECK_DEADLOCK FALSE
