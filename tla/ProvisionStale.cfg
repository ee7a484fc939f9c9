\* A dry-run decommission overlaps the bootstrap of the tenant.
CONSTANTS
    Jobs = {1, 2}
    a1 = a1
    a2 = a2
    Actors = {a1, a2}
    None = None
    PlanLength = 2
    AllowExec = TRUE
    Tenants = {t1}
    DaemonMayDie = FALSE
    WellFormedBodies = FALSE
    MaxRuns = 2
    MaxCrashes = 0
SYMMETRY Symmetry
SPECIFICATION Spec
INVARIANT CompletedBootstrapLeavesPending
CHECK_DEADLOCK FALSE
