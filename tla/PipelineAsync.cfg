\* Any event may slip in while an import is pending: two parked handlers,
\* two steps, crashes and deletions.
CONSTANTS
    r1 = r1
    c1 = c1
    c2 = c2
    Runs = {r1}
    Calls = {c1, c2}
    StepCount = 2
    MaxSpawns = 3
    MaxCrashes = 1
    ImportYields = TRUE
    SpawnCanThrow = TRUE
    MutableCatalog = TRUE
SPECIFICATION Spec
INVARIANTS TrackedPidsAreLive
PROPERTIES NeverRestarted ReviewNeedsCompletedRun
CHECK_DEADLOCK FALSE
