\* The current step of an auto-advancing run cannot be spawned.
CONSTANTS
    Runs = {r1}
    Calls = {c1}
    StepCount = 2
    MaxSpawns = 2
    MaxCrashes = 0
    ImportYields = FALSE
    SpawnCanThrow = TRUE
    MutableCatalog = FALSE
SPECIFICATION Spec
INVARIANT NotStuckAfterSpawnFailure
CHECK_DEADLOCK FALSE
