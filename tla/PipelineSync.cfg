\* One run, three steps, the import resolves before the next event.
CONSTANTS
    Runs = {r1}
    Calls = {c1}
    StepCount = 3
    MaxSpawns = 3
    MaxCrashes = 1
    ImportYields = FALSE
    SpawnCanThrow = TRUE
    MutableCatalog = TRUE
SPECIFICATION FairSpec
INVARIANTS TypeOK OutcomeMatchesSteps CancelReachesProcesses
PROPERTIES ImplementsStepwiseRuns AutoRunFinishes
CHECK_DEADLOCK FALSE
