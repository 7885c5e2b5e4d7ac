SPECIFICATION FairSpec
CONSTANTS
    StarvationWindow = 2
    Threads = {t1, t2}
    Fingerprints = {"probe"}
    Request <- MCRequestProbe
    Students <- MCStudents
    Sessions <- MCSessions
    Targets <- MCTargets
    MaxRetry = 1
    Backoff = 1
    MinDelay = 1
    StaleAfter = 2
    ProcTimeout = 1
    InlineLimit = 1
    InlineMayBeOff = TRUE
    DrainLimit = 2
    MaxTasks = 1
    MaxTime = 3
    MaxCrashes = 1
INVARIANTS
    TypeOK
    DeferredIffScheduled
    ClaimsAreCounted
    CompletedWasWarmed
    AttemptsBounded
PROPERTIES
    EverySettles
