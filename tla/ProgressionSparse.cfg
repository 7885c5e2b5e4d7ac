SPECIFICATION Spec
CONSTANTS
    solo = solo
    dividing = dividing
    counting = counting
    halving = halving
    Request <- TwoRequests
    MaxRetry = 1
    MaxTasks = 2
    Threshold = 2
    Cooldown = 1
    MaxTime = 2
INVARIANTS
    SparseEvidenceIsVetoed
CHECK_DEADLOCK FALSE
