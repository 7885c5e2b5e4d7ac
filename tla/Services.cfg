SPECIFICATION Spec
CONSTANTS
    solo = solo
    t1 = t1
    t2 = t2
    ada = ada
    ben = ben
    Threshold = 1
    Cooldown = 1
    MaxTime = 1
    Source <- OldSnapshot
    Target <- NewSnapshot
    Refs <- Referring
SYMMETRY ThreadSymmetry
INVARIANTS
    MockIsLastResort
    WaitingIsServed
    CheckedBeforeServed
    AnswerIsRecorded
    PromiseKept
    CountsAddUp
    ApprovalOrExpiry
    DismissedStays
    PublishedCanBeRead
    NothingUnapproved
    MigratedIsWhole
    PredictionsAreJudged
CHECK_DEADLOCK FALSE
