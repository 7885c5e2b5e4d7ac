SPECIFICATION AnswersSpec
CONSTANTS
    solo = solo
    t1 = t1
    t2 = t2
    ada = ada
    ben = ben
    Threshold = 1
    Cooldown = 1
    MaxTime = 1
    Source <- OldSnapshot
    Target <- NewSnapshot
    Refs <- Referring
INVARIANTS
    GateBlocks
CHECK_DEADLOCK FALSE
