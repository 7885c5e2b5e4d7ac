SPECIFICATION Spec
CONSTANTS
    Threads = {t1}
    Learners = {ada}
    Topics = {k1}
    VerificationRetries = 0
    MaxSurplus = 0
    MaxRows = 2
    MaxEvidence = 1
INVARIANTS
    AnswersFollowEvidence
CHECK_DEADLOCK FALSE
