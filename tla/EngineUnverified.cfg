SPECIFICATION Spec
CONSTANTS
    Threads = {t1}
    Learners = {ada}
    Topics = {k1}
    VerificationRetries = 1
    MaxSurplus = 1
    MaxRows = 2
    MaxEvidence = 0
INVARIANTS
    NeverUnverified
CHECK_DEADLOCK FALSE
