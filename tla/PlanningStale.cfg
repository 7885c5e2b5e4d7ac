SPECIFICATION Spec
CONSTANTS
    a = a
    b = b
    c = c
    d = d
    e = e
    solo = solo
    t1 = t1
    t2 = t2
    tab = tab
    None = None
    Corpus <- Meeting
    Prerequisites <- MeetingPrerequisites
    QuestionBudget = 3
INVARIANTS
    NodeIsPlanned
CHECK_DEADLOCK FALSE
