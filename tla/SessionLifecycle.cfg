CONSTANTS
    None = None
    Anchor = {a1, a2}
    MaxSid = 2
    MaxNow = 1
    Proc = {p1, p2}
    Commands <- MCLifecycle
    Budget = 3
    IdleLimit = 1
    Faults = {"fail", "crash", "torn"}
SPECIFICATION Spec
SYMMETRY RunSymmetry
INVARIANTS
    SummaryIsFinal
    SeqsIncrease
PROPERTIES
    JournalPromise
    MarkerGoesOnlyAfterEnd
CHECK_DEADLOCK FALSE
