CONSTANTS
    Collectors = {c1, c2}
    Logs = {l1, l2}
    MaxSize = 2
    MinBytes = 1
    MaxBytes = 2
    MaxTotalBytes = 3
    Faults = {"write", "service", "interrupt", "crash"}
    NoOne = NoOne
    NoFile = NoFile
    Absent = Absent
SPECIFICATION Spec
SYMMETRY CollectorSymmetry
INVARIANTS
    RecordsAreTrue
    BudgetKept
    OwnedClosedOnce
    CompleteMeansComplete
PROPERTIES
    ImplementsRecord
CHECK_DEADLOCK FALSE
