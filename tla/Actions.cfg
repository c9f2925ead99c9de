SPECIFICATION Spec
CONSTANTS
    Procs = {p1, p2}
    Devices = {d1, d2}
    Unmanaged = {d2}
    Tags = {a, b}
    Kinds = {"contain", "uncontain", "on", "off", "logs", "isolate"}
    Faults = {"lost", "garbled", "rate", "write", "crash"}
    None = None
    MaxRequests = 2
    MaxOps = 2
    MaxEdits = 1
SYMMETRY ProcSymmetry
INVARIANTS
    ClaimsAreTrue
    AssociationIsTrue
PROPERTIES
    NothingSeenIsOverwritten
CHECK_DEADLOCK FALSE
