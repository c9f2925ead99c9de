CONSTANTS
    Processes = {p1, p2}
    MaxCommands = 2
    MaxCalls = 3
    MaxWait = 1
    Faults = {"net", "write", "crash"}
SPECIFICATION Spec
SYMMETRY ProcessSymmetry
INVARIANTS
    VerdictsAreTrue
    CompletedIsSaved
PROPERTIES
    CwdNeverRewinds
    OutputIsKept
CHECK_DEADLOCK FALSE
