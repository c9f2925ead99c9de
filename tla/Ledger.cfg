SPECIFICATION Spec
CONSTANTS
    Proc = {p1, p2}
    NoOne = NoOne
    NoLedger = NoLedger
    Routes = 2
    Parameters = {"7d", "1d"}
    Commands <- MCCommands
    Faults = {"crash", "write", "timeout"}
    MaxReference = 2
    MaxRun = 1
    MaxDay = 1
    MaxCommands = 3
    MaxFaults = 1
SYMMETRY ProcSymmetry
INVARIANTS
    EvidenceUnlessStale
    ReadingSurvivesReplacement
PROPERTIES
    PruneSparesEvidence
CHECK_DEADLOCK FALSE
