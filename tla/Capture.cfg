CONSTANTS
    Explorers = {e1, e2}
    Pruner = Pruner
    Tables = {T1}
    Bindings = {B1, B2}
    Budgets = {1, 2}
    TopCap = 2
    NoOne = NoOne
    MaxCalls = 2
    MaxPrunes = 1
    MaxDays = 1
    Faults = {"crash", "write", "damage"}
    MaxFaults = 1
SPECIFICATION Spec
SYMMETRY Symmetry
INVARIANTS
    ConsumedIsUsed
PROPERTIES
    PinnedSurvives
    CapturedOnce
    RetriesRunOut
CHECK_DEADLOCK FALSE
