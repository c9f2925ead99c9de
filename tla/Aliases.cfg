CONSTANTS
    Peers = {p1, p2}
    Sessions = {s1, s2}
    Machines = {m1, m2}
    MaxAlias = 2
    LegacyBindings = {}
    Losses = {"registry", "marker", "handle"}
    LossesAtRest = FALSE
    AliasFaults = {"write", "crash", "timeout"}
    MaxOps = 2
    MaxLosses = 1
    NoFile = NoFile
    NoOne = NoOne
SPECIFICATION AliasFairSpec
INVARIANTS
    AliasNamesOneDevice
PROPERTIES
    ImplementsBook
    HandleIdentityIsStable
    OperationsEnd
CHECK_DEADLOCK FALSE
