SPECIFICATION FairSpec
CONSTANTS
    Proc = {p1, p2}
    NoOne = NoOne
    NoFile = NoFile
    Faults = {"crash", "write"}
    MaxTokens = 2
    MaxFaults = 1
    Commands <- MCCommands
    MaxGenerations = 3
    MaxCommands = 3
INVARIANTS
    LogoutHolds
    NoOrphanWriter
PROPERTIES
    NothingLost
    MarkedIsFresh
    MaintenanceEnds
CHECK_DEADLOCK FALSE
