CONSTANTS
    None = None
    Anchor = {a1, a2}
    MaxSid = 3
    MaxNow = 0
    Proc = {p1, p2}
    Commands <- MCProgress
    Budget = 3
    IdleLimit = 1
    Faults = {"tornSeq"}
SPECIFICATION FairSpec
INVARIANTS
    NoStaleMarkerAtRest
PROPERTIES
    EveryCommandReturns
CHECK_DEADLOCK FALSE
