CONSTANTS
    Procs = {p1, p2}
    Hunts = {h1}
    Probes = {s1}
    Observed = {o1}
    Proposed = {h1}
    Retain = 2
    NoOne = NoOne
    Faults = {"stop", "damage", "upgrade"}
    MaxDay = 2
    MaxGen = 5
    MaxOps = 3
SPECIFICATION Spec
SYMMETRY ProcSymmetry
CHECK_DEADLOCK FALSE
INVARIANTS
    CommittedIsReadable
    ObservationsHaveEvidence
PROPERTIES
    NothingUnseenIsDropped
    RetiredStaysOut
