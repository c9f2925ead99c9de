CONSTANTS
    Procs = {p1, p2}
    Hunts = {h1}
    Probes = {s1}
    Observed = {o1}
    Proposed = {h1}
    Retain = 2
    NoOne = NoOne
    Faults = {"upgrade"}
    MaxDay = 1
    MaxGen = 4
    MaxOps = 4
SPECIFICATION Spec
SYMMETRY ProcSymmetry
CHECK_DEADLOCK FALSE
PROPERTIES
    RetiredIsNotMined
