SPECIFICATION PathSpec
CONSTANTS
    Interp <- MCInterp
    Table <- MCTable
    Graphs <- MCGraphs
    Knowledge <- MCKnowledge
    Options <- MCOptions
INVARIANTS
    RoutesAreBest
    ReportIsTrue
CHECK_DEADLOCK FALSE
