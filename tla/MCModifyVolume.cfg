CONSTANTS
    Callers = {c1, c2}
    Keys = {k1}
    Inputs <- MCInputs
    Delay = 1
    Limits <- MCLimits
SPECIFICATION HistorySpec
SYMMETRY Symmetry
PROPERTIES
    ImplementsCoalescer
    InfeasibleMeansUntouched
    FinishedUnlessMet
