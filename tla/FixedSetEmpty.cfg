SPECIFICATION Spec
CONSTANTS
    N = 3
    MaxI128 = 7
    OverflowPanics = FALSE
    P = 17
    MaxDegree = 3
    Encode <- Encodings
    Alpha = 3
    Rho = 2
    Reserves <- ReserveLists
    Windows <- DeltaWindows
    Labels <- TwoLabels
    MaxStates = 4
CHECK_DEADLOCK FALSE
INVARIANT EveryWindowApplies
