SPECIFICATION Spec
CONSTANTS
    N = 3
    MaxI128 = 7
    OverflowPanics = FALSE
    P = 5
    MaxCoeffs = 3
    MaxPoints = 3
    MaxLines = 3
    Normal <- SpelledNormal
INVARIANTS
    MultiEvaluateIsPointwise
    InterpolationOpens
    RelationIsMembership
    ReaderMerges
