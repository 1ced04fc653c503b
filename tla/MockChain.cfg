SPECIFICATION Spec
CONSTANTS
    N = 3
    MaxI128 = 31
    OverflowPanics = FALSE
    P = 17
    Encode <- Encodings
    Alpha = 3
    Rho = 2
    Reserves <- ReserveLists
    Windows <- DeltaWindows
    Jobs <- SomeJobs
    InitialBalances <- StartBalances
    MaxAmount = 2
    Base = 2
    MaxBlocks = 3
    MaxDegree = 3
CHECK_DEADLOCK FALSE
INVARIANTS
    MoneyConserved
    FreshLoadsWhole
    RewrittenLoads
    BenchFollowsChain
PROPERTIES
    LedgerSpec
    GenerationEnds
