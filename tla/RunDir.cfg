SPECIFICATION Spec
CONSTANTS
    N = 3
    MaxI128 = 7
    OverflowPanics = FALSE
    P = 17
    Encode <- Encodings
    Alpha = 3
    Rho = 2
    Reserves <- ReserveLists
    Windows <- DeltaWindows
    Depth = 2
    KeyBits = 3
    IndexBits = 3
    WordModulus = 8
    FieldModulus = 5
    Normal <- IdNormal
    Words <- OwnWords
    KeyHash <- SpreadKeys
    Jobs <- SomeJobs
    MaxCrashes = 1
CHECK_DEADLOCK FALSE
INVARIANTS
    TypeOK
    FilesVerify
    AcceptedMeansApplied
PROPERTIES
    AtomicSpec
    RetryCompletes
