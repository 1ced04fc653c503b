SPECIFICATION ProverSpec
CONSTANTS
    N = 3
    MaxI128 = 3
    OverflowPanics = FALSE
    Depth = 3
    KeyBits = 4
    IndexBits = 3
    WordModulus = 8
    FieldModulus = 5
    Normal <- IdNormal
    Words <- OwnWords
    KeyHash <- DeepClashKeys
    Reserves <- SignedReserves
    DeltaLists <- WideDeltas
    InsertBalances <- InsertBalances01
    MaxBalance = 2
    MaxHeld = 1
INVARIANTS
    GuestAgreesOnUpdates
    MultiproofRoundTrips
    GuestConfirmsMirroredInserts
PROPERTIES
    LedgerSpec
