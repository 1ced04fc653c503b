SPECIFICATION ProverSpec
CONSTANTS
    N = 3
    MaxI128 = 7
    OverflowPanics = TRUE
    Depth = 3
    KeyBits = 3
    IndexBits = 3
    WordModulus = 8
    FieldModulus = 5
    Normal <- IdNormal
    Words <- OwnWords
    KeyHash <- SpreadKeys
    Reserves <- SpreadReserves
    DeltaLists <- UpToTwoUnitDeltas
    InsertBalances <- InsertBalance1
    MaxBalance = 2
    MaxHeld = 1
INVARIANTS
    GuestAgreesOnInserts
