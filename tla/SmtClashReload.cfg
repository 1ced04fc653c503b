SPECIFICATION Spec
CONSTANTS
    N = 3
    MaxI128 = 7
    OverflowPanics = TRUE
    Depth = 2
    KeyBits = 3
    IndexBits = 3
    WordModulus = 8
    FieldModulus = 5
    Normal <- IdNormal
    Words <- OwnWords
    KeyHash <- ClashKeys
    Reserves <- ClashReserves
    DeltaLists <- UpToTwoUnitDeltas
    InsertBalances <- InsertBalance1
    MaxBalance = 2
    MaxHeld = 1
INVARIANTS
    StoredStateReloads
