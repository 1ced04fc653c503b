SPECIFICATION Spec
CONSTANTS
    N = 4
    MaxI128 = 2
    OverflowPanics = FALSE
    Depth = 2
    KeyBits = 3
    IndexBits = 3
    WordModulus = 8
    FieldModulus = 5
    Normal <- IdNormal
    Words <- AliasWords
    KeyHash <- AliasClashKeys
    Reserves <- WrapReserves
    DeltaLists <- WrapDeltas
    InsertBalances <- InsertBalances01
    MaxBalance = 2
    MaxHeld = 1
INVARIANTS
    TotalIsSumModWidth
    NonMembershipSound
    SlotOwnerUnique
    AbsenceProvable
