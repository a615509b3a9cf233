\* Two turns, three calls of which two look alike.
CONSTANTS
    a1 = a1
    a2 = a2
    b = b
    n1 = n1
    n2 = n2
    Calls = {a1, a2, b}
    NormKeys = {n1, n2}
    Norm <- MCNorm
    NeedsConfirm = {a1, a2, b}
    MaxYes = 2
    MaxTurns = 2
SPECIFICATION UseSpec
INVARIANTS
    ApprovalTraceable
    NeverMoreThanSaid
    OnceAtMostTwice
CHECK_DEADLOCK FALSE
