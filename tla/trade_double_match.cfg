SPECIFICATION Spec
CONSTANTS
    a = a
    b = b
    m1 = m1
    m2 = m2
    jr = jr
    q1 = q1
    q2 = q2
    User = {a, b}
    Request = {q1, q2}
    Record = {m1, m2, jr}
    JrRecord = {jr}
    RecordUser <- MCRecordUser
    Grams <- MCGrams
    Cap = 2
    MaxMint = 1
    Mint = {m1}
    TotalUnits <- MCTotalUnits
    MaxUnit = 3
    MaxEarmark = 1
    MaxSwap = 1
    Price = {1, 2}
    Size = {1, 2}
    MaxOrder = 3
SYMMETRY Interchangeable
INVARIANT NoDoubleMatch
CHECK_DEADLOCK FALSE
