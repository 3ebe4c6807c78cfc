SPECIFICATION Spec
CONSTANTS
    Account = {a1, a2}
    Zero = Zero
    Checkpoint = {p1, p2}
    Gold = {3}
    OneGram = 2
    Purity = {22}
    Parameters <- MCParameters
    MaxRequest = 2
    MaxUnit = 2
    MaxEarmark = 2
    MaxTime = 2
SYMMETRY Interchangeable
INVARIANTS TypeOK SupplyIsCirculating MintsAreChecked EarmarkHolds
PROPERTIES StatusPath
CHECK_DEADLOCK FALSE
