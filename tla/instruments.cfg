SPECIFICATION Spec
CONSTANTS
    o1 = o1
    o2 = o2
    Request = {q1, q2}
    Issuance = {i1}
    Jewel <- MCJewel
    MaxRights = 2
    MaxBuyback = 1
    Order = {o1, o2}
    Royalty <- MCRoyalty
    MaxPaid = 2
    Certificate = {k1}
    MaxRedemption = 2
    MaxSettled = 4
    Dispute = {d1, d2}
    Ombudsman = {e1, e2}
    MaxSent = 2
    User = {u1}
    Wallet = {w1}
    PromptAfter = 2
    ReminderAfter = 1
    NomineesAfter = 1
    TouchInterval = 1
    MaxTime = 5
    Run = {r1, r2}
    MaxDay = 2
    MaxBlock = 1
    MaxLog = 2
    ScanBlocks = 1
SYMMETRY Interchangeable
INVARIANTS InstrumentsTypeOK IssuesOnce RoyaltyLedger RedeemedIsSettled AlertsOnlyTheSilent OneVerdictPerDay
CHECK_DEADLOCK FALSE
