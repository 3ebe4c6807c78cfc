SPECIFICATION Spec
CONSTANTS
    d1 = d1
    d2 = d2
    s1 = s1
    s2 = s2
    irg_cf = irg_cf
    NoFund = NoFund
    Detail <- MCDetail
    Routing <- MCRouting
    Required <- MCRequired
    Limit <- MCLimit
    Thresholds <- MCThresholds
    BudgetAtStart = TRUE
    Key = {d1, d2, s1, s2}
    Deposit = {d1, d2}
    Settlement = {s1, s2}
    Referenced = {s1}
    Actor = {a1}
    Oracle = {}
    Fund = {irg_cf, jeweler_cf}
    JewelerCF = jeweler_cf
    Request = {r1, r2}
    MaxRevision = 0
    MaxDeath = 1
SYMMETRY Interchangeable
INVARIANTS OnePostEach MirrorNotInflated
CHECK_DEADLOCK FALSE
