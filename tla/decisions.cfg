SPECIFICATION Spec
CONSTANTS
    q1 = q1
    q2 = q2
    c1 = c1
    c2 = c2
    b0 = b0
    b1 = b1
    b2 = b2
    User = {u1, u2}
    Request = {q1, q2}
    Power = {1, 2}
    Quorum = 2
    Change = {c1, c2}
    Member = {u1, u2}
    RequiredVotes = 2
    Budget = {b0, b1, b2}
    NewBudget <- MCNewBudget
    NoBudget = NoBudget
    Target = {g1, g2, x}
    Unit = {g1, g2}
    Node = {u1, u2}
    Votes = 2
    k1 = k1
    k2 = k2
    bank = bank
    trustee = trustee
    irg_cf = irg_cf
    NoFund = NoFund
    Detail <- MCDetail
    Routing <- MCRouting
    Required <- MCRequired
    Limit <- MCLimit
    Thresholds <- MCThresholds
    BudgetAtStart = TRUE
    Key = {k1, k2}
    Actor = {u1, u2, a3}
    Oracle = {trustee, bank}
    Fund = {irg_cf}
    MaxRevision = 1
CONSTRAINTS VotedOrTwo SmallRecall
SYMMETRY Interchangeable
INVARIANTS TallyIsRecorded ImplementedWasApproved OneActiveBudget BurnsAreApproved CompletedIsDone ExecutionsAreCleared BudgetCounts
PROPERTIES PaysAsCleared
CHECK_DEADLOCK FALSE
