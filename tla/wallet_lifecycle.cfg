SPECIFICATION Spec
CONSTANTS
    Device = {d1, d2}
    Case = {c1}
    Transfer = {t1}
    Admin = {admin}
    Request = {r1, r2}
    NomineeLists = {0, 2}
    MaxFailedAttempts = 1
    AttemptBound = 1
    NomineeBound = 2
CONSTRAINT TwoOrATransfer
SYMMETRY Interchangeable
INVARIANTS TypeOK SigningNeedsPassword LockAccounting ExecutionRecorded SelfRecoveryBinds
PROPERTIES  RecoveredTakesNothingNew 
