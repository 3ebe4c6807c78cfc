SPECIFICATION Spec
CONSTANTS
    Tx = {t}
    MaxAttempts = 2
    MaxRestart = 0
INVARIANTS NoDuplicateWrites
CHECK_DEADLOCK FALSE
