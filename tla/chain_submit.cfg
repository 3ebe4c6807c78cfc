SPECIFICATION FairSpec
CONSTANTS
    Tx = {t}
    MaxAttempts = 3
    MaxRestart = 1
INVARIANTS SubmittedIsReal
PROPERTIES TraceStays SubmissionEnds SubmitsOnce
CHECK_DEADLOCK FALSE
