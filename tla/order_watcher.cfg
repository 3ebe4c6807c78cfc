SPECIFICATION FairSpec
CONSTANTS
    Case = {c1, c2}
    Cancellable = {c1}
    Disposition = {"APPROVE", "REJECT"}
    Confirmations = 1
    FirstCursor = 1
    MaxBlock = 4
    MaxReorg = 1
    MaxCrash = 1
    MaxFailure = 1
INVARIANTS DecisionsAreFinal LastOrderWins
PROPERTIES Converges
