SPECIFICATION Spec
CONSTANTS
    b1 = b1
    b2 = b2
    b3 = b3
    w1 = w1
    w2 = w2
    Coins = {"btc"}
    Tx = {b1}
    Workers = {w1, w2}
    Unwanted = {}
    Skipped = {}
    None = None
    PageSize = 1
    MaxPages = 2
    MaxLoadFailures = 1
    SlowRestart = TRUE
    MaxRestarts = 0
INVARIANTS
    CreditedOnce
SYMMETRY Symmetry
CHECK_DEADLOCK FALSE
