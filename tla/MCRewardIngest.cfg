SPECIFICATION Spec
CONSTANTS
    b1 = b1
    b2 = b2
    b3 = b3
    w1 = w1
    w2 = w2
    Coins = {"btc", "bch"}
    Tx = {b1, b2, b3}
    Workers = {w1, w2}
    Unwanted = {b3}
    Skipped = {b3}
    None = None
    PageSize = 1
    MaxPages = 2
    MaxLoadFailures = 0
    SlowRestart = TRUE
    MaxRestarts = 1
INVARIANTS
    TypeOK
    CreditedAtMostOnce
    CreditsHaveRewards
    StoredAreCredited
SYMMETRY Symmetry
CHECK_DEADLOCK FALSE
