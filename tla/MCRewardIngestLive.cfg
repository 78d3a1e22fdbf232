SPECIFICATION FairSpec
CONSTANTS
    b1 = b1
    b2 = b2
    b3 = b3
    w1 = w1
    w2 = w2
    Coins = {"btc", "bch"}
    Tx = {b1, b2}
    Workers = {w1}
    Unwanted = {}
    Skipped = {}
    None = None
    PageSize = 1
    MaxPages = 2
    MaxLoadFailures = 1
    SlowRestart = TRUE
    MaxRestarts = 1
PROPERTIES
    ListedGetStored
CHECK_DEADLOCK FALSE
