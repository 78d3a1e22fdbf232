SPECIFICATION FairSpec
CONSTANTS
    r1 = r1
    NoOne = NoOne
    Coins = {"btc", "bch"}
    Difficulties = {1, 2}
    Multipliers = {8}
    Requests = {r1}
    MaxEvents = 1
    Default <- MCDefault
INVARIANTS
    TypeOK
    FieldsAreLastAsked
PROPERTIES
    WindowCatchesUp
CHECK_DEADLOCK FALSE
