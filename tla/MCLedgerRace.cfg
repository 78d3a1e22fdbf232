SPECIFICATION Spec
CONSTANTS
    w1 = w1
    w2 = w2
    t1 = t1
    r1 = r1
    r2 = r2
    Workers = {w1, w2}
    Amounts = {2}
    Revisions = {0, 1}
    Rewards = {t1}
    Requests = {r1, r2}
    Unread = Unread
    Settled = TRUE
    Failures = FALSE
    RepeatWorkers = FALSE
    Edits = FALSE
    MaxRequests = 2
    MaxClock = 1
INVARIANTS
    BooksBalance
SYMMETRY Symmetry
CHECK_DEADLOCK FALSE
