SPECIFICATION Spec
CONSTANTS
    w1 = w1
    w2 = w2
    t1 = t1
    r1 = r1
    r2 = r2
    Workers = {w1, w2}
    Amounts = {2}
    Revisions = {0, 1}
    Rewards = {t1}
    Requests = {r1}
    Unread = Unread
    Settled = TRUE
    Failures = TRUE
    RepeatWorkers = FALSE
    Edits = TRUE
    MaxRequests = 3
    MaxClock = 1
INVARIANTS
    TypeOK
    BooksBalance
    NoUnapprovedOverdraft
PROPERTIES
    LedgerRefined
CHECK_DEADLOCK FALSE
