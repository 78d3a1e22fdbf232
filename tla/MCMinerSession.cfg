CONSTANTS
    j1 = j1
    j2 = j2
    None = None
    NoJob = NoJob
    Ids = {1, 2}
    FreshIds = TRUE
    JobId = {j1, j2}
    Difficulties = {2}
    MinDifficulties = {1, 3}
    MaxJobs = 1
    CheckEvery = 2
    MinRate = 30
    HasDb = TRUE
    MaxRequests = 3
SPECIFICATION FairSpec
CHECK_DEADLOCK FALSE
INVARIANTS
    TypeOK
    SubmitsAccounted
    AnsweredSubmitsAreCounted
    StoredAreTheAccepted
    AnswersReachMiner
    CreditedAsTold
PROPERTIES
    LostPeerEndsSession
    LowAcceptanceEndsSession
