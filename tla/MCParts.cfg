SPECIFICATION PartsSpec
CONSTANTS
    j1 = j1
    j2 = j2
    j3 = j3
    j4 = j4
    d1 = d1
    d2 = d2
    NoJob = NoJob
    JobId <- MCJobId
    JobData <- MCJobData
    MaxSize = 2
    Difficulties = {2}
    ShareValues = {0, 3}
    Errors <- MCErrors
    NoError = NoError
    Window = 2
    MinShares = 2
    CleanupEvery = 2
    MaxShares = 4
    MaxTime = 4
    Shares <- MCShares
    DayOf <- MCDayOf
    ValueOf <- MCValueOf
    Target = 4
    FirstDay = 2
    Kinds = {"shares", "custom", "ocean"}
    None = None
    MaxLog = 4
    Clients = {"one", "two"}
    Amounts = {1, 2}
    Proofs = {"url"}
    NotGiven = NotGiven
    MaxPosts = 3
INVARIANTS
    TypeOK
    PartsTyped
    ForgottenJobsAreOld
    LookupIsCurrent
    CleanupKeepsHashrate
    FiguresAgree
    WindowIsOneStretch
    LongestWithinTarget
    OnlyGivenFieldsChange
CHECK_DEADLOCK FALSE
