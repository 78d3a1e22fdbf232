SPECIFICATION FairSpec
CONSTANTS
    c1 = c1
    c2 = c2
    c3 = c3
    a1 = a1
    a2 = a2
    Conns = {c1, c2, c3}
    Peers = {a1, a2}
    Pools = {"normal"}
    Versions = {1, 2}
    SharedPeers = FALSE
    MaxReloads = 2
INVARIANTS
    TypeOK
    RegistryIsSessions
    ReloadReachesAll
PROPERTIES
    NewSessionsSurvive
    OldSessionsGo
CHECK_DEADLOCK FALSE
