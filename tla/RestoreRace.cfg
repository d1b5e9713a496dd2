CONSTANTS
    d1 = d1  d2 = d2
    a1 = a1  a2 = a2  a3 = a3
    None = None
    DevEUIs = {d1}
    DevAddrs = {a1, a2}
    NSDevices = {d1}
    ASDevices = {d1}
    GoodProfiles = {d1}
    Is11 = {}
    Addr <- OneAddr
    MaxGen = 2
    MaxFCnt = 1
    LogKept = TRUE
    LogComplete = FALSE
    DevLists <- OneLists
    MaxRuns = 2
    JoinsDuringRun = TRUE
    LossDuringRun = TRUE
SPECIFICATION Spec
INVARIANTS
    TypeOK
    KeysFromOneActivation
    SessionIsIndexed
    LeftoversOnlyAfterInterruption
    SessionIsNewest
PROPERTIES
    OverwritesOnlyRacingJoin
\* Joins, frames and runs are bounded: when all are used up nothing happens.
CHECK_DEADLOCK FALSE
