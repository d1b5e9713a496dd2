CONSTANTS
    d1 = d1  d2 = d2
    a1 = a1  a2 = a2  a3 = a3
    None = None
    DevEUIs = {d1}
    DevAddrs = {a1, a2}
    NSDevices = {d1}
    ASDevices = {d1}
    GoodProfiles = {d1}
    Is11 = {}
    Addr <- OneAddr
    MaxGen = 2
    MaxFCnt = 2
    LogKept = TRUE
    LogComplete = TRUE
    DevLists <- OneLists
    MaxRuns = 2
    JoinsDuringRun = FALSE
    LossDuringRun = TRUE
SPECIFICATION Spec
INVARIANTS
    UplinkCounterFresh
    DownlinkCounterFresh
    LockoutOnlyFromOldFrame
PROPERTIES
    RestoresOnlyNewest
\* Joins, frames and runs are bounded: when all are used up nothing happens.
CHECK_DEADLOCK FALSE
