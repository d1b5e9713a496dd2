CONSTANTS
    d1 = d1  d2 = d2  a1 = a1  a2 = a2
    None = None
    DevEUIs = {d1}
    DevAddrs = {a1, a2}
    NSDevices = {d1}
    ASDevices = {d1}
    GoodProfiles = {d1}
    Is11 = {}
    Addr <- TwoAddrs
    MaxGen = 2
    MaxFCnt = 1
    LogKept = TRUE
    LogComplete = TRUE
    DevLists <- Twice
    RejoinAddrs = {a2}
    MaxRuns = 2
    JoinsDuringRun = FALSE
    LossDuringRun = FALSE
SPECIFICATION Spec
PROPERTIES
    NeverOverwrites
\* Joins, frames and runs are bounded: when all are used up nothing happens.
CHECK_DEADLOCK FALSE
