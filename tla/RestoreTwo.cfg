CONSTANTS
    d1 = d1  d2 = d2
    a1 = a1  a2 = a2  a3 = a3
    None = None
    DevEUIs = {d1, d2}
    DevAddrs = {a1}
    NSDevices = {d1, d2}
    ASDevices = {d1, d2}
    GoodProfiles = {d1, d2}
    Is11 = {d2}
    Addr <- TwoAddr
    MaxGen = 1
    MaxFCnt = 0
    LogKept = TRUE
    LogComplete = TRUE
    DevLists <- TwoLists
    MaxRuns = 2
    JoinsDuringRun = TRUE
    LossDuringRun = FALSE
SPECIFICATION FairSpec
PROPERTIES
    RestorableIsRestored
    NoneIsPassedOver
    RunsAdvance
\* Joins, frames and runs are bounded: when all are used up nothing happens.
CHECK_DEADLOCK FALSE
