CONSTANTS
    d1 = d1  d2 = d2  d3 = d3
    a1 = a1  a2 = a2
    None = None
    DevEUIs = {d1, d2, d3}
    DevAddrs = {a1, a2}
    NSDevices = {d1, d2}
    ASDevices = {}
    GoodProfiles = {}
    Is11 = {d2}
    Addr <- TwoAddrs
    MaxGen = 2
    MaxFCnt = 1
    LogKept = FALSE
    LogComplete = TRUE
    ExportLists <- Lists
    Provisioned = {d1, d2}
    ShortOf <- NextDevice
    UpCntIncrease = 1
    DownCntIncrease = 1
    Defects = {"shortDevEUI", "DevAddr", "AESKey", "shortAESKey", "column"}
    MaxExports = 1
    MaxImports = 2
SPECIFICATION Spec
CONSTRAINT OneJoins
INVARIANTS
    TypeOK
    UplinkCounterFresh
    DownlinkCounterFresh
    LockoutIsBounded
    KeysFromOneActivation
    SessionIsIndexed
    LeftoversOnlyAfterInterruption
PROPERTIES
    NoRowIsPassedOver
\* Joins, frames and runs are bounded: when all are used up nothing happens.
CHECK_DEADLOCK FALSE
