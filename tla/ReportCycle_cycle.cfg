SPECIFICATION CycleSpec
CONSTANTS
    Jobs = {j1, j2}
    None = None
    FileLen = 2
    ReportLen = 1
    MaxFaults = 1
    Keys = {k}
    UserKeys = {}
    Threads = {t1, t2}
    Names = {n}
    Data = {v, w}
    Binary = {w}
    Absent = Absent
    MaxOps = 2
INVARIANTS CInv TrueReportReceived RunsItsFile LastReportReceived NoIdleRepeat OutputReported OriginalIsOriginal KeysReported
PROPERTIES ContractSpec Delivered
CHECK_DEADLOCK FALSE
