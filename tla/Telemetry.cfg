\* Devices that go, hang and come back, requests that fail, a database that refuses.
SPECIFICATION Spec
CONSTANTS
    Order <- MCOrder
    Members = {"bess1", "bess2"}
    Points <- MCPoints
    Exposed <- MCExposed
    Setpoint = "setpoint"
    Addr <- MCAddr
    Words <- MCWords
    Sf <- MCSf
    MaxGap = 4
    MaxBackoff = 4
    Timeout = 1
    Window = 2
    Period = 1
    VisitTime = 2
    Disturbances = 3
    Totals <- MCTotals
    Reports <- MCReports
    None = None
INVARIANTS
    GoodIsRecent
    Mends
    SharesFit
