SPECIFICATION Spec
CONSTANTS
    t1 = t1
    t2 = t2
    t3 = t3
    TradeIds = {t1, t2, t3}
    NoTrade = NoTrade
    StartMode = "paper"
    Cap = 1
    ConnectMayFail = TRUE
    Requests = {1, 2}
    MaxBrokers = 3
    MaxCrashes = 0
SYMMETRY TradeSymmetry
PROPERTIES
    NoLiveOrderInPaper
