SPECIFICATION Spec
CONSTANTS
    t1 = t1
    t2 = t2
    t3 = t3
    TradeIds = {t1, t2, t3}
    NoTrade = NoTrade
    StartMode = "full_auto"
    Cap = 1
    ConnectMayFail = FALSE
    Requests = {1}
    MaxBrokers = 2
    MaxCrashes = 0
SYMMETRY TradeSymmetry
INVARIANTS
    KillSwitchReachesTrading
