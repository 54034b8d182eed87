SPECIFICATION Spec
CONSTANTS
    t1 = t1
    t2 = t2
    t3 = t3
    TradeIds = {t1, t2}
    NoTrade = NoTrade
    StartMode = "full_auto"
    Cap = 1
    ConnectMayFail = TRUE
    Requests = {1, 2}
    MaxBrokers = 4
    MaxCrashes = 1
SYMMETRY TradeSymmetry
INVARIANTS
    SettledWiring
    NothingLeftBehind
    OrphansHaveCause
PROPERTIES
    NoFillAfterSwitch
