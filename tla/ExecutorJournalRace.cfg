SPECIFICATION EitherSpec
CONSTANTS
    StartingBalance = 100
    AccountBalance = 100
    RiskPerTradePct = 1
    MaxConsecutiveLosses = 2
    MaxTotalDdPct = 5
    ConsistencyPct = 15
    MaxSpreadFx = 1
    MaxSpreadMetals = 35
    QuotePerPipPerLot = 10
    NoDay = NoDay
    ws = ws
    poller = poller
    t1 = t1
    t2 = t2
    Feeds = {ws, poller}
    Ws = ws
    Trader = Trader
    TradeIds = {t1, t2}
    PendingIds = {}
    Modes = {"full_auto"}
    Upsert = TRUE
    DbMayFail = FALSE
    FillUpdates = FALSE
    Signals <- MCSignals
    Limits <- MCLimits
    Pnls <- MCPnls
    MaxAttempts = 3
    MaxDay = 1
    NoTrade = NoTrade
INVARIANT
    ResaveUpdatesRow
