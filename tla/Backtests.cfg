SPECIFICATION BacktestSpec
CONSTANTS
    StartingBalance = 10000
    AccountBalance = 10000
    RiskPerTradePct = 1
    MaxConsecutiveLosses = 2
    MaxTotalDdPct = 5
    ConsistencyPct = 15
    MaxSpreadFx = 2
    MaxSpreadMetals = 35
    QuotePerPipPerLot = 100
    NoDay = NoDay
    Symbols = {s1, s2}
    BarShapes <- MCBarShapes
    StopPips = {1}
    TargetPips = {3}
    HalfSpread = 1
    Limits <- MCLimits
    BarsPerDay = 2
    MaxRows = 4
    CandleShapes <- MCCandleShapes
    StopMargins = {1}
    CooldownBars = 2
    Grain = 1000
    MaxCandles = 5
SYMMETRY Symmetry
INVARIANTS
    ReplayBooksAgree
    DrawdownExact
    ExitsMatchHistory
    LossBounded
    RunnerExitsMatchHistory
    ReportMatchesTrades
CHECK_DEADLOCK FALSE
