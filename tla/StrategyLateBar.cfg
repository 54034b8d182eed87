SPECIFICATION MarketSpec
CONSTANTS
    SwingLookback = 1
    HtfLookback = 1
    SweepWickPct = 50
    ProminencePct = 30
    DisplacementPct = 100
    MinFvgPct = 20
    AtrPeriod = 3
    BlockWindow = 10
    CandleCap = 512
    SwingCap = 50
    ZoneCap = 1
    Shapes <- MCShapes
    Pip = 1
    MinConfluence = 60
    MinRrPct = 120
    TpMinBp = 10
    TpMaxBp = 20
    LondonHours = {1, 2, 3}
    NewYorkHours = {5, 6}
    AlwaysOpen = FALSE
    MaxTs = 6
    MaxBars = 5
    MaxTicks = 0
    MaxHtfLag = 0
INVARIANT OneSignalPerBar
CHECK_DEADLOCK FALSE
