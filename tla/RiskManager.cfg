SPECIFICATION Spec
CONSTANTS
    StartingBalance = 100
    AccountBalance = 100
    RiskPerTradePct = 1
    MaxConsecutiveLosses = 2
    MaxTotalDdPct = 5
    ConsistencyPct = 15
    MaxSpreadFx = 1
    MaxSpreadMetals = 35
    QuotePerPipPerLot = 10
    NoDay = NoDay
    Signals <- MCSignals
    Limits <- MCLimits
    Pnls <- MCPnls
    Slots = 2
    MaxDay = 2
    MaxOpens = 3
INVARIANTS
    FiguresMatchHistory
    CapOvershootBound
PROPERTIES
    HaltLasts
    NoTradeWhileFirstAhead
    SizeWithinBudget
