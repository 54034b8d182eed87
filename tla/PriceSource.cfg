SPECIFICATION Spec
CONSTANTS
    Listings <- MCListings
    Mids = {1, 2}
    CandleTicks = 2
    Feeds <- MCFeeds
    BarLength <- MCBarLength
    StartClock = 9
    MaxClock = 12
INVARIANT BarsOnceInOrder
PROPERTIES
    CandleCoversQuotes
    QuotesLostOnlyByException
    TokenHeals
    ImplementsFeed
CHECK_DEADLOCK FALSE
