SPECIFICATION ConnectionSpec
CONSTANTS
    order = order
    quote = quote
    Callers = {order, quote}
    Refresher = Refresher
    Nobody = Nobody
    MaxTries = 2
    MaxIssued = 3
    MaxExponent = 6
    MaxBuffered = 3
INVARIANTS
    LockAccounted
    HandleIsCurrent
    RunsUntilStopped
PROPERTIES
    TokenNeverOlder
    RequestEnds
    Reconnects
    StopInterrupts
\* a closed or stopped client does nothing more
CHECK_DEADLOCK FALSE
