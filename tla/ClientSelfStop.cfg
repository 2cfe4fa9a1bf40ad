SPECIFICATION FairSpec
CONSTANTS
    NoThread = NoThread
    c1 = c1
    c2 = c2
    io = io
    e1 = e1
    e2 = e2
    Callers = {c1}
    Exports = {e1}
    Uses <- SelfStopUses
    outbound_depth = 2
    batch = 2
    initial_backoff = 2
    maximum_backoff = 5
PROPERTY StopReturns
CHECK_DEADLOCK FALSE
