SPECIFICATION FairSpec
CONSTANTS
    NoThread = NoThread
    c1 = c1
    c2 = c2
    io = io
    e1 = e1
    e2 = e2
    Callers = {c1, c2}
    Exports = {e1, e2}
    Uses <- ClientUses
    outbound_depth = 2
    batch = 1
    initial_backoff = 1
    maximum_backoff = 2
INVARIANTS
    StopQuiesces
    ConnectionAccounting
    SendOnceInOrder
PROPERTIES
    StopReturns
    Reconnects
