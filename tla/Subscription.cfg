SPECIFICATION FairSpec
CONSTANTS
    NoThread = NoThread
    c1 = c1
    c2 = c2
    w1 = w1
    w2 = w2
    Clients = {c1, c2}
    Workers = {w1, w2}
    queue_depth = 2
    overflow_policies = {"DropOldest", "RejectNewest"}
    receive_remote = FALSE
    MaxMessages = 3
INVARIANTS
    SerialCallbacks
    Conservation
    QuietAfterCancelAndWait
PROPERTIES
    ImplementsMailbox
    CancelAndWaitReturns
