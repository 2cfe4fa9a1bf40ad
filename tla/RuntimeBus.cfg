SPECIFICATION FairSpec
CONSTANTS
    NoThread = NoThread
    NoType = NoType
    c1 = c1
    w1 = w1
    w2 = w2
    p1 = p1
    s1 = s1
    s2 = s2
    ta = ta
    tb = tb
    Clients = {c1}
    Workers = {w1, w2}
    Topics = {p1}
    Types = {ta, tb}
    Subs = {s1, s2}
    TopicOf <- OneTopic
    TypeOf <- SameType
    queue_depth = 1
    overflow_policies = {"DropOldest"}
    MaxMessages = 2
INVARIANTS
    TopicOrder
    TypeContract
    QuietAfterShutdown
PROPERTIES
    NoCallbackBeginsAfterCancel
    CallsReturn
CHECK_DEADLOCK FALSE
