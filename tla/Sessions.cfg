SPECIFICATION FairSpec
CONSTANTS
    NoThread = NoThread
    c1 = c1
    Callers = {c1}
    client_limits = {1, 2}
    MaxSessions = 2
INVARIANTS
    ClientLimit
    SessionAccounting
    WorkersJoined
    StopQuiesces
PROPERTIES
    CallsReturn
    WindsDown
