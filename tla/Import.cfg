SPECIFICATION Spec
CONSTANTS
    NoType = NoType
    s1 = s1
    s2 = s2
    p1 = p1
    p2 = p2
    ta = ta
    tb = tb
    u1 = u1
    u2 = u2
    Sessions = {s1, s2}
    Topics = {p1}
    Types = {ta, tb}
    Publishers = {u1, u2}
    max_dedup_entries = 2
    MaxFrames = 3
    MaxRestarts = 1
    MaxCalls = 3
SYMMETRY Symmetry
INVARIANTS
    TypeOK
    AtMostOnce
    OnlyLateFramesRefused
    RestartRecognised
    HandlerTypes
