SPECIFICATION Spec
CONSTANTS
    NoType = NoType
    s1 = s1
    s2 = s2
    p1 = p1
    p2 = p2
    ta = ta
    tb = tb
    u1 = u1
    u2 = u2
    Sessions = {s1}
    Topics = {p1, p2}
    Types = {ta}
    Publishers = {u1}
    max_dedup_entries = 1
    MaxFrames = 2
    MaxRestarts = 0
    MaxCalls = 3
INVARIANT AtMostOnceAlways
