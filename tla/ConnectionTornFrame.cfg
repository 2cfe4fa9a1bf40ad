SPECIFICATION Spec
CONSTANTS
    NoFrame = NoFrame
    NoThread = NoThread
    s1 = s1
    worker = worker
    Senders = {s1}
    bodies <- Bodies
    limits <- Limits
    window = 3
    MaxFrames = 2
    MaxCorrupted = 0
    MaxAddresses = 1
INVARIANT FramesNotInterleaved
