SPECIFICATION UdpSpec
CONSTANTS
    NoFrame = NoFrame
    u1 = u1
    u2 = u2
    Sensors = {u1, u2}
    count <- Counts
    expected = 3
    bodies <- Bodies
    sender_datagram = 5
    receiver_datagram = 4
    limits <- Limits
    Latencies = {1, 2}
    Numbers = {1, 7}
    MaxFaults = 1
INVARIANTS
    SequenceReport
    LatencyReport
CHECK_DEADLOCK FALSE
