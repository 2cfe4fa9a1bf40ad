---------------------------- MODULE MCUdpControl ----------------------------
EXTENDS UdpControl, TLC

CONSTANTS u1, u2

\* The second sensor was started for a single frame.
Counts == u1 :> 3 @@ u2 :> 1

\* The second fills more than the receiver's datagram, the third than the sender's.
Bodies == {[topic |-> 1, payload |-> n] : n \in {1, 2, 3}}
Limits == [max_topic_size |-> 2, max_payload_size |-> 3, max_frame_size |-> 6]
=============================================================================
