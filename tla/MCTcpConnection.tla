-------------------------- MODULE MCTcpConnection --------------------------
EXTENDS TcpConnection

CONSTANT s1

\* One unit of topic, with and without payload.
Bodies == {[topic |-> 1, payload |-> 0], [topic |-> 1, payload |-> 1]}

\* The client accepts smaller frames than the server sends.
Limits == [e \in Ends |-> [max_topic_size |-> 2, max_payload_size |-> 2,
                           max_frame_size |-> IF e = Server THEN 5 ELSE 3]]
=============================================================================
