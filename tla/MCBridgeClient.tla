--------------------------- MODULE MCBridgeClient ---------------------------
EXTENDS BridgeClient

CONSTANTS c1, c2, e1, e2

Use(transport, made, stopping, messages, links) ==
    [mode |-> transport, exports |-> made, stoppers |-> stopping,
     frames |-> messages, connections |-> links]

\* Two stops race with an export; one with two exports; and the frames of two
\* exports with each other, through either kind of transport.
ClientUses ==
    {Use("TcpClient", {e1}, {c1, c2}, 1, 2), Use("TcpClient", {e1, e2}, {}, 2, 2),
     Use("Manual", {e1, e2}, {c1}, 2, 0)}

\* The application's frame sender calls stop() while the application does.
SelfStopUses == {Use("Manual", {e1}, {c1, io}, 1, 0)}
=============================================================================
