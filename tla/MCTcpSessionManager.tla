------------------------ MODULE MCTcpSessionManager ------------------------
EXTENDS TcpSessionManager, TLC

CONSTANT c1
=============================================================================
