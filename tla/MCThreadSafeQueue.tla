------------------------- MODULE MCThreadSafeQueue -------------------------
EXTENDS ThreadSafeQueue, TLC

CONSTANTS t1, t2, t3

\* Four values of three producers; every thread may also consume and close.
PushBounds == t1 :> 2 @@ t2 :> 1 @@ t3 :> 1
=============================================================================
