--------------------------- MODULE MCSubscription ---------------------------
EXTENDS SubscriptionControlBlock

CONSTANTS c1, c2, w1, w2
=============================================================================
