----------------------------- MODULE MCRuntime -----------------------------
EXTENDS Runtime

CONSTANTS c1, w1, w2, s1, s2, p1, ta, tb

\* Two subscriptions of the same type to one topic.
OneTopic == [s \in {s1, s2} |-> p1]
SameType == [s \in {s1, s2} |-> ta]
=============================================================================
