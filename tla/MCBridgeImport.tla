--------------------------- MODULE MCBridgeImport ---------------------------
EXTENDS BridgeImport, TLC

CONSTANTS s1, s2, p1, p2, ta, tb, u1, u2

Symmetry == Permutations(Sessions) \cup Permutations(Topics)
              \cup Permutations(Publishers)
=============================================================================
