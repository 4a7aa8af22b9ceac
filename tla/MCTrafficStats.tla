--------------------------- MODULE MCTrafficStats ---------------------------
EXTENDS TrafficStats, TLC
Symmetric == Permutations(Profiles)
=============================================================================
