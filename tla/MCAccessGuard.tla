--------------------------- MODULE MCAccessGuard ---------------------------
EXTENDS AccessGuardProperties, TLC

Symmetry == Permutations(Requests)
=============================================================================
