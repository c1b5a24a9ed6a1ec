----------------------------- MODULE MCSessions -----------------------------
EXTENDS SessionsProperties, TLC

Symmetry == Permutations(Tokens) \cup Permutations(Requests)
=============================================================================
