-------------------------- MODULE MCAccessControl --------------------------
EXTENDS AccessControlProperties, TLC

Symmetry == Permutations(Requests) \cup Permutations(Permissions) \cup Permutations(Attributes)
=============================================================================
