------------------------------ MODULE MCMedia ------------------------------
EXTENDS MediaProperties, TLC

Symmetry == Permutations(Requests) \cup Permutations(Departments) \cup Permutations(Codes)
=============================================================================
