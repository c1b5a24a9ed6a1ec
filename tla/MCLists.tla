------------------------------ MODULE MCLists ------------------------------
EXTENDS ListsProperties, TLC

Symmetry == Permutations(Requests) \cup Permutations(Keys) \cup Permutations(Ids)
=============================================================================
