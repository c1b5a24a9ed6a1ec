------------------------------ MODULE MCRules ------------------------------
EXTENDS RulesProperties, TLC

Symmetry == Permutations(Roles) \cup Permutations(Permissions) \cup Permutations(Attributes)
=============================================================================
