SPECIFICATION Spec
CONSTANTS
    Users = {u}
    Roles = {r1, r2}
    Permissions = {p}
    Attributes = {a1, a2}
    MaxCommits = 2
SYMMETRY Symmetry
INVARIANTS
    RulesInv
    
CHECK_DEADLOCK FALSE
