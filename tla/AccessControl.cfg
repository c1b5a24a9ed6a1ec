SPECIFICATION Spec
CONSTANTS
    Users = {u}
    Roles = {role}
    Permissions = {p1}
    Attributes = {a1, a2}
    Requests = {r1, r2}
    Unset = Unset
    None = None
SYMMETRY Symmetry
INVARIANTS
    ControlInv
    
PROPERTIES
    ChangesOneOwner
    CommittedAsAsked
