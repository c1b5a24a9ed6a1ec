SPECIFICATION Spec
CONSTANTS
    Departments = {d1, d2}
    Codes = {c1, c2}
    Ports = {p1}
    Chars = {x}
    Requests = {r1}
    None = None
    UrlLife = 1
    Lag = 1
    MaxKeys = 2
    MaxFiles = 2
    MaxNow = 2
SYMMETRY Symmetry
PROPERTIES
    ListingsShowEveryFile
CHECK_DEADLOCK FALSE
