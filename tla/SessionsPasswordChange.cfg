SPECIFICATION Spec
CONSTANTS
    Users = {u1}
    Tokens = {t1, t2}
    Requests = {r1, r2}
    Passwords = {pw1, pw2}
    None = None
    Grace = 1
    Lifetime = 2
    MaxTime = 0
    MaxAccountRequests = 1
SYMMETRY Symmetry
PROPERTIES
    PasswordChangeEndsSessions
