SPECIFICATION Spec
CONSTANTS
    Users = {u1}
    Tokens = {t1, t2, t3}
    Requests = {r1, r2}
    Passwords = {pw1, pw2}
    None = None
    Grace = 1
    Lifetime = 2
    MaxTime = 2
    MaxAccountRequests = 0
SYMMETRY Symmetry
INVARIANTS
    RotationChain
    RotatedOnce
    OneLivePerFamily
    MissedClaimIsExplained
PROPERTIES
    NoResurrection
    RefreshRevokesItsTokenOnly
    ImplementsTokenFamilies
