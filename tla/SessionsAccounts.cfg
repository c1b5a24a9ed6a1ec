SPECIFICATION FairSpec
CONSTANTS
    Users = {u1}
    Tokens = {t1, t2}
    Requests = {r1, r2}
    Passwords = {pw1, pw2}
    None = None
    Grace = 0
    Lifetime = 1
    MaxTime = 0
    MaxAccountRequests = 2
INVARIANTS
    SessionsInv
    ActiveIffNotDeleted
    VersionCountsChanges
PROPERTIES
    ImplementsAccounts
    EveryRequestAnswered
