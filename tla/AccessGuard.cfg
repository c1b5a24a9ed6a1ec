SPECIFICATION FairSpec
CONSTANTS
    Users = {u1}
    Requests = {r1, r2}
    None = None
    TTL = 1
    Lag = 1
    AccessLife = 1
    MaxVersion = 2
INVARIANTS
    GuardInv
    AnswersAreRecent
    CurrentTokensRefusedBriefly
PROPERTIES
    CacheConverges
