SPECIFICATION Spec
CONSTANTS
    Tokens = {t1, t2, t3, t4}
    NoToken = NoToken
    Tabs = {b1, b2}
SYMMETRY Symmetry
INVARIANTS
    BrowserInv
PROPERTIES
    JarFollowsRotation
    SessionsAreNotLostQuietly
