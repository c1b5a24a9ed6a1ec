SPECIFICATION Spec
CONSTANTS
    Tokens = {t1, t2, t3}
    NoToken = NoToken
    Tabs = {b1, b2}
SYMMETRY Symmetry
PROPERTIES
    LogoutEndsSession
