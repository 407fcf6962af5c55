SPECIFICATION Spec
CONSTANTS
    r1 = r1
    r2 = r2
    r3 = r3
    Requests <- MCRequests
    Transit = 1
    CallTime = 0
    Grace = 3
SYMMETRY Symmetry
INVARIANTS CookieUsable OneSession
PROPERTIES NotSignedOutByRefresh
CHECK_DEADLOCK FALSE
