SPECIFICATION Spec
CONSTANTS
    own = own  a1 = a1  a2 = a2  k1 = k1  k2 = k2  r1 = r1  r2 = r2  r3 = r3  c1 = c1  c2 = c2
    Account <- MCAccount
    OwnHash = own
    NoAccount = NoAccount
    Request <- MCRequest
    Call <- MCCall
    Candidate <- MCCandidate
    Order <- MCOrder
    Budget = 2
    NoCall = NoCall
SYMMETRY Symmetry
INVARIANTS LiepinTypeOK DatabasesAgree CallsUseApprovedAccount ViewsAreAccounted
CHECK_DEADLOCK FALSE
