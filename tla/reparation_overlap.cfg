\* Two requests of one user redeem at the same time.
SPECIFICATION Spec
CONSTANTS
    Call = {c1, c2}
    Token = {t1}
    None = None
    MaxPosts = 1
    MaxTraffic = 0
INVARIANTS
    ConcurrentCallsPayOnce
CHECK_DEADLOCK FALSE
