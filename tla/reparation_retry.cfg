\* A request times out, its payment lands, the next request pays again.
SPECIFICATION Spec
CONSTANTS
    Call = {c1, c2}
    Token = {t1}
    None = None
    MaxPosts = 1
    MaxTraffic = 0
INVARIANTS
    RetriesPayOnce
CHECK_DEADLOCK FALSE
