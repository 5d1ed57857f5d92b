\* Two requests carry the same link.
SPECIFICATION Spec
CONSTANTS
    Call = {c1, c2}
    Token = {t1}
    None = None
    MaxPosts = 1
    MaxTraffic = 0
INVARIANTS
    LinkIsSingleUse
CHECK_DEADLOCK FALSE
