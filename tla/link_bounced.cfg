\* One login and its link, one load of the page; one redemption at rest.
SPECIFICATION ClaimSpec
CONSTANTS
    Call = {c1}
    Token = {t1}
    None = None
    MaxPosts = 1
    MaxTraffic = 0
    Raw = {"Ann"}
    Normal <- Normalised
    Tab = {1}
    TokenLife = 1
    SessionLife = 0
    MaxLogins = 1
    MaxClock = 2
    Files <- SomeFiles
    Modes <- SomeModes
    MaxRuns = 1
    MaxForeign = 0
    Claim = {"a1"}
INVARIANTS
    OnlyUndeliveredSwallowed
CHECK_DEADLOCK FALSE
