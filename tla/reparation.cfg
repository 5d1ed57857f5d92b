\* Redemptions: two requests, one link at a time, two campaign posts, one other
\* sponsor transaction.  Signing in: two links, two tabs, two ticks.  Campaigns:
\* two runs of the script, one payment of the gateway.  Alerts: two claims.
SPECIFICATION ClaimSpec
CONSTANTS
    Call = {c1, c2}
    Token = {t1}
    None = None
    MaxPosts = 2
    MaxTraffic = 1
    Raw = {"Ann", "x"}
    Normal <- Normalised
    Tab = {1, 2}
    TokenLife = 1
    SessionLife = 0
    MaxLogins = 2
    MaxClock = 2
    Files <- SomeFiles
    Modes <- SomeModes
    MaxRuns = 2
    MaxForeign = 1
    Claim = {"a1", "a2"}
INVARIANTS
    RecordsMatchPayments
    LinksAreTrue
    CampaignIsSound
    QuietAfterAlert
PROPERTIES
    ProgressStays
    RequestsEnd
CHECK_DEADLOCK FALSE
