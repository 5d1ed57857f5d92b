\* Two runs of the cron overlap over three events in three hours.
SPECIFICATION FairSpec
CONSTANTS
    None = None
    alice = alice
    bob = bob
    bot = bot
    pool = pool
    sponsor = sponsor
    t1 = t1
    t2 = t2
    t3 = t3
    Log <- History
    Contract = {bot, pool}
    Pool = {pool}
    Router = {}
    Sponsor = sponsor
    TxInfo <- Transactions
    Balance <- Balances
    SafetyLimit = 5
    Window = 2
    MonthLength = 2
    Run = {1, 2}
    PageLimit = 2
    EventPages = 2
    EnrichScan = 3
    TxLookups = 2
    ContractLookups = 1
    MaxFaults = 1
    Forgotten = {2}
INVARIANTS
    CursorsKeepTheirPromise
    TractionAddsUp
PROPERTIES
    EventuallyCaughtUp
