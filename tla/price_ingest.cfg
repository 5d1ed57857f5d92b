\* Prices: a pool against XLM that trades and is drained, one against USDC; one
\* fault.  History: four pool events, two fills, three runs of the cron's steps.
\* The report's rows: three in pages of two, three ticks.  Its contents: four
\* months of up to eight events.
SPECIFICATION DataSpec
CONSTANTS
    None = None
    xlm = xlm
    poolXlm = poolXlm
    poolUsd = poolUsd
    Pool = {poolXlm, poolUsd}
    Quote = {xlm}
    QuoteOf <- QuoteOfPool
    Reserves <- Updates
    Run = {1}
    PoolLimit = 1
    PoolPages = 2
    QuoteLimit = 1
    QuotePages = 2
    Windows = {1}
    InitialPools = {poolXlm, poolUsd}
    Removable = {poolUsd}
    MaxFaults = 1
    MaxTime = 1
    MaxTrades = 3
    Page = 2
    FullTtl = 2
    MaxRows = 3
    MaxTicks = 3
    Journals <- SomeMonths
    SponsorKey = "gate"
    AdminKey = "boss"
    Roles <- KnownRoles
    Creators <- MadeBy
    Envelopes <- Signed
    Month <- DayOne
    Listable = {"P", "acct"}
    Priceable = {"P"}
    UpdatesReserves = {1, 3}
    PageOfEvents = 2
    MaxHistory = 4
    MaxFills = 2
    MaxSteps = 3
INVARIANTS
    ReservesBehindCursor
    QuotesSettle
    CleanRunsAreCurrent
    ReportHasNoHole
    ReportIsComplete
    BackfillLosesNothing
CHECK_DEADLOCK FALSE
