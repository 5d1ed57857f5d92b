\* A run fails after its rows are stored, the next one is clean.
SPECIFICATION Spec
CONSTANTS
    None = None
    xlm = xlm
    poolXlm = poolXlm
    poolUsd = poolUsd
    Pool = {poolXlm, poolUsd}
    Quote = {xlm}
    QuoteOf <- QuoteOfPool
    Reserves <- Updates2
    Run = {1}
    PoolLimit = 1
    PoolPages = 2
    QuoteLimit = 1
    QuotePages = 2
    Windows = {1}
    InitialPools = {poolXlm, poolUsd}
    Removable = {poolUsd}
    MaxFaults = 1
    MaxTime = 1
    MaxTrades = 2
INVARIANTS
    OneCleanRunIsEnough
CHECK_DEADLOCK FALSE
