\* Balances, supply, mass, vault flags and one allowance; contracts keep their
\* bytecode and nothing is proposed.
SPECIFICATION Spec
CONSTANTS
    a = a
    b = b
    p = p
    r = r
    ZeroHash = ZeroHash
    None = None
    Address = {a, b, p, r}
    Contract = {}
    WasmHash = {h1}
    InitialCode = h1
    MaxSupply = 6
    Scale = 2
    UpgradeDelay = 1
    Amount = {0, 1, 2}
    PoolCandidate = {p, b}
    RouterCandidate = {b, r}
    Grant <- OneGrant
    Expiration = {0}
    Proposal = {}
    AdminCandidate = {a}
    LedgerInterval = {1}
    MaxSequence = 1
INVARIANTS
    AccumulatorsAreSums
    ExitOpen
PROPERTIES
    FlagsAreSound
    ImplementsGravityLaw
CHECK_DEADLOCK FALSE
