\* Registry, integrity drift, admin role and timelocked upgrades; p is a
\* contract whose bytecode changes, a a classic account, one HITZ unit moves.
SPECIFICATION Spec
CONSTANTS
    a = a
    b = b
    p = p
    r = r
    ZeroHash = ZeroHash
    None = None
    Address = {a, p}
    Contract = {p}
    WasmHash = {h1, h2}
    InitialCode = h1
    MaxSupply = 1
    Scale = 1
    UpgradeDelay = 2
    Amount = {1}
    PoolCandidate = {a, p}
    RouterCandidate = {a, p}
    Grant <- OneGrant
    Expiration = {1}
    Proposal = {h1, h2}
    AdminCandidate = {a, p}
    LedgerInterval = {1}
    MaxSequence = 3
INVARIANTS
    RegistryIsSound
PROPERTIES
    RenouncedIsFinal
    DriftIsRecorded
    SpendsAreCovered
    ImplementsTimelock
CHECK_DEADLOCK FALSE
