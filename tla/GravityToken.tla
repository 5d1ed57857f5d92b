---------------------------- MODULE GravityToken ----------------------------
(***************************************************************************)
(* The HITZ token contract, contracts/gravity-token/src/lib.rs.            *)
(*                                                                         *)
(* A contract call is one transaction: it either runs to its end or it     *)
(* panics and leaves no trace.  So every entrypoint is one action, its     *)
(* guard is the conjunction of the conditions under which no panic!,       *)
(* expect or unwrap of it (or of a helper it calls) fires, and a call that *)
(* panics is no step.  require_auth is the host's: an action is taken by   *)
(* the address that has to sign it.                                        *)
(*                                                                         *)
(* Abstracted: token metadata, events other than the drift record, storage *)
(* TTLs (an archived entry is restored by the host before it is read), and *)
(* i128 overflow, which MAX_SUPPLY keeps out of reach (10^15 * 10^7 is far *)
(* below 2^127).                                                           *)
(***************************************************************************)
EXTENDS Integers, Sequences, FiniteSets, FiniteSetsExt, SequencesExt

CONSTANTS
    Address,         \* every account and contract that can hold HITZ
    Contract,        \* those of Address that can run Wasm
    WasmHash,        \* hashes of contract bytecode
    ZeroHash,        \* the all-zero sentinel: no Wasm, no integrity binding
    None,            \* an absent storage entry
    InitialCode,     \* hash of the token bytecode deployed first
    MaxSupply,       \* MAX_SUPPLY
    Scale,           \* 10^decimals
    UpgradeDelay     \* UPGRADE_DELAY_SECS

\* The inputs the environment tries, and where it stops: bounds of a check,
\* not of the contract.
CONSTANTS
    Amount,             \* amounts of mint, transfer, burn and approve
    PoolCandidate,      \* addresses the admin registers or removes as pools
    RouterCandidate,    \* ... and as routers
    Grant,              \* <<owner, spender>> pairs that use allowances
    Expiration,         \* expiration ledgers given to approve
    Proposal,           \* hashes given to propose_upgrade and upgrade
    AdminCandidate,     \* admins given to initialize and set_admin
    LedgerInterval,     \* seconds between two ledgers
    MaxSequence         \* the last ledger

ASSUME HashAssumption ==
    /\ ZeroHash \notin WasmHash
    /\ None \notin WasmHash \cup {ZeroHash}
    /\ InitialCode \in WasmHash
    /\ Proposal \subseteq WasmHash
    /\ None \notin [wasm_hash : WasmHash, eta : Nat]
    /\ None \notin [item : WasmHash, since : Int]
ASSUME AddressAssumption ==
    /\ IsFiniteSet(Address)   \* 32 bytes each
    /\ None \notin Address
    /\ Contract \subseteq Address
    /\ PoolCandidate \subseteq Address
    /\ RouterCandidate \subseteq Address
    /\ AdminCandidate \subseteq Address
    /\ Grant \subseteq Address \X Address
ASSUME NumberAssumption ==
    /\ MaxSupply \in Nat
    /\ Scale \in Nat \ {0}
    /\ UpgradeDelay \in Nat \ {0}
    /\ Amount \subseteq Int
    /\ Expiration \subseteq Nat
    /\ LedgerInterval \subseteq Nat \ {0}
    /\ MaxSequence \in Nat

VARIABLES
    admin, renounced, pendingUpgrade,            \* instance storage
    totalSupply, totalMass, poolList, routerList,
    balance, vaulted, allowance,                 \* persistent storage
    approvedPools, approvedRouters, drift,
    code,                                        \* the token's own Wasm hash
    live,                                        \* Wasm hash each address runs
    sequence, timestamp                          \* env.ledger()

lifecycle == <<admin, renounced, pendingUpgrade, code>>
registry  == <<approvedPools, approvedRouters, poolList, routerList>>
holdings  == <<balance, vaulted, totalSupply, totalMass>>
ledger    == <<sequence, timestamp>>
vars      == <<lifecycle, registry, drift, holdings, allowance, live, ledger>>

Hash == WasmHash \cup {ZeroHash}

-----------------------------------------------------------------------------
\* Classification of an address and the integrity of its bytecode.

IsPool(x) == approvedPools[x] # None
IsRouter(x) == approvedRouters[x] # None
IsInfrastructure(x) == IsPool(x) \/ IsRouter(x)

\* check_integrity's answer: the zero hash binds nothing, so it never drifts.
DriftedFrom(approved, x) ==
    /\ approved \notin {None, ZeroHash}
    /\ approved # live[x]

HasDrifted(x) ==
    \/ DriftedFrom(approvedPools[x], x)
    \/ DriftedFrom(approvedRouters[x], x)

\* Mutant: alerts only on the first drift, not once per new hash.
FirstDriftOnly(S) ==
    [x \in Address |->
        IF x \in S /\ HasDrifted(x) /\ drift[x] = None THEN live[x] ELSE drift[x]]

\* check_integrity's record, for the addresses S that a call classifies.
CheckIntegrity(S) ==
    [x \in Address |-> IF x \in S /\ HasDrifted(x) THEN live[x] ELSE drift[x]]

-----------------------------------------------------------------------------
\* The safety limit and the vault flag.

\* What integer_sqrt's Newton iteration returns (module NewtonSqrt).
IntegerSqrt(n) == CHOOSE r \in 0..n : r * r <= n /\ n < (r + 1) * (r + 1)

CurrentLimit(mass) == IF mass <= 0 THEN 0 ELSE IntegerSqrt(mass * Scale)

\* Mutant: the flag is computed against the mass before the call.
SyncBeforeMass(flags, x, amount, mass) ==
    IF IsInfrastructure(x) THEN flags
    ELSE [flags EXCEPT ![x] = (amount > CurrentLimit(totalMass))]

\* sync_vault_flag behind its callers' test that x is no pool or router.
SyncVaultFlag(flags, x, amount, mass) ==
    IF IsInfrastructure(x) THEN flags
    ELSE [flags EXCEPT ![x] = (amount > CurrentLimit(mass))]

-----------------------------------------------------------------------------
\* Movements of HITZ.

\* Mutant: no re-evaluation before the sender gate.
NoEscapeOnTry(from) == vaulted

\* The sender's flag re-evaluated against the current limit before the gate.
EscapeOnTry(from) == SyncVaultFlag(vaulted, from, balance[from], totalMass)

\* Mutant: vaulted senders may also send to routers.
GateOpenToRouters(from, to) ==
    \/ IsInfrastructure(from)
    \/ ~EscapeOnTry(from)[from]
    \/ IsInfrastructure(to)

\* The sender gate: the one panic that vault logic causes in a transfer.
SenderGateOpen(from, to) ==
    \/ IsInfrastructure(from)
    \/ ~EscapeOnTry(from)[from]
    \/ IsPool(to)

HasFunds(x, amount) == balance[x] >= amount

MassAfterMove(from, to, amount) ==
    totalMass - (IF IsPool(from) THEN amount ELSE 0)
              + (IF IsPool(to) THEN amount ELSE 0)

\* A transfer of amount that no check refuses (allowances apart).
TransferAccepted(from, to, amount) ==
    /\ amount > 0
    /\ from # to
    /\ SenderGateOpen(from, to)
    /\ HasFunds(from, amount)
    /\ IsPool(from) => totalMass >= amount

\* The body that transfer and transfer_from share.
MoveBalance(from, to, amount) ==
    LET moved == [balance EXCEPT ![from] = @ - amount, ![to] = @ + amount]
        mass  == MassAfterMove(from, to, amount)
    IN  /\ TransferAccepted(from, to, amount)
        /\ balance' = moved
        /\ totalMass' = mass
        /\ vaulted' = SyncVaultFlag(
                          SyncVaultFlag(EscapeOnTry(from), from, moved[from], mass),
                          to, moved[to], mass)
        /\ drift' = CheckIntegrity({from, to})
        /\ UNCHANGED <<totalSupply, registry, lifecycle, live, ledger>>

Transfer(from, to, amount) ==
    /\ MoveBalance(from, to, amount)
    /\ UNCHANGED allowance

-----------------------------------------------------------------------------
\* Allowances.

\* read_allowance
ReadAllowance(from, spender) ==
    LET granted == allowance[<<from, spender>>]
    IN  IF sequence > granted.expiry THEN 0 ELSE granted.amount

\* Mutant: the spender's pool binding is not consulted.
EnforceRouterIntegrityOnly(spender) ==
    ~DriftedFrom(approvedRouters[spender], spender)

\* enforce_integrity_if_registered: a drifted spender is refused.
EnforceIntegrity(spender) == ~HasDrifted(spender)

SpendAllowance(from, spender, amount) ==
    /\ ReadAllowance(from, spender) >= amount
    /\ allowance' = [allowance EXCEPT ![<<from, spender>>].amount =
                        ReadAllowance(from, spender) - amount]

TransferFrom(spender, from, to, amount) ==
    /\ EnforceIntegrity(spender)
    /\ SpendAllowance(from, spender, amount)
    /\ MoveBalance(from, to, amount)

Approve(from, spender, amount, expiration) ==
    /\ amount >= 0
    /\ expiration >= sequence
    /\ allowance' = [allowance EXCEPT ![<<from, spender>>] =
                        [amount |-> amount, expiry |-> expiration]]
    /\ UNCHANGED <<holdings, registry, drift, lifecycle, live, ledger>>

-----------------------------------------------------------------------------
\* Supply.

\* mint's cap check.
WithinCap(amount) == totalSupply + amount <= MaxSupply

AdminActive == admin # None /\ ~renounced

Mint(to, amount) ==
    LET credited == balance[to] + amount
        mass     == IF IsPool(to) THEN totalMass + amount ELSE totalMass
    IN  /\ AdminActive
        /\ amount > 0
        /\ WithinCap(amount)
        /\ balance' = [balance EXCEPT ![to] = credited]
        /\ totalSupply' = totalSupply + amount
        /\ totalMass' = mass
        /\ vaulted' = SyncVaultFlag(vaulted, to, credited, mass)
        /\ drift' = CheckIntegrity({to})
        /\ UNCHANGED <<allowance, registry, lifecycle, live, ledger>>

SupplyAfterBurn(amount) == totalSupply - amount

\* The body that burn and burn_from share.  The flag is synced before the
\* vault test and, unlike in transfer, not again after the balance fell.
BurnBalance(from, amount) ==
    /\ amount > 0
    /\ ~EscapeOnTry(from)[from]
    /\ HasFunds(from, amount)
    /\ totalSupply >= amount
    /\ IsPool(from) => totalMass >= amount
    /\ balance' = [balance EXCEPT ![from] = @ - amount]
    /\ totalSupply' = SupplyAfterBurn(amount)
    /\ totalMass' = IF IsPool(from) THEN totalMass - amount ELSE totalMass
    /\ vaulted' = EscapeOnTry(from)
    /\ drift' = CheckIntegrity({from})
    /\ UNCHANGED <<registry, lifecycle, live, ledger>>

Burn(from, amount) ==
    /\ BurnBalance(from, amount)
    /\ UNCHANGED allowance

BurnFrom(spender, from, amount) ==
    /\ EnforceIntegrity(spender)
    /\ SpendAllowance(from, spender, amount)
    /\ BurnBalance(from, amount)

-----------------------------------------------------------------------------
\* Registry of pools and routers.

\* pool_list_insert, router_list_insert
ListInsert(list, x) == IF Contains(list, x) THEN list ELSE Append(list, x)

\* pool_list_remove, router_list_remove
ListRemove(list, x) == RemoveFirst(list, x)

\* Mutant: every registration folds the balance in, re-binding included.
FoldInAlways(x) == totalMass + balance[x]

\* The balance a pool held before it was registered joins TotalMass once.
MassAfterRegistration(x) ==
    IF IsPool(x) THEN totalMass ELSE totalMass + balance[x]

FlagCleared(x) == [vaulted EXCEPT ![x] = FALSE]

RegisterPoolAddress(x) ==
    /\ AdminActive
    /\ approvedPools' = [approvedPools EXCEPT ![x] = live[x]]
    /\ poolList' = ListInsert(poolList, x)
    /\ totalMass' = MassAfterRegistration(x)
    /\ vaulted' = FlagCleared(x)
    /\ drift' = [drift EXCEPT ![x] = None]
    /\ UNCHANGED <<approvedRouters, routerList, balance, totalSupply, allowance,
                   lifecycle, live, ledger>>

\* Removing an address that is no pool only emits an event.  A removed pool
\* keeps a cleared vault flag until a call touches it.
RemovePoolAddress(x) ==
    /\ AdminActive
    /\ IsPool(x) => totalMass >= balance[x]
    /\ approvedPools' = [approvedPools EXCEPT ![x] = None]
    /\ poolList' = ListRemove(poolList, x)
    /\ totalMass' = IF IsPool(x) THEN totalMass - balance[x] ELSE totalMass
    /\ drift' = IF IsPool(x) THEN [drift EXCEPT ![x] = None] ELSE drift
    /\ UNCHANGED <<approvedRouters, routerList, balance, vaulted, totalSupply,
                   allowance, lifecycle, live, ledger>>

RegisterRouterAddress(x) ==
    /\ AdminActive
    /\ approvedRouters' = [approvedRouters EXCEPT ![x] = live[x]]
    /\ routerList' = ListInsert(routerList, x)
    /\ vaulted' = FlagCleared(x)
    /\ drift' = [drift EXCEPT ![x] = None]
    /\ UNCHANGED <<approvedPools, poolList, balance, totalSupply, totalMass,
                   allowance, lifecycle, live, ledger>>

RemoveRouterAddress(x) ==
    /\ AdminActive
    /\ approvedRouters' = [approvedRouters EXCEPT ![x] = None]
    /\ routerList' = ListRemove(routerList, x)
    /\ drift' = IF IsRouter(x) THEN [drift EXCEPT ![x] = None] ELSE drift
    /\ UNCHANGED <<approvedPools, poolList, holdings, allowance, lifecycle,
                   live, ledger>>

-----------------------------------------------------------------------------
\* Admin role and upgrades.

Initialize(a) ==
    /\ admin = None
    /\ admin' = a
    /\ totalMass' = 0
    /\ totalSupply' = 0
    /\ UNCHANGED <<renounced, pendingUpgrade, code, registry, drift, balance,
                   vaulted, allowance, live, ledger>>

SetAdmin(a) ==
    /\ AdminActive
    /\ admin' = a
    /\ UNCHANGED <<renounced, pendingUpgrade, code, registry, drift, holdings,
                   allowance, live, ledger>>

\* Mutant: a second proposal keeps the eta of the first.
EtaOfFirstProposal ==
    IF pendingUpgrade = None THEN timestamp + UpgradeDelay ELSE pendingUpgrade.eta

\* A new proposal restarts the clock.
UpgradeEta == timestamp + UpgradeDelay

ProposeUpgrade(hash) ==
    /\ AdminActive
    /\ pendingUpgrade' = [wasm_hash |-> hash, eta |-> UpgradeEta]
    /\ UNCHANGED <<admin, renounced, code, registry, drift, holdings, allowance,
                   live, ledger>>

CancelUpgrade ==
    /\ AdminActive
    /\ pendingUpgrade # None
    /\ pendingUpgrade' = None
    /\ UNCHANGED <<admin, renounced, code, registry, drift, holdings, allowance,
                   live, ledger>>

\* Installs the bytecode.  The model goes on with the entrypoints of this
\* source: what other bytecode does is not modelled.
Upgrade(hash) ==
    /\ AdminActive
    /\ pendingUpgrade # None
    /\ pendingUpgrade.wasm_hash = hash
    /\ timestamp >= pendingUpgrade.eta
    /\ pendingUpgrade' = None
    /\ code' = hash
    /\ UNCHANGED <<admin, renounced, registry, drift, holdings, allowance, live,
                   ledger>>

\* Mutant: classic-account entries are not refused.
FinalUnlessDrifted(list, approved) ==
    \A i \in DOMAIN list : ~DriftedFrom(approved[list[i]], list[i])

\* assert_registry_final: every listed entry is bound to Wasm it still runs.
RegistryFinal(list, approved) ==
    \A i \in DOMAIN list :
        /\ approved[list[i]] \notin {None, ZeroHash}
        /\ live[list[i]] = approved[list[i]]

\* Mutant: the admin key is removed as well, so the token can be initialised
\* again.
AdminDropped == None

\* Admin is kept so that initialize can never run again.
AdminKept == admin

RenounceAdmin ==
    /\ AdminActive
    /\ RegistryFinal(poolList, approvedPools)
    /\ RegistryFinal(routerList, approvedRouters)
    /\ renounced' = TRUE
    /\ admin' = AdminKept
    /\ pendingUpgrade' = None
    /\ UNCHANGED <<code, registry, drift, holdings, allowance, live, ledger>>

-----------------------------------------------------------------------------
\* The environment: ledgers close, other contracts change their bytecode.

CloseLedger ==
    /\ sequence < MaxSequence
    /\ sequence' = sequence + 1
    /\ \E d \in LedgerInterval : timestamp' = timestamp + d
    /\ UNCHANGED <<lifecycle, registry, drift, holdings, allowance, live>>

\* A contract is deployed, upgraded in place, or no longer on chain.
ChangeContract(c, hash) ==
    /\ live' = [live EXCEPT ![c] = hash]
    /\ UNCHANGED <<lifecycle, registry, drift, holdings, allowance, ledger>>

-----------------------------------------------------------------------------

Init ==
    /\ admin = None /\ renounced = FALSE /\ pendingUpgrade = None
    /\ totalSupply = 0 /\ totalMass = 0
    /\ poolList = <<>> /\ routerList = <<>>
    /\ balance = [x \in Address |-> 0]
    /\ vaulted = [x \in Address |-> FALSE]
    /\ allowance = [g \in Grant |-> [amount |-> 0, expiry |-> 0]]
    /\ approvedPools = [x \in Address |-> None]
    /\ approvedRouters = [x \in Address |-> None]
    /\ drift = [x \in Address |-> None]
    /\ code = InitialCode
    /\ live = [x \in Address |-> ZeroHash]
    /\ sequence = 0 /\ timestamp = 0

HolderStep ==
    \/ \E from, to \in Address, amount \in Amount : Transfer(from, to, amount)
    \/ \E from \in Address, amount \in Amount : Burn(from, amount)
    \/ \E g \in Grant, to \in Address, amount \in Amount :
           TransferFrom(g[2], g[1], to, amount)
    \/ \E g \in Grant, amount \in Amount : BurnFrom(g[2], g[1], amount)
    \/ \E g \in Grant, amount \in Amount, e \in Expiration :
           Approve(g[1], g[2], amount, e)

AdminStep ==
    \/ \E a \in AdminCandidate : Initialize(a) \/ SetAdmin(a)
    \/ \E to \in Address, amount \in Amount : Mint(to, amount)
    \/ \E x \in PoolCandidate : RegisterPoolAddress(x) \/ RemovePoolAddress(x)
    \/ \E x \in RouterCandidate :
           RegisterRouterAddress(x) \/ RemoveRouterAddress(x)
    \/ \E hash \in Proposal : ProposeUpgrade(hash) \/ Upgrade(hash)
    \/ CancelUpgrade
    \/ RenounceAdmin

EnvironmentStep ==
    \/ CloseLedger
    \/ \E c \in Contract, hash \in Hash : ChangeContract(c, hash)

Next == HolderStep \/ AdminStep \/ EnvironmentStep

Spec == Init /\ [][Next]_vars

-----------------------------------------------------------------------------
(***************************************************************************)
(* Correctness.                                                            *)
(***************************************************************************)

\* The storage holds what its readers expect: balances and accumulators are
\* natural numbers, the supply within its cap, registry entries hashes.
TypeOK ==
    /\ admin \in Address \cup {None} /\ renounced \in BOOLEAN
    /\ pendingUpgrade \in {None} \cup [wasm_hash : WasmHash, eta : Nat]
    /\ totalSupply \in 0..MaxSupply /\ totalMass \in Nat
    /\ poolList \in Seq(Address) /\ routerList \in Seq(Address)
    /\ balance \in [Address -> Nat]
    /\ vaulted \in [Address -> BOOLEAN]
    /\ allowance \in [Grant -> [amount : Nat, expiry : Nat]]
    /\ approvedPools \in [Address -> Hash \cup {None}]
    /\ approvedRouters \in [Address -> Hash \cup {None}]
    /\ drift \in [Address -> Hash \cup {None}]
    /\ code \in WasmHash
    /\ live \in [Address -> Hash]
    /\ sequence \in Nat /\ timestamp \in Nat

Law == INSTANCE GravityLaw WITH
           pools   <- {x \in Address : IsPool(x)},
           routers <- {x \in Address : IsRouter(x)}

\* total_supply() is the sum of all balances, whatever was minted, burned,
\* moved or re-registered before.
SupplyIsSumOfBalances ==
    totalSupply = SumFunctionOnSet(balance, Address)

\* The O(1) accumulator behind the safety limit is exactly what the pools
\* registered now hold: no balance is counted twice (re-binding a pool, an
\* address that is pool and router) and none is left behind (removal).
MassIsSumOfPoolBalances ==
    totalMass = SumFunctionOnSet(balance, {x \in Address : IsPool(x)})

\* Both accumulators of the ledger.
AccumulatorsAreSums == SupplyIsSumOfBalances /\ MassIsSumOfPoolBalances

\* Infrastructure immunity: no sequence of registrations, transfers and mints
\* leaves a vault flag on a pool or router.  burn relies on it, testing the
\* flag of infrastructure too.
InfrastructureNeverVaulted ==
    \A x \in Address : IsInfrastructure(x) => ~vaulted[x]

\* Escape on try and the sacrifice exit: an account within the limit, however
\* old its flag, and a pool or router can send anything it holds to anyone;
\* every holder can send anything it holds to any pool.  In particular no
\* TotalMass underflow ever blocks a pool.
ExitOpen ==
    \A x, y \in Address : \A n \in 1..balance[x] :
        (/\ x # y
         /\ \/ IsInfrastructure(x)
            \/ balance[x] <= CurrentLimit(totalMass)
            \/ IsPool(y))
        => TransferAccepted(x, y, n)

\* Every account whose balance a call changes leaves that call with the flag
\* that its new balance and the new limit call for: the flag is synced after
\* TotalMass, for both parties, and burn needs no sync of its own.
FlagFollows(x) ==
    balance'[x] # balance[x] /\ ~IsInfrastructure(x)' =>
        vaulted'[x] = (balance'[x] > CurrentLimit(totalMass'))

FlagsFollowBalances == [][\A x \in Address : FlagFollows(x)]_vars

\* The stored flags can be relied on where the code reads them without syncing:
\* in burn, and for whoever just moved HITZ.
FlagsAreSound == []InfrastructureNeverVaulted /\ FlagsFollowBalances

\* Lazy flags, accumulator and Newton root together implement the law stated
\* on balances alone: nobody above the limit ever gets HITZ out except into a
\* pool, however the limit moved since the flag was written.
ImplementsGravityLaw == Law!Spec

\* An allowance pays for a movement: it was unexpired, it falls by what leaves
\* the owner, and the spender, if registered, runs the bytecode approved for
\* it at that moment.
AllowanceSpent(g) ==
    /\ allowance'[g].amount < allowance[g].amount
    /\ balance'[g[1]] < balance[g[1]]

SpendIsCovered(g) ==
    AllowanceSpent(g) =>
        /\ sequence <= allowance[g].expiry
        /\ allowance[g].amount - allowance'[g].amount
              = balance[g[1]] - balance'[g[1]]
        /\ approvedPools[g[2]] \in {None, ZeroHash, live[g[2]]}
        /\ approvedRouters[g[2]] \in {None, ZeroHash, live[g[2]]}

SpendsAreCovered == [][\A g \in Grant : SpendIsCovered(g)]_vars

\* The enumeration index lists each registered address once and nothing else:
\* renounce_admin inspects the index, the token obeys the registry.
IndexMatchesRegistry ==
    /\ ToSet(poolList) = {x \in Address : IsPool(x)}
    /\ ToSet(routerList) = {x \in Address : IsRouter(x)}
    /\ IsInjective(poolList)
    /\ IsInjective(routerList)

\* After renounce_admin the registry, the admin, the bytecode and the proposal
\* never change again and no HITZ is created.
NothingGoverned ==
    /\ UNCHANGED <<registry, lifecycle>>
    /\ totalSupply' <= totalSupply

RenouncedIsFinal == [][renounced => NothingGoverned]_vars

\* What stays exempt from vaulting for ever is bound to bytecode: no classic
\* account is left registered when the role is given up.
FinalRegistryIsBound ==
    renounced => \A x \in Address :
        approvedPools[x] # ZeroHash /\ approvedRouters[x] # ZeroHash

\* A drift record belongs to a registered address.
DriftOnlyOnRegistered ==
    \A x \in Address : drift[x] # None => IsInfrastructure(x)

\* lib.rs:1336-1513.  The registry's parallel stores agree: the lists with the
\* entries, the drift records with the entries, and with the bytecode for ever
\* once the admin is gone, in every order of registering, re-registering,
\* removing, upgrading and renouncing.
RegistryIsSound == IndexMatchesRegistry /\ DriftOnlyOnRegistered /\ FinalRegistryIsBound

\* Fail-soft, but never silent: a call that moves HITZ to or from an address
\* running unapproved bytecode records exactly that bytecode, again for every
\* new hash; a zero-hash binding never raises it.
DriftRecorded(x) ==
    /\ balance'[x] # balance[x] /\ HasDrifted(x) => drift'[x] = live[x]
    /\ drift'[x] \notin {None, drift[x]} =>
           \E h \in {approvedPools[x], approvedRouters[x]} :
               h \in WasmHash \ {live[x]}

DriftIsRecorded == [][\A x \in Address : DriftRecorded(x)]_vars

Notice == INSTANCE Timelock WITH
              Item <- WasmHash, Initial <- InitialCode, Delay <- UpgradeDelay,
              installed <- code, clock <- timestamp,
              proposal <- IF pendingUpgrade = None THEN None
                          ELSE [item  |-> pendingUpgrade.wasm_hash,
                                since |-> pendingUpgrade.eta - UpgradeDelay]

\* The token's bytecode only ever becomes a hash that was the public proposal
\* for UpgradeDelay without interruption: a replaced, cancelled or renounced
\* proposal never runs.
ImplementsTimelock == Notice!Spec
=============================================================================
