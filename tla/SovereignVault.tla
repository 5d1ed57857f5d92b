---------------------------- MODULE SovereignVault ----------------------------
(***************************************************************************)
(* The Sovereign Vault, contracts/sovereign-vault/src/lib.rs: one constant *)
(* product pool of HITZ against each listed asset, the dislocation fee,    *)
(* and the two timelocks of its admin.                                     *)
(*                                                                         *)
(* A call is one transaction: a panic leaves no trace, so every entrypoint *)
(* is one action guarded by everything that would panic.  The token        *)
(* contracts are external: held is what they say the vault owns, and the   *)
(* rest of each fixed supply is in the hands of the callers.  A transfer   *)
(* that its token refuses panics the call.                                 *)
(***************************************************************************)
EXTENDS VaultMath, Sequences, FiniteSetsExt, SequencesExt

CONSTANTS
    Hitz, Asset,           \* HITZ and the assets somebody may propose
    InitialAssets,         \* the constructor's assets, in order
    WasmHash, InitialCode, \* hashes of vault code
    None,                  \* an absent storage entry
    MaxAssets, ReferenceDepthRatio, UpgradeDelay

\* The inputs the environment tries, and where it stops: bounds of a check,
\* not of the contract.
CONSTANTS
    Supply,                \* what exists of each token
    Amount,                \* amounts traded
    Gift,                  \* <<token, amount>> pairs sent to the vault directly
    SeedAmount,            \* <<hitz, amount>> pairs given to seed
    DepositHitz, Window,   \* hitz and <<min_amount, max_amount>> of a deposit
    Listable, Installable, \* assets and hashes the admin proposes
    LedgerInterval, MaxTime

Token == Asset \cup {Hitz}

ASSUME VaultAssumption ==
    /\ Hitz \notin Asset /\ None \notin Asset \cup {Hitz} \cup WasmHash
    /\ None \notin [asset : Asset, eta : Nat] \cup [wasm_hash : WasmHash, eta : Nat]
    /\ None \notin [item : Asset \cup WasmHash, since : Int]
    /\ InitialAssets \in Seq(Asset) /\ IsInjective(InitialAssets)
    /\ Len(InitialAssets) \in 1..MaxAssets
    /\ InitialCode \in WasmHash /\ Installable \subseteq WasmHash
    /\ Listable \subseteq Asset \cup {Hitz}
    /\ MaxAssets \in Nat /\ ReferenceDepthRatio \in Nat \ {0}
    /\ UpgradeDelay \in Nat \ {0}
    /\ Supply \in [Asset \cup {Hitz} -> Nat]
    /\ Amount \subseteq Int /\ DepositHitz \subseteq Int
    /\ Gift \subseteq Token \X Int
    /\ SeedAmount \subseteq Int \X Int /\ Window \subseteq Int \X Int
    /\ LedgerInterval \subseteq Nat \ {0} /\ MaxTime \in Nat

VARIABLES
    pools,                            \* DataKey::Pools, in listing order
    admin,                            \* whether DataKey::Admin is set
    pendingListing, pendingUpgrade, upgradesRenounced,
    code,                             \* hash of the vault's Wasm
    held,                             \* token -> the vault's balance
    now                               \* env.ledger().timestamp()

governance == <<admin, pendingListing, pendingUpgrade, upgradesRenounced, code>>
vars == <<pools, governance, held, now>>

-----------------------------------------------------------------------------
(* Pools.                                                                  *)

EmptyPool(a, t) ==
    [asset |-> a, hitz |-> 0, reserve |-> 0, deviation |-> 0, updated |-> t]
Seeded(p)         == p.hitz > 0 /\ p.reserve > 0
DeviationAt(p, t) == Decayed(p.deviation, t - p.updated)
Listed(ps, a)     == \E i \in DOMAIN ps : ps[i].asset = a
IndexOf(ps, a)    == CHOOSE i \in DOMAIN ps : ps[i].asset = a

\* The other seeded pools deep enough to measure pool i against.
References(ps, i, hitz) ==
    {j \in DOMAIN ps \ {i} :
        Seeded(ps[j]) /\ ps[j].hitz * ReferenceDepthRatio >= hitz}

WorstDislocation(ps, i, hitz, deviation, t) ==
    Max({0} \cup {Abs(deviation - DeviationAt(ps[j], t)) :
                    j \in References(ps, i, hitz)})

\* Mutant: averages the deviations as they were stored.
AverageOfStored(ps, t) ==
    LET seeded == {i \in DOMAIN ps : Seeded(ps[i])}
        weight == SumFunctionOnSet([i \in DOMAIN ps |-> ps[i].hitz], seeded)
        total  == SumFunctionOnSet([i \in DOMAIN ps |-> ps[i].deviation * ps[i].hitz], seeded)
    IN  IF weight = 0 THEN 0 ELSE Quo(total, weight)

\* The HITZ-weighted average of the seeded pools' deviations at t.
AverageDeviation(ps, t) ==
    LET seeded == {i \in DOMAIN ps : Seeded(ps[i])}
        weight == SumFunctionOnSet([i \in DOMAIN ps |-> ps[i].hitz], seeded)
        total  == SumFunctionOnSet([i \in DOMAIN ps |-> DeviationAt(ps[i], t) * ps[i].hitz],
                                   seeded)
    IN  IF weight = 0 THEN 0 ELSE Quo(total, weight)
-----------------------------------------------------------------------------
(* Routing and swap maths.                                                 *)

\* What a leg has to say to the next one; pools is meaningless once ok fails.
Refused == [ok |-> FALSE, pools |-> <<>>, out |-> 0]

\* (hitz, reserve) after a leg.
HitzSide(hitzIn, newIn, newOut)    == IF hitzIn THEN newIn ELSE newOut
ReserveSide(hitzIn, newIn, newOut) == IF hitzIn THEN newOut ELSE newIn

\* Mutants: the fee paid out on top of the gross output, or not withheld and
\* the gross output rounded up.
FeeOnTop(gross, fee) == gross + MulDivCeil(gross, fee, One)
NoFee(gross, fee)    == gross + 1

\* The fee is withheld from the output and stays in the reserve.
AmountOut(gross, fee) == gross - MulDivCeil(gross, fee, One)

\* One constant-product leg: the fee is priced at the dislocation the leg
\* would leave behind without a fee, then withheld from the output.
Hop(ps, leg, amountIn, t) ==
    LET p     == ps[leg.pool]
        rIn   == IF leg.hitzIn THEN p.hitz ELSE p.reserve
        rOut  == IF leg.hitzIn THEN p.reserve ELSE p.hitz
        newIn == rIn + amountIn
        gross == MulDivFloor(rOut, amountIn, newIn)
        Hitz1(out)    == HitzSide(leg.hitzIn, newIn, rOut - out)
        Reserve1(out) == ReserveSide(leg.hitzIn, newIn, rOut - out)
        DeviationAfter(out) ==
            DeviationAt(p, t) + LnPriceChange(p.hitz, p.reserve, Hitz1(out), Reserve1(out))
        fee   == FeeForDislocation(
                    WorstDislocation(ps, leg.pool, Hitz1(gross), DeviationAfter(gross), t))
        out   == AmountOut(gross, fee)
    IN  IF ~(Fits(newIn) /\ Fits(rOut * amountIn)) THEN Refused
        ELSE IF ~Fits(gross * fee) \/ out <= 0 THEN Refused
        ELSE [ok    |-> TRUE,
              pools |-> [ps EXCEPT ![leg.pool] =
                            [asset     |-> p.asset,
                             hitz      |-> Hitz1(out),
                             reserve   |-> Reserve1(out),
                             deviation |-> DeviationAfter(out),
                             updated   |-> t]],
              out   |-> out]

\* HITZ against an asset is one leg; two assets trade through HITZ.
Supported(ps, tokenIn, tokenOut) ==
    /\ tokenIn # tokenOut
    /\ \A x \in {tokenIn, tokenOut} \ {Hitz} :
            Listed(ps, x) /\ Seeded(ps[IndexOf(ps, x)])
Route(ps, tokenIn, tokenOut) ==
    LET Sell == [pool |-> IndexOf(ps, tokenIn), hitzIn |-> FALSE]
        Buy  == [pool |-> IndexOf(ps, tokenOut), hitzIn |-> TRUE]
    IN  CASE tokenIn = Hitz  -> <<Buy>>
          [] tokenOut = Hitz -> <<Sell>>
          [] OTHER           -> <<Sell, Buy>>

RunRoute(ps, legs, amountIn, t) ==
    LET first == Hop(ps, legs[1], amountIn, t)
    IN  IF Len(legs) = 1 \/ ~first.ok THEN first
        ELSE Hop(first.pools, legs[2], first.out, t)

\* What swap and quote both compute.
Quote(ps, tokenIn, tokenOut, amountIn, t) ==
    IF amountIn > 0 /\ Supported(ps, tokenIn, tokenOut)
    THEN RunRoute(ps, Route(ps, tokenIn, tokenOut), amountIn, t)
    ELSE Refused
-----------------------------------------------------------------------------
(* Trading and liquidity.                                                  *)

CanPay(t, amount) == held[t] + amount <= Supply[t]

Swap(tokenIn, tokenOut, amountIn, minOut) ==
    LET q == Quote(pools, tokenIn, tokenOut, amountIn, now)
    IN  /\ minOut >= 0
        /\ q.ok
        /\ q.out >= minOut
        /\ CanPay(tokenIn, amountIn)
        /\ pools' = q.pools
        /\ held' = [held EXCEPT ![tokenIn] = @ + amountIn, ![tokenOut] = @ - q.out]
        /\ UNCHANGED <<governance, now>>

\* The asset a deposit owes for its hitz, rounded up in the vault's favour.
Matching(p, hitz) == MulDivCeil(hitz, p.reserve, p.hitz)

\* Mutant: a deposit pulls its HITZ only.
PulledHitzOnly(a, hitz, amount) == [held EXCEPT ![Hitz] = @ + hitz]

\* Liquidity of both sides comes in.
Pulled(a, hitz, amount) == [held EXCEPT ![Hitz] = @ + hitz, ![a] = @ + amount]

Deposit(a, hitz, minAmount, maxAmount) ==
    /\ hitz > 0 /\ minAmount >= 0 /\ maxAmount >= minAmount
    /\ Listed(pools, a)
    /\ LET i      == IndexOf(pools, a)
           p      == pools[i]
           amount == Matching(p, hitz)
       IN  /\ Seeded(p)
           /\ Fits(hitz * p.reserve) /\ Fits(p.hitz + hitz) /\ Fits(p.reserve + amount)
           /\ amount \in minAmount..maxAmount
           /\ CanPay(Hitz, hitz) /\ CanPay(a, amount)
           /\ pools' = [pools EXCEPT ![i].hitz = @ + hitz, ![i].reserve = @ + amount]
           /\ held' = Pulled(a, hitz, amount)
    /\ UNCHANGED <<governance, now>>

Seed(a, hitz, amount) ==
    /\ admin
    /\ hitz > 0 /\ amount > 0
    /\ Listed(pools, a)
    /\ LET i == IndexOf(pools, a)
       IN  /\ pools[i].hitz = 0 /\ pools[i].reserve = 0
           /\ pools' = [pools EXCEPT ![i] =
                [asset |-> a, hitz |-> hitz, reserve |-> amount,
                 deviation |-> AverageDeviation(pools, now), updated |-> now]]
    /\ CanPay(Hitz, hitz) /\ CanPay(a, amount)
    /\ held' = Pulled(a, hitz, amount)
    /\ UNCHANGED <<governance, now>>

\* External: anyone can send tokens to the vault's address without calling it.
Donate(t, amount) ==
    /\ amount > 0 /\ CanPay(t, amount)
    /\ held' = [held EXCEPT ![t] = @ + amount]
    /\ UNCHANGED <<pools, governance, now>>
-----------------------------------------------------------------------------
(* The admin's timelocks.                                                  *)

CheckListable(a) ==
    /\ a # Hitz /\ ~Listed(pools, a)
    /\ Len(pools) < MaxAssets

\* The notice is over.
Due(p) == now >= p.eta

ProposeListing(a) ==
    /\ admin
    /\ CheckListable(a)
    /\ pendingListing' = [asset |-> a, eta |-> now + UpgradeDelay]
    /\ UNCHANGED <<pools, admin, pendingUpgrade, upgradesRenounced, code, held, now>>

CancelListing ==
    /\ admin
    /\ pendingListing # None
    /\ pendingListing' = None
    /\ UNCHANGED <<pools, admin, pendingUpgrade, upgradesRenounced, code, held, now>>

ListAsset(a) ==
    /\ admin
    /\ pendingListing # None
    /\ pendingListing.asset = a
    /\ Due(pendingListing)
    /\ CheckListable(a)
    /\ pools' = Append(pools, EmptyPool(a, now))
    /\ pendingListing' = None
    /\ UNCHANGED <<admin, pendingUpgrade, upgradesRenounced, code, held, now>>

ProposeUpgrade(h) ==
    /\ admin
    /\ ~upgradesRenounced
    /\ pendingUpgrade' = [wasm_hash |-> h, eta |-> now + UpgradeDelay]
    /\ UNCHANGED <<pools, admin, pendingListing, upgradesRenounced, code, held, now>>

CancelUpgrade ==
    /\ admin
    /\ pendingUpgrade # None
    /\ pendingUpgrade' = None
    /\ UNCHANGED <<pools, admin, pendingListing, upgradesRenounced, code, held, now>>

\* The new code is taken to be a build of this contract.
Upgrade(h) ==
    /\ admin
    /\ ~upgradesRenounced
    /\ pendingUpgrade # None
    /\ pendingUpgrade.wasm_hash = h
    /\ Due(pendingUpgrade)
    /\ pendingUpgrade' = None
    /\ code' = h
    /\ UNCHANGED <<pools, admin, pendingListing, upgradesRenounced, held, now>>

RenounceUpgrades ==
    /\ admin
    /\ upgradesRenounced' = TRUE
    /\ pendingUpgrade' = None
    /\ UNCHANGED <<pools, admin, pendingListing, code, held, now>>

\* Mutant: renouncing forgets the pending listing.
ListingOutlivesAdmin == pendingListing

\* What renounce leaves of a pending listing.
ListingAfterRenounce == None

Renounce ==
    /\ admin
    /\ admin' = FALSE
    /\ pendingUpgrade' = None
    /\ pendingListing' = ListingAfterRenounce
    /\ UNCHANGED <<pools, upgradesRenounced, code, held, now>>

\* External: ledgers close at later and later times.
CloseLedger(interval) ==
    /\ now + interval <= MaxTime
    /\ now' = now + interval
    /\ UNCHANGED <<pools, governance, held>>
-----------------------------------------------------------------------------
Init ==
    /\ pools = [i \in DOMAIN InitialAssets |-> EmptyPool(InitialAssets[i], 0)]
    /\ admin = TRUE
    /\ pendingListing = None
    /\ pendingUpgrade = None
    /\ upgradesRenounced = FALSE
    /\ code = InitialCode
    /\ held = [t \in Token |-> 0]
    /\ now = 0

Trade ==
    \/ \E in, out \in Token, x \in Amount, m \in {0} \cup Amount : Swap(in, out, x, m)
    \/ \E a \in Asset, h \in DepositHitz, w \in Window : Deposit(a, h, w[1], w[2])
    \/ \E a \in Asset, s \in SeedAmount : Seed(a, s[1], s[2])
    \/ \E g \in Gift : Donate(g[1], g[2])

Govern ==
    \/ \E a \in Listable : ProposeListing(a)
    \/ CancelListing
    \/ \E a \in Listable : ListAsset(a)
    \/ \E h \in Installable : ProposeUpgrade(h)
    \/ CancelUpgrade
    \/ \E h \in Installable : Upgrade(h)
    \/ RenounceUpgrades
    \/ Renounce

Next ==
    \/ Trade
    \/ Govern
    \/ \E interval \in LedgerInterval : CloseLedger(interval)

Spec == Init /\ [][Next]_vars
-----------------------------------------------------------------------------
(* Properties.                                                             *)

Pool == [asset : Asset, hitz : Nat, reserve : Nat, deviation : Int, updated : 0..MaxTime]

\* Types: every entry of the instance storage is absent or of its own shape,
\* and a pool is dated no later than the ledger.
TypeOK ==
    /\ pools \in Seq(Pool)
    /\ \A i \in DOMAIN pools : pools[i].updated <= now
    /\ admin \in BOOLEAN /\ upgradesRenounced \in BOOLEAN
    /\ pendingListing \in [asset : Asset, eta : Nat] \cup {None}
    /\ pendingUpgrade \in [wasm_hash : WasmHash, eta : Nat] \cup {None}
    /\ code \in WasmHash
    /\ held \in [Token -> Nat]
    /\ now \in 0..MaxTime

\* "Reserves equal the vault's token balances": the pools' reserves are
\* covered by what the token contracts say the vault owns (direct gifts come
\* on top), all pools together sharing the one HITZ balance, and no asset has
\* two pools to count its balance twice.
BooksBalance ==
    /\ TypeOK
    /\ SumFunction([i \in DOMAIN pools |-> pools[i].hitz]) <= held[Hitz]
    /\ \A i \in DOMAIN pools : pools[i].reserve <= held[pools[i].asset]
    /\ IsInjective([i \in DOMAIN pools |-> pools[i].asset])

\* "Round trips lose money": whatever state the pools are in, swapping an
\* amount and swapping the proceeds straight back, over one hop or two,
\* returns less than went in.
RoundTripsLose ==
    \A s, t \in Token, x \in Amount :
        LET there == Quote(pools, s, t, x, now)
            back  == Quote(there.pools, t, s, there.out, now)
        IN  there.ok => (back.ok => back.out < x)

\* "k never decreases in any pool": no call, trade or deposit, fee or
\* rounding, shrinks the product of a pool's reserves.
KNeverDecreases ==
    [][\A i \in DOMAIN pools :
        pools'[i].hitz * pools'[i].reserve >= pools[i].hitz * pools[i].reserve]_vars

\* Adding liquidity never makes HITZ cheaper for the next trader: a deposit
\* rounds its asset up, so a call that adds to both reserves keeps every
\* seeded pool's price at or above what it was, and forgets no deviation.
DepositsNeverDilute ==
    [][\A i \in DOMAIN pools :
        (/\ Seeded(pools[i])
         /\ pools'[i].hitz > pools[i].hitz /\ pools'[i].reserve > pools[i].reserve)
        => /\ pools'[i].reserve * pools[i].hitz >= pools[i].reserve * pools'[i].hitz
           /\ DeviationAt(pools'[i], now) = DeviationAt(pools[i], now)]_vars

\* "A new pool starts where the others already are": the deviation a pool is
\* seeded with lies within the others' deviations of that very second, or is
\* zero when it is the first.
SeedStartsInside ==
    [][\A i \in DOMAIN pools : (~Seeded(pools[i]) /\ Seeded(pools'[i])) =>
        LET others == {DeviationAt(pools[j], now) : j \in {k \in DOMAIN pools : Seeded(pools[k])}}
        IN  IF others = {} THEN pools'[i].deviation = 0
            ELSE pools'[i].deviation \in Min(others)..Max(others)]_vars

\* Liquidity comes in at the price and the memory the pools already have: a
\* deposit dilutes nobody and a seeding neither resets nor inflates the fee.
LiquidityComesInFairly == DepositsNeverDilute /\ SeedStartsInside

\* "renounce ends everything, renounce_upgrades freezes the code and keeps
\* listing": no later call lists, seeds or installs anything, and a proposal
\* left pending does not outlive the role that could run it.
RenouncedIsFinal ==
    [][/\ ~admin => /\ ~admin'
                    /\ DOMAIN pools' = DOMAIN pools /\ code' = code
                    /\ \A i \in DOMAIN pools : Seeded(pools'[i]) <=> Seeded(pools[i])
                    /\ pendingListing' = None /\ pendingUpgrade' = None
       /\ upgradesRenounced => /\ upgradesRenounced' /\ code' = code
                               /\ pendingUpgrade' = None]_vars

ListingTimelock ==
    INSTANCE Timelock WITH
        Item <- Asset, Initial <- None, Delay <- UpgradeDelay, clock <- now,
        installed <- IF Len(pools) = Len(InitialAssets) THEN None ELSE Last(pools).asset,
        proposal  <- IF pendingListing = None THEN None
                     ELSE [item  |-> pendingListing.asset,
                           since |-> pendingListing.eta - UpgradeDelay]
UpgradeTimelock ==
    INSTANCE Timelock WITH
        Item <- WasmHash, Initial <- InitialCode, Delay <- UpgradeDelay, clock <- now,
        installed <- code,
        proposal  <- IF pendingUpgrade = None THEN None
                     ELSE [item  |-> pendingUpgrade.wasm_hash,
                           since |-> pendingUpgrade.eta - UpgradeDelay]

\* lib.rs:608-729.  Listings and upgrades implement the timelock, each on its
\* own clock: the last asset that got a pool, and the code that runs, were the
\* one public proposal, uninterrupted, for UpgradeDelay; and what is renounced
\* stays renounced.
AdminChangesAreTimelocked == ListingTimelock!Spec /\ UpgradeTimelock!Spec /\ RenouncedIsFinal
=============================================================================
