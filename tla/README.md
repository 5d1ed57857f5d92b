# Formal specifications of HITZ Gravity

TLA+ models of this repository: state machines translated from the code, model
checked with TLC on small instances, and proved with TLAPS for every value of
their constants where the proof system reaches. Paths are relative to the
repository root; `functions/`, `app/` and `scripts/` are under `frontend/`.

## The system

| Part | State | Operations | Interacts with |
|---|---|---|---|
| HITZ token, `contracts/gravity-token/src/lib.rs` | admin, `Renounced`, pending upgrade, supply, `TotalMass`, balances, vault flags, allowances, pool and router registry with bytecode bindings, the two lists, drift records | the entrypoints of the contract | the host (ledger, other contracts' bytecode); every pool, router and the vault hold and move HITZ |
| Sovereign vault, `contracts/sovereign-vault/src/lib.rs` | pools (reserves, deviation, time), two timelocks, admin | `swap`, `quote`, `deposit`, `seed`, listing, upgrade, renounce | calls `transfer` of HITZ and of each listed asset |
| Magic links and reparations, `functions/api/auth`, `api/admin`, `_lib/reparation.ts` | KV: link tokens, one reparation record per email, the alert's key | login, verify, campaign post, redemption, alert | the sponsor account through `_lib/stellar.ts`, mail |
| Gateway, `functions/api/gateway`, `_lib/stellar.ts` | the sponsor's sequence number on chain | resolve, ensure-trustline, bootstrap, execute, notify: build, submit, poll | Stellar RPC, Horizon |
| Ingestion, `functions/_lib/ingest.ts`, `db.ts` | D1: events, contracts, transactions, cursors, pools, reserves, prices, snapshots | one cron run of eight steps | RPC, explorer and market APIs |
| Data endpoints, `functions/api/data.ts`, `holders.ts`, `_lib/cache.ts` | the edge cache | paged reads | D1, an external holder index |
| Sessions and keys, `jwt.ts`, `session.ts`, `derive.ts` | a cookie; an in-isolate key cache | derive, sign, verify | every endpoint |
| Browser app, `app` | wallet and protocol contexts, forms, the holder scene | session restore, refreshes, quotes, swaps, sends, sacrifices, contract calls | gateway, RPC, wallets, data endpoints |
| Campaign, report and backfill, `scripts` | a file of rows; caches on disk; a file of statements | one run each | admin endpoint, sponsor account, data endpoints, D1 |

`PROJECT.json` lists every part with its status. The behaviours that are hard
to get right are listed there under `hazards`, each at its line. In short:

* **Token.** A vault flag is written when an account is touched, but the limit
  it is compared with moves with every pool transfer, so stored flags are stale
  most of the time. `TotalMass` and `TotalSupply` are accumulators kept beside
  the balances. The registry is kept twice (keys and lists) and binds addresses
  to bytecode that its owners can change. Renouncing makes all of it permanent.
* **Vault.** Integer rounding of a product market, fees that depend on other
  pools' decaying deviations, two timelocks with different lifetimes.
* **Redemption.** Two workers, two KV calls apart, share a record; a payment is
  known only after up to 40 polls, and may land later or be forgotten.
* **Gateway.** Every user's transaction is paid from one account with one
  sequence number; accounts and trustlines are read in one request and created
  in another, and Horizon may not have seen what the ledger already has.
* **Ingestion.** Cursors and rows are stored in separate steps by cron runs
  that may overlap or stop halfway; what has to be rebuilt is remembered in the
  run's memory only.
* **Browser.** Timers, refreshes and handlers answer in any order while the
  account, the form, the pools and the cards on screen change.
* **Scripts.** The campaign spends the gateway's sequence number beside it; the
  report is put together from pages of different ages; the backfill writes the
  cron's own tables and cursors.

What makes each part correct:

| Part | Correct when |
|---|---|
| token | supply and mass are the sums they stand for; who may move HITZ follows from balances alone; exits are always open; drift is never silent; renouncing is final; upgrades are announced |
| square root | floor of the root, no overflow, always returns |
| vault | no pool's product of reserves falls; round trips lose; the books are covered; liquidity comes in at the pools' price and memory; both timelocks hold |
| redemption | each campaign pays each leg once; the record never claims a payment that was not made; no request alone takes back what it says was done; requests end |
| sign-in | a mailed link works until it is used, over or taken back by login, and nothing else does |
| gateway and sending | a success means what its caller relies on; what is reported as sent is on the ledger, for the right two people |
| ingestion | no cursor passes what is not stored; the traction card adds up; prices are what a computation from scratch gives; everything is caught up with in the end |
| browser | header, quotes, button results, holder scene and suggested sacrifice are true of what they stand next to |
| scripts | a clean exit served everybody; a quiet alert was heard; a report misses and repeats nothing; a backfill loses nothing |

## Modules

| Module | Models |
|---|---|
| `GravityToken` | the token contract |
| `GravityLaw` | abstract: what the token promises, on balances alone |
| `Timelock` | abstract: propose, wait, install |
| `NewtonSqrt` | `integer_sqrt`, one action per iteration |
| `SovereignVault` over `VaultMath` | the vault contract; its fixed-point arithmetic |
| `LegacyReparation` | verify requests, the KV record, the sponsor's payments |
| `EmailSignIn` | the sign-in form, login, the mail, the verify page and endpoint, the session cookie |
| `ReparationCampaign` | `scripts/send-legacy-reparation.mjs` and its reruns |
| `BalanceAlert` | `maybeAlertLowBalance` of several claims |
| `SponsorGateway` | the gateway's handlers on one sequence number |
| `SendPanel` (extends `SponsorGateway`) | `SendToEmail.tsx` and `callContract` |
| `WebSession` | `WalletContext.tsx` and `ProtocolContext.tsx` |
| `SwapPanel` over `SwapRoutes` | `SmartSwap.tsx`; paths, quotes and splits of `aggregator.ts`, `aqua.ts` |
| `SacrificePanel` | `SacrificeRitual.tsx` |
| `HolderEcosystem` | `useEcosystemData.ts`, `holders.ts` and the two caches between |
| `HolderScene` (extends `HolderEcosystem`) | `HolderEcosystem.tsx` and `scene.ts` |
| `AdminTools` | `AdminTab.tsx`, `TxButton.tsx`, the scenario cards, `buildAndSend` |
| `EventIngest` over `TractionModel` | cron steps 1, 2 and 8; the traction summary |
| `PriceIngest` over `PriceModel` | cron steps 3 to 7; the price and liquidity series |
| `PriceBackfill` | `scripts/backfill-prices.mjs` beside the cron |
| `EventReport` | `scripts/contract-report.mjs` as a reader of cached pages |
| `ReportContents` | `generateReport`: months, playbooks, lookups |
| `SumTheorems`, `*Proofs` | theorems; see Proofs |
| `MCGravityToken`, `MCEventIngest`, `MCPriceIngest` | constants of the runs |
| `MCContractParts`, `MCClaimParts`, `MCDataParts`, `MCAppParts` | several components in one run; see Runs |

### GravityToken

A Soroban call is a transaction: it runs to its end or leaves no trace. Each
entrypoint is therefore one action, whose guard is the conjunction of all
conditions under which nothing in it panics, helpers included. Variables
correspond to `DataKey`:

| Variable | Storage |
|---|---|
| `admin`, `renounced`, `pendingUpgrade` | `Admin`, `Renounced`, `PendingUpgrade` |
| `totalSupply`, `totalMass`, `poolList`, `routerList` | `TotalSupply`, `TotalMass`, `PoolList`, `RouterList` |
| `balance`, `vaulted`, `allowance` | `Balance`, `Vaulted`, `Allowance` |
| `approvedPools`, `approvedRouters`, `drift` | `ApprovedPools`, `ApprovedRouters`, `Drift`; `None` where absent |
| `code`, `live` | the token's own bytecode; what every address runs now (`ZeroHash`: no Wasm) |
| `sequence`, `timestamp` | `env.ledger()` |

Helpers keep the code's names (`SyncVaultFlag`, `ReadAllowance`,
`RegistryFinal`, ...). Two orders of the code matter and are kept: `transfer`
syncs the sender's flag before the gate and both flags after `TotalMass` moved,
while `burn` syncs before the gate only. The environment closes ledgers and
changes the bytecode of contracts at any time.

`CurrentLimit` uses the mathematical integer root; `NewtonSqrt` shows that the
code's loop computes it. Overflow of i128 is out of reach: `MAX_SUPPLY` times
10^7 is 10^22. The bytecode that `upgrade` installs is unknown; the model goes
on with this source's entrypoints after it. It starts from this version's
`initialize`: storage migrated from a version without the two lists is not
modelled.

The addresses that may be given to the registry, the grants that use allowances
and the amounts are constants, so that a check can choose interesting ones;
the theorems hold for any choice.

### GravityLaw and Timelock

`GravityLaw` has three variables: balances, pools, routers. It says who may
move HITZ without flags, accumulators or a root: an ordinary account above
sqrt(mass x Scale), mass being the sum of what pools hold, can send to pools
only. `GravityToken` implements it (`ImplementsGravityLaw`): the lazy flag is
as good as a flag recomputed for everyone at every step.

`Timelock` says that what gets installed was the one proposal for at least
`Delay` without interruption. The token's `code`, `timestamp` and pending
upgrade implement it (`ImplementsTimelock`, mapping `eta - UPGRADE_DELAY_SECS`
to the moment of the proposal), and so do both of the vault's clocks
(`AdminChangesAreTimelocked`: the code, and the last asset that got a pool).

### NewtonSqrt

`pc` is `start` (the two early returns), `loop` (the `while` test) or `done`.
`MaxWord` is the largest machine word.

### SovereignVault and VaultMath

Entrypoints are actions as in the token. `pools` is the sequence of listed
assets with reserves, deviation and its time; `held` is what the token contracts
say the vault owns, so that a gift moves `held` alone. `VaultMath` is the fee
curve on any scale (`One`, `Wad`, `MantissaBits`, ...): every truncation is where
the code truncates, so a coarse scale has the rounding of the fine one, larger.
An overflow in the weighting of `average_deviation` is not modelled; on a coarse
scale the code's remark that detours never pay cannot be told from rounding and
is not checked.

### LegacyReparation

One email, several verify requests. `pc[c]` is the await a request stands at;
everything between two awaits is one action:

| `pc` | Code |
|---|---|
| `idle` | before `MAGIC_LINKS.get(token)` (verify.ts:45) |
| `delete` | before `MAGIC_LINKS.delete` (verify.ts:48) |
| `read` | before `readReparation` (reparation.ts:178) |
| `prepare` | before the bootstrap (:196) |
| `load`, `submit`, `poll` | inside a payment: account load, `sendTransaction`, `pollForSuccess` |
| `persist` | before the write of the HITZ hash (:206) |
| `finish` | before the write of `redeemed` (:232) |
| `catch` | before the write of `failed` (:267) |

Every await may throw (`Throw`, `SubmitThrows`, `PollThrows`) and the worker may
be gone (`Vanish`). A payment is its transaction: leg, sequence number and the
request that built it first; two requests that build the same payment on the
same sequence number in the same second build the same transaction, hash
included. Transactions land in sequence order, or are dropped. `overlapped` and
`lost` are history: they record that two redemptions were under way at once,
and that a request ended without knowing or recording a payment that had landed
or still could.

Assumed: KV is one consistent store and a write that throws has not happened.
The record's TTL is a year, so it does not expire during the seconds of a
redemption.

### EmailSignIn, ReparationCampaign, BalanceAlert

`EmailSignIn` has one browser: the modal and the login it waits for, each login
request await by await (token stored, mailed, taken back when `sendMail` throws,
which it may also do after the mail was accepted, when only its answer is lost),
tabs that load the verify page with its effect run twice by StrictMode, verify
requests, the cookie with its expiry, `me` and `logout`. Time passes in ticks;
KV is exact.

`ReparationCampaign` works a file row by row: emails are posted, accounts are
paid HITZ and then XLM on the sequence number the gateway also uses; an answer
may be lost, a payment that polling gave up on may land later, the operator may
interrupt a run and start another on the same file. Parsing is abstracted to
what the branches tell apart (an amount is some, none or malformed).

`BalanceAlert` runs one alert per claim: balance, key read, key written, mail,
key dropped when the mail failed. The key's day does not end while an alert of
that day is under way.

### SponsorGateway and SendPanel

A handler of the gateway is a record with its place, what it read, the
transaction it built and its answer; other visitors' handlers run beside it.
Restoring archived entries, Horizon lagging behind the ledger, a sequence number
taken by another handler, and polling that gives up are steps of their own. A
late transaction stays in `txs` until it lands or expires. `SendPanel` puts the
panel's press on top: it keeps the account it was made with, while the user and
another tab change the connection and the cookie that `execute` signs for. The
panel's asset list is not modelled.

### WebSession, SwapPanel, SacrificePanel

React is modelled at the level of updates: a handler or an answer is one step,
together with the effects React runs after it. Requests under way are sets of
records that carry what they captured, so answers come in any order.
`WebSession` has the two restores, wallet events, connect, disconnect and the
refreshes with their sequence number. `SwapPanel` has the form, the two timers
and their sequence numbers, pool reloads, the swap, and the page going down when
`parseAmount` meets a text `BigInt` cannot read: typed, or written by
`formatStroops` with a separator (`GroupFrom` is the least amount that gets one).
Then the form and all that was under way for it are gone (`GoesDown`).
A search of `SwapRoutes` is up to eleven awaited rounds of RPC calls while others
trade, so each single quote is its own: the output at any of `Graphs`, or null when
the call fails (`HopQuotes`, `PathQuotes`). A search reads nothing else while it
runs, so the answer to it is any member of the set of all its results
(`Aggregates`, `CheapestInputs`), chosen when it arrives. `SacrificePanel` has the bisection
on the mass and balance the page read, the press, and the chain that judges the
transfer by those of its landing. Amounts are small numbers of whole tokens.

### HolderEcosystem, HolderScene, AdminTools

`HolderEcosystem` counts time in polls: an indexer that lags, an edge copy that
is kept `EdgeLife`, the page's copy that is kept `IndexRefresh`, balances and
events read at every poll. `HolderScene` adds React's state and the renderer's
own copy of it, reconciled frame by frame; orbit and size are the values they
depend on. A remount, WebGL failures and pausing of the loop are not modelled.
`AdminTools` has an accordion of cards, the buttons of the open one, and each
press from building to polling, with restores, on the account's sequence number;
a contract may refuse any call.

### EventIngest, PriceIngest and their models

A cron run is a record that goes from await to await; `fetch`, `store`, `move`
are the three steps of a page, and so on for the lookups and quotes. A step that
throws is abandoned and the next one starts; a run may end anywhere. `EventIngest`
takes an event's id for its place in `Log`; what the RPC forgets before anybody
asked is `lost`. The restart window of 100 000 ledgers is that retention floor;
the RPC is assumed not to forget an event of a page that is in hand. In
`PriceIngest` a point of a series is its provenance, the reserve rows and quotes
the code computes it from, not the float: two points are equal when the code
computes them from the same numbers. Registry changes come between runs, pools
are taken in the order of the registry.

### PriceBackfill, EventReport, ReportContents

`PriceBackfill` reads the events of every pool, computes its statements and
applies them one by one to the tables the cron also writes; the file may stop
anywhere and be run again. `EventReport` pages through answers that the edge may
have kept; a tick is the lifetime of a tail page, and full pages are assumed
never to be imported again. Its table is a length because rows appear in order
and without a hole, which is `EventsBehindCursor` of `EventIngest`.
`ReportContents` classifies the transactions of a month by playbooks tried in
order, with roles, creators and envelopes whose lookups may fail one by one. A
transaction's entry keeps what is said of it: its group, its initiator as far as
known, and the mode of its submission.

## Runs

| Run | Question | Bounds | States |
|---|---|---|---|
| `token_ledger` | supply, mass, flags, exits, the gravity law | 4 addresses: an ordinary one, one that may be pool and router, a pool, a router; amounts 0-2, cap 6, Scale 2; one grant; 2 ledgers | 83 472 |
| `token_governance` | registry, drift, allowances, renouncing, timelock | 2 addresses, each may be pool and router; one of them a contract over 2 hashes; cap 1; delay 2 over 4 ledgers | 606 804 |
| `contract_parts` (`MCContractParts`) | the root: floor, no overflow, termination; the vault: product, rounding, books, timelocks | every argument from -3 to 1023; one asset from the start, one listed later; `One` = 100, `Wad` = 1000; delay 3 over 3 ticks | 102 914 |
| `reparation` (`MCClaimParts`) | redemption, sign-in, campaign, alert | 2 requests, 1 token at a time, 2 campaign posts, 1 foreign payment; 2 logins, 2 tabs, 2 ticks; 3 files of up to 3 rows, 2 script runs, 1 gateway payment; 2 claims | 1 074 231 |
| `event_ingest` | cursors, traction, catching up | 2 overlapping cron runs, 3 events in pages of 2, one of which the RPC may forget, 1 fault | 306 321 |
| `price_ingest` (`MCDataParts`) | prices, backfill, the report's rows and contents | 2 pools, 4 updates, 1 fault; 4 pool events, 2 fills, 3 cron steps; 3 rows in pages of 2, 3 ticks; 4 months of up to 8 events | 2 079 451 |
| `app_parts` (`MCAppParts`) | what the page shows | sending: 3 accounts, 1 visitor beside, 3 transactions, 1 press, 1 switch; session: 2 wallet accounts, 2 events; swap: 3 pools of 3 tokens, each quote at 2 graphs or null, splits in halves, 2 registries, 3 edits; sacrifice: 3 moves; holders: 2 addresses, 5 polls, 1 change; scene: 5 frames; tools: 2 presses, 2 toggles | 2 208 791 |
| `reparation_overlap`, `reparation_retry`, `link_double_click`, `link_bounced`, `ingest_lost_change` | see Findings | smaller instances | violated |

The four `...Parts` modules run several components under one configuration. A
variable `part` is chosen at the start and says which component moves; the
others keep their initial state (in `MCContractParts` the vault starts once the
root of 0 is returned). This is no interleaving of the parts, and none
is needed: they share no state in the models. Where the code lets two components
touch the same row, one module has both sides (the cron inside `PriceBackfill`,
the gateway's payments inside `ReparationCampaign`, other visitors inside
`SendPanel`).

Why these are enough to be interesting:

* `token_ledger`: with Scale 2 and a cap of 6 the limit takes the values 0 to 3,
  so balances are below, at and above it, and it falls and rises under a stored
  flag. The address `b` passes through every role and back.
* `token_governance`: two hashes and the zero hash give an approved, a changed,
  an undeployed and a redeployed contract; the delay of 2 with 4 ledgers lets a
  proposal be replaced halfway, and installed.
* `contract_parts`, the root: 1023 = 2^10 - 1 stands for 2^127 - 1. All perfect
  squares up to 31^2 and their neighbours are arguments, and so is the largest word, where
  the first sum comes closest to overflowing.
* `contract_parts`, the vault: one asset trades and decays while the second is
  proposed, waits, is listed, seeded and traded, so fees depend on another pool's
  deviation, and a proposal can outlive or be dropped by a renounce.
* `reparation`: two requests are enough for overlap and for a retry; a third
  would add a second retry. Foreign traffic makes a loaded sequence number
  stale. Two tabs and two ticks let a link be opened twice, and die while asked
  for.
* `event_ingest`: two runs overlap at every await; three events make a full and
  a short page, and the enrichment window ends between them.
* `price_ingest`: one pool trades and is drained, the other has no market quote;
  an hour in progress is rebuilt when it ends. Three report rows make a full
  page that was once a tail.
* `app_parts`: two events are enough for a restore that is overtaken by a
  connect or a disconnect; five polls outlive both caches.
  Three edits are enough for a type, a flip and a retype, or for a registry that
  changes under a reload. Each pair has a direct path and a bridge,
  so that there is something to split; one split, in halves, instead of nine gives
  the search its two rounds. Two graphs and null let the rounds disagree. An input
  of 14 has a separator, so that found inputs fall on both sides of it.

All runs but `event_ingest` set `CHECK_DEADLOCK FALSE`: their ledgers, presses
or events are bounded, a page may be down, `integer_sqrt` returns, and requests finish.

Each property of a passing run has a mutant, an operator that changes one
definition as a plausible bug would, under which TLC finds the property violated.
Mutants stand directly before the definition they change.

### What the runs show

`token_ledger`
: the accumulators equal the sums they stand for (`AccumulatorsAreSums`);
  nobody is locked in: within the limit or into a pool, any part of a balance
  can be sent, and no underflow panic ever stops it (`ExitOpen`); no pool or
  router is ever vaulted and flags are right when written (`FlagsAreSound`) and
  good enough when read (`ImplementsGravityLaw`).

`token_governance`
: lists, keys, drift records and final bindings agree (`RegistryIsSound`);
  renouncing freezes everything (`RenouncedIsFinal`); drift is recorded by the
  call that meets it, once per new bytecode (`DriftIsRecorded`); allowances pay
  for what moves, for unchanged spenders (`SpendsAreCovered`);
  `ImplementsTimelock`.

`contract_parts`
: the root: its floor, without a panic (`ComputesFloorOfRoot`), and `Terminates`.
  The vault: reserves are covered by what the vault owns, one pool per asset
  (`BooksBalance`); swapping there and back, over one hop or two, loses
  (`RoundTripsLose`); no call lowers a product of reserves (`KNeverDecreases`);
  a deposit dilutes nobody and forgets no deviation, a seeding starts within the
  others' deviations (`LiquidityComesInFairly`); both clocks are timelocks and
  what is renounced stays so (`AdminChangesAreTimelocked`).

`reparation`
: the record names only payments that landed and a redeemed one all of them,
  and without overlap or lost outcome each leg is paid once per campaign post
  (`RecordsMatchPayments`); a leg's hash and the status redeemed stay in the
  record, in every step, unless a request goes on that overlapped another and
  whose copy is no longer the record (`ProgressStays`); requests end
  (`RequestsEnd`). No token lives that nobody was sent; no load of the page uses
  up the link it then refuses; and a refused link is over for one of three
  reasons: time, another load that got the token, or a login that took it back
  (`LinksAreTrue`). That the last may be of a link the user holds is a finding. A campaign that exits clean
  served every row, and no XLM leg lands before its HITZ (`CampaignIsSound`).
  While the alert is quiet, one was mailed or is on its way (`QuietAfterAlert`).

`event_ingest`
: neither cursor passes what it stands for (`CursorsKeepTheirPromise`);
  `TractionAddsUp`; everything that can be had is stored and enriched in the end
  (`EventuallyCaughtUp`).

`price_ingest`
: pool cursors pass nothing unstored (`ReservesBehindCursor`); stored hours are
  final and none is left out (`QuotesSettle`); without faults the incremental
  rebuild is the computation from scratch (`CleanRunsAreCurrent`); a backfill
  beside the cron loses nothing (`BackfillLosesNothing`); a report reads every
  row once (`ReportHasNoHole`), explains every transaction once, and what its
  headings and lines say of an initiator is so whatever lookups failed, with one
  exception: a routed swap of unknown envelope, its mode "n/a", is filed as direct
  (`ReportIsComplete`; see Findings).

`app_parts`
: a quote belongs to the amount, direction, pair and pools beside it; its legs
  spend exactly that amount, share no pool, and were all answered
  (`QuoteMatchesForm`). It is not the best there is: the rounds of a search see
  different reserves, and the baseline is quoted after it.
  The header tells of one session and its balance (`HeaderIsTrue`);
  a gateway success is what its caller relies on
  (`OkMeansReady`); a transfer reported as sent landed, between the right two
  people (`ReportedTransfersLanded`); a button's success landed and its failure
  never will (`ResultsAreTrue`); a new holder appears (`NewcomersAppear`), a
  holder's last move never goes back (`ActivityNeverRewinds`), the scene is what
  React holds (`SceneMatchesPage`); the suggested sacrifice frees, and nothing
  smaller does (`SuggestedSacrificeFrees`).

### Fairness

* `NewtonSqrt`: weak fairness of the next step. A contract call is executed by
  the host until it returns.
* `LegacyReparation`: weak fairness of each request's code, started requests
  only. KV and RPC calls answer or throw, and polling stops after 40 tries.
  Nothing is assumed of the network, of links, of new requests or of the loss of
  a worker.
* `EventIngest`: weak fairness of each run's steps, the start of the next cron
  run included, and of the chain emitting the rest of the history. Faults are
  bounded: the property speaks of the time after the last of them.
* all others: none; they state safety only.

### Findings

1. `reparation_overlap`: reparation.ts:34-37 says that concurrent calls
   serialise at KV and that the loser bails out before a second transfer. The
   code reads the record at :178 and writes at :206 and :232 without any
   condition. Both calls pay.
2. `reparation_retry`: reparation.ts:25-27 says retries never pay a leg twice.
   A payment that lands after polling gave up (stellar.ts:223), or whose write
   (:206) never happened, is paid again.
3. `link_double_click`: verify.ts:47 says a double click cannot reuse a link.
   Lookup and deletion are two KV calls; two requests can both pass the lookup.
4. `ingest_lost_change`: ingest.ts:4-6 says that what is left over is picked up
   by the next run. A run that stored its rows and ended before the rebuild
   leaves a price snapshot that the next, complete run does not touch, because
   it finds nothing new (ingest.ts:72-75).
5. `link_bounced`: login.ts:60-61 takes a token back "if we couldn't deliver".
   `sendMail` also throws when the answer to an accepted mail is lost; the user
   then opens a fresh link that is called expired or already used.
Met while modelling, not stated as runs of their own. The first four are as in
the models, whose properties name them as exceptions or promise no more:

* README.md:230-235 (of `frontend`) says a redemption that fails keeps the hashes
  that landed. It writes the copy it read at its start (reparation.ts:257-266), so
  that a hash another request recorded meanwhile is erased. `ProgressStays` says
  that this is the only way to lose one.
* contract-report.mjs:302 says of the group of direct swaps that the users submitted
  "without a fee bumper". Its test (:299) also holds for an envelope that could not
  be looked up, so that a swap a relay bumped is there: the exception of
  `ReportIsComplete`.
* SmartSwap.tsx:294-295 lets the forward aggregator take over from the input found.
  From 1000 on `formatStroops` writes it with a separator (swap.ts:59-61), the
  forward effect's `parseAmount` throws (SmartSwap.tsx:256, swap.ts:45), and nothing
  catches what an effect throws: the page goes down (`ReverseArrives`).
* aggregator.ts:242-243 says the single-path baseline was already computed by the
  optimiser. It is quoted again (:244), so that it may be of other reserves, or 0
  when those calls fail; `handleSwap` derives the least output it accepts from it
  (SmartSwap.tsx:414), which is 0 in that case (`Aggregates`, `HandleSwap`).
* `pollForSuccess` says of its 40 tries "missing past that, we return" and throws
  (stellar.ts:209-223); the sender sees an error while the transfer may land.
* The `Drift` comment "Present = drifted" (lib.rs:108-112) does not hold after
  the contract went back to its approved bytecode, when the record stays.
* send-legacy-reparation.mjs:399-402 says a partial failure "doesn't double-pay
  HITZ on rerun"; a rerun transfers HITZ again. A malformed XLM amount on an
  account row fails after its HITZ was sent, and a rerun overwrites a redeemed
  record with a pending one (reparation.ts:94-96).
* The report tests `e.data === true` (contract-report.mjs:664-675, 830) where
  `PoolRegisteredEvent` and `RouterRegisteredEvent` publish a map, so it never
  learns of registered pools or routers.
* Two claims can both mail the low-balance alert; a delete that fails silences
  it for a day.
* A late quote lands on a form that was emptied or flipped (and is not shown
  beside another amount); a late reverse answer overwrites a retyped input, and
  the other way round. `reverseLoading` stays on when the pay field is edited
  before the reverse timer fires. `handleSwap` runs the largest leg alone, with
  the whole amount and the `minOut` of the best path, and may revert. `getAmountInForPath` may return an
  input that under-delivers where its comment says null.
* What is typed into an amount field is not checked either: a letter or a
  separator throws in the same effect and takes the page down.
* WalletContext says "whichever resolves first wins"; the last answer does.
  After a failed refresh the previous account's balance stays on screen until a
  later one; a failed balance read shows 0 with no error.
* The wallet's polls (app/lib/stellar.ts) have no bound when a transaction
  expires.
* The holder page says "index unreachable" also while an older listing serves,
  labels of an older answer may overwrite newer ones, and scene.ts:303's "every
  flash on screen is a real ledger write" forgets the sliders and the limit.
* ProtocolGrowth's "race-safe fetch" (ProtocolGrowth.tsx:27) lets the list of a
  later refresh be replaced by the answer of an earlier one.
* The cron's `setCursor` may move a pool cursor back behind the backfill's
  (db.ts:57); rows are then walked again and ignored.

## Proofs

Eight modules hold the theorems; `PROJECT.json` lists those a reader should know
of. Each component follows the same plan: an inductive invariant, one lemma per
group of actions with one step per action and one per conjunct the action can
disturb, and the properties from the invariant. All hold for every value of the
constants under the named assumptions of the model's module.

| Module | Components |
|---|---|
| `SumTheorems` | lemmas about sums over finite sets and about loops, for the others |
| `GravityTokenProofs`, `NewtonSqrtProofs` | the token with its law and timelock; the root |
| `SovereignVaultProofs` | the vault, its fixed-point maths and its timelocks |
| `ClaimPartsProofs` | redemption, campaign, alert, sign-in |
| `EventIngestProofs` | the events' and the enrichment's cursors; traction |
| `DataPartsProofs` | report pages and contents, price backfill, price ingestion |
| `AppPartsProofs` | contexts, gateway and send panel, swap quotes, holder page and scene, admin tools |

### SumTheorems

The sums of the model are `SumFunctionOnSet`, a fold the library defines as the
unique solution of a recursion. Induction theorems take an operator the provers
cannot instantiate, so the lemmas argue by the least counterexample: of the
numbers at which a statement about a *set of values* fails there is a smallest
(`LeastNatural`), and a step leads below it. `LoopTheorem` says for any step
function with a measure that counts down that the recursive function over it
exists and satisfies its equation; `LoopInduction` that a set its steps stay in
holds its results; `WhileTheorem` and `WhileStaysIn` say the same of a loop that
runs while a condition holds. From these come the laws of sums (`SumRemove`,
`SumChange`, `SumAdd`, `SumScale`, `SumMonotone`, `SumUnion`, `GroupsAddUp`), and
what the loops of `VaultMath` and of the panel return. The steps of Newton's root
(`MeanSquare`, `IterateAboveRoot`, `StopsAtRoot`) serve the token's root and the
panel's.

### GravityTokenProofs

    THEOREM Invariance == Spec => []IInv

    IInv == TypeOK /\ IndexMatchesRegistry /\ InfrastructureNeverVaulted
            /\ DriftOnlyOnRegistered /\ FinalRegistryIsBound /\ RenouncedKeepsAdmin

The conjuncts need each other. `FinalRegistryIsBound` says something about every
registered address while `renounce_admin` looks at the lists, so it needs
`IndexMatchesRegistry`, and that nothing registers after renouncing, so it needs
that the admin is kept (`RenouncedKeepsAdmin`: otherwise `initialize` would open
the role again). `ListRemove` removes one occurrence only, so the index needs
injectivity. `TypeOK` carries the ranges arithmetic needs: that mint stays
within the cap, and that balances and mass stay natural under the guards. From
the invariant follow `RegistrySound`, the action properties `RenounceFinality`,
`DriftAlwaysRecorded`, `SpendsCovered` and `FlagsSound`, and the refinement
`TimelockRefinement`.

`AccumulatorsCorrect`: each entrypoint changes at most two balances and the
registration of one address, and `SumChange` says what that does to both sums;
the invariant adds that nothing is held before `initialize`. `ExitAlwaysOpen`
follows: a pool's balance is one summand of `totalMass`, so the subtraction on
the way out cannot underflow.

`GravityLawHolds`: every step is a step of the law on balances alone. Its core is
`LimitLemma`: b <= floor(sqrt(n)) iff b^2 <= n, so the code's comparison with a
rounded root is the law's comparison of squares. That the root exists
(`RootLemma`) is proved by taking the least r whose successor squared exceeds n.

### NewtonSqrtProofs

`SqrtComputesFloor` holds for every word of at least 4 and every argument. The
invariant says that the iterate never falls below the root (n < (x+1)^2), starts
at n/2 + 1 and that y is the next Newton step; then ~(y < x) forces x^2 <= n. The
step above the root is the arithmetic-geometric mean inequality (`MeanSquare`).

### SovereignVaultProofs

First the maths: for any scale, `Log2`, the series of the logarithm and of the
exponential and the power by squaring end and return what the vault needs, in the
end that a fee lies between floor and cap (`FeeInRange`), hence below one. That is
all the safety of a trade rests on, not the shape of the curve. `ProductGrows`
says a hop with such a fee keeps the pool's product, `BackPaysLess` that the
proceeds of a hop, or less, sold back pay less than it cost; over two hops the
second is undone before the first (`RoundTrip`).

    VaultInv == TypeOK /\ PoolsOK(pools, now) /\ Covered(pools, held)
                /\ NothingOutlives /\ Len(pools) >= Len(InitialAssets)

`PoolsOK` has one pool per asset and no deviation from the future; `Covered` the
reserves covered by what the token contracts hold, all HITZ of the pools by one
balance; `NothingOutlives` that what is renounced has no proposal left. It gives
`BooksAlwaysBalance`, `RoundTripsAlwaysLose` and `ProductsNeverShrink`;
`LiquidityAlwaysFair` with `AverageInside` (a weighted average, truncated, lies
between the extremes); and `AdminChangesAlwaysWait`, two refinements of
`Timelock` with `Len(InitialAssets)` telling listed assets from first ones.

### ClaimPartsProofs

`LegacyReparation` needs four invariants, for any number of requests, links and
transactions.

* `Known`: types, and what a request at each `pc` may hold; every hash in the
  record, in a copy or in a local landed, for its own leg. It gives
  `TrueMarkers`.
* `Sole`: while redemptions have not overlapped, at most one request redeems, so
  the copy it holds is the record it will overwrite.
* `Informed`: in that case the request also knows of every leg the record says is
  paid, so that what it writes, failed or redeemed, keeps those hashes. With `Known`
  (what a request knows extends its copy, overlaps or not) it gives
  `ProgressIsKept`: a write from a copy that still is the record keeps what the
  record shows, and one from another copy takes a second request.
* `Ledger`: while neither overlap nor loss happened, there is a campaign post
  for every payment of a leg that landed or may still land, for every leg a
  request is about to pay, and for every leg the record lets the next request
  pay; and a request that failed leaves no payment it does not know of. It gives
  `PaysOnce`; `RecordsAreRight` joins it with the first.

`CampaignSound` follows from `CampaignInv`: every row the script has passed is
served, unless the run is already marked failed, and a row at its XLM leg has its
HITZ landed, which a payment still under way or put off never counts as.
`NoSilence` is inductive with its type invariant, since whoever sets the key is
the one that mails or drops it, and a claim that drops another's key only makes
the alert louder.

`LinksStayTrue`, from `SignInInv`: a token is stored by a login before it is
mailed, and one that is no longer stored is over, was used by a tab, or belongs
to a login that took it back after `sendMail` threw, mailed or not; so a tab that
is refused has another load of the page to blame, the clock, or that login
(`UsedInv`).

### EventIngestProofs

`CursorsArePromises` follows from `IngestInv`, for any history, page sizes,
budgets and number of overlapping runs: a page in hand starts at a place the
cursor had, so what lies before it is stored or lost; rows stored from it are
contiguous with what is there; and the enrich cursor of a run stops before the
first event whose needs it has not seen met. `TractionAlwaysAddsUp` is about the
summary alone: newcomers by month, by channel and by window are partitions of the
same people, balances by role and flag one of all balances (`GroupsAddUp`).

### DataPartsProofs

`NoHole`, from `ReportInv`: every answer still fresh at the edge is one the table
gave, and a short one that is fresh covers all rows older than a tail page's
lifetime.

`BackfillIsSafe`, from `BackfillInv`: whoever moves a cursor, backfill or cron,
moves it to the end of a page it has stored, contiguous with the cursor it read;
the backfill writes its statements in order, and one that stopped in between
leaves cursors behind rows, never ahead.

`ReportAlwaysComplete` needs no invariant beyond the store's form, for a report is
written in one step; the work is in what that step computes. Some playbook fits
every transaction, for the last fits all, and the one chosen has the least place
(`FirstFits`): so one that borrowed is a flash loan whatever else it is, and the
headings of owners and of third parties' fee bumps are what their guards ask of
what a cache *knows* (`NarrationIsTrue`). A line tells of an initiator and a mode
only what a known envelope says (`LineOf`); where it is not known the mode is
"n/a", and there alone the heading of direct swaps may be wrong. The playbooks part the month's transfers first by transaction
and then by group, and a sum over the parts is the sum of the whole (`SumGroups`,
`TotalsAddUp`). A flip is in the count behind its row (`RowsAreFlips`).

`CursorsCoverTheStored` has the cron's `ReserveInv`: any number of overlapping runs
may be at a page or between its rows and the cursor, and each stands where
everything before it is stored. `QuotesAlwaysSettle` needs `QuoteInv`: while no two
runs have overlapped, only one is under way (`Alone`); between two stored hours
every hour with trades is stored with its final average (`QuotesFit`); the run goes
on from a place no stored hour lies after, and the page it holds leaves no hour out
before its last (`Resumes`). Only the hour the clock shows may be stored with an
average that still moves, and the next refresh starts there.

`CleanRunsAlwaysCurrent`, from `CurrentInv`: the earliest hour a run knows to have
changed (`Least` of `changed` and `fresh`) bounds what its pages have changed in the
tables, so that both series have the point of every touched hour before it
(`RightUntil`). This takes that rows come in the order of time (`ChainOrdered`,
`RowsAdded`), that a point depends on nothing after its hour (`PointKept`), that a
newly active pool has no rows and adds no quote (`TablesRight`), and that the rebuild
replaces the series from that hour on (`MergedHas`). While a rebuilt series waits
to be stored it is right as a whole (`RunRight`), new updates and ticks
notwithstanding: they are in no table yet.

### AppPartsProofs

* `HeaderTrue`, from `RefreshInv`: every refresh under way has its own number,
  none above the newest; what is shown after the newest ended well is its own
  answer; and the three values of the session are one session's.
* `SuccessMeansReady`, from `GatewayInv`: every transaction that landed had its
  effect, and no handler passes a place in its code without what it has seen
  there (`Sound`, one line per place). Accounts and trustlines are never taken
  back (`Gains`), so what one handler saw survives all others, late Horizon
  answers included.
* `ReportsAreTrue`, from `PanelInv` on top of it: the request the panel waits for
  still has the source and the recipient of the press, and a later session cannot
  change either.
* `NewcomersAlwaysAppear` and `ActivityOnlyGrows`, from `EcosystemInv`: how far
  the edge cache may lag behind the ledger (`EdgeLag`), the page behind the edge
  (`PageLag`), that an address overdue is known to one of the two (`Overdue`),
  and that no date on the page is newer than the ledger's (`Dated`).
* `SceneShowsPage`, from `StageInv`: each body was drawn for its holder in the
  present order (`WellDrawn`), and nothing is selected or hovered that has no body
  (`Follows`); a scene that is not mounted keeps nothing to be shown later.
* `ToolResultsTrue`, from `ToolsInv`: presses are numbered, a number is at most
  once on the wire, and a poll that answers tells of the press it belongs to
  (`ShownIsTrue`).
* `SuggestionsFree`, from `RitualInv`: the panel's Newton loop returns the floor
  of the root (`IsqrtIsFloor`), so what it calls feasible is what the token calls
  free (`FeasibleIsFree`); feasibility is monotone in the amount (`FeasibleGrows`),
  hence the end of the bisection is feasible and the amount below it is not
  (`BracketIsTight`), and no smaller amount is (`SuggestionIsLeast`).
* `QuoteAlwaysMatches`, from `SwapInv`: a quote on screen, the armed timer and the
  one answer under way that still bears the newest sequence number are all keyed
  by the form (`PanelHolds`), and each state update with its two effects keeps it
  so (`RenderHolds`): what no longer fits gets a new number, loses its timer or
  clears the quote. That the quote is sound (`AggregateIsSound`) rests on the
  routes, whatever each call answers: they are distinct (`PathsAreDistinct`), so no
  two share a hop (`PathsShareNoHop`), a path without a quote gets no share, and
  each split spends the whole amount (`DistributionSpreads`, by `FoldRun` of
  `SumTheorems`).

### What was changed in the models to reason about them

Sums are written `SumFunctionOnSet`, a route's hops one after the other, the loops
of `VaultMath` as recursive functions over their variables, the paths and splits of
`SwapRoutes` as folds and the stable sort by its foremost element; a report tells
its events apart by their places in the store, no longer by filtered sequences. The
assumptions gained what the code's types say and TLC had by its instances: the
addresses are finite in number, balances and amounts natural, a `vaulted` event true
or false, initial ledgers and pools well-formed, `None` none of the records or
series it stands in for.

### Model-checked only

* liveness (`Terminates`, `RequestsEnd`, `EventuallyCaughtUp`), which is out of
  the prover's reach;
* the properties that the five runs with a finding refute.

## Plan

Done: the token with its law and timelock, the root, the vault, the redemption
and sign-in, campaign and alert, the gateway with its panels, the contexts, the
holder scene and tools, ingestion of events and prices, report and backfill; and
the theorems above.

1. `VaultOnGravity`: the vault registered as a pool of the token: reserves
   against HITZ balance, mass against reserves, vaulted sellers, payouts when
   its registration lapses.
2. Two overlapping runs of the price steps, and the cron with a backfill on all
   tables at once.
3. Token storage migrated from the version without lists, as a second `Init`.

## Not modelled

`PROJECT.json` gives the reason per component. The parts left out are
presentation (charts, cards that show one read, copy, layout), mail texts,
`deploy.sh` and `migrate-to-d1.mjs`, which are run once on a system at rest, and
the vault backtest, which is offline research in floating point. Of the modelled
parts:

* token: metadata, events other than drift, storage TTLs; vault: views, events,
  authorisations, TTLs, overflow in the weighting of deviations;
* redemption: amounts, and the notifications after a claim;
* gateway: fees, XDR, the read-only `balances` and `sponsor`; transactions are
  told apart by account, sequence number and content;
* ingestion: parsing, D1's chunking, overlapping price steps, the fee and depth
  arithmetic; lookups that fail count as faults, the traction summary's read and
  write are one step, a liquidity change that was lost heals with the next hour;
* session: the connecting and loading flags; the key cache, where a rejected
  derivation stays (only a malformed secret causes one); signatures are exact;
* swap: token metadata and display reserves, the 60-second pool cache, the probe
  for the price impact, which is only shown; sending:
  its asset list; sacrifice: the list of pools; tools: the forms' own checks and
  the address check of ProtocolGrowth;
* holders: reads of more than 200 keys are one step; unmounting; scene: remount,
  WebGL, the render loop's pauses;
* report: wording, the ten busiest addresses, the daily chart; backfill: the
  arithmetic of the series, pool labels and the `active` flag.
