------------------------------ MODULE PriceIngest ------------------------------
(***************************************************************************)
(* The cron's way from pool events and market prices to the price and      *)
(* liquidity snapshots, functions/_lib/ingest.ts steps 3 to 7.  It shares  *)
(* nothing with steps 1, 2 and 8 (EventIngest) but the runner: a step that *)
(* throws is abandoned and the next one starts.                            *)
(*                                                                         *)
(* What a run learns about the earliest hour that changed lives in its     *)
(* memory: fresh inside a step, changed once the step has returned.        *)
(***************************************************************************)
EXTENDS PriceModel, Sequences, TLC

CONSTANTS
    None,
    Reserves,                 \* pool -> its reserves after each update, in order
    Run,                      \* runs of the cron that may overlap
    PoolLimit, PoolPages,     \* records a page, pages a run
    QuoteLimit, QuotePages,
    Windows                   \* of the volume figures, in hours

\* Where the environment stops: bounds of a check, not of the code.
CONSTANTS MaxFaults, MaxTime, MaxTrades,
    InitialPools, Removable   \* pools registered at first, and removed later

ASSUME PriceAssumption ==
    /\ QuoteOf \in [Pool -> Quote \cup {Usd, Unpriced}]
    /\ \A p \in Pool : Reserves[p] \in Seq(Nat \X Nat)
    /\ {PoolLimit, PoolPages, QuoteLimit, QuotePages} \subseteq Nat \ {0}
    /\ Windows \subseteq Nat /\ {MaxFaults, MaxTime, MaxTrades} \subseteq Nat
    /\ MaxTrades # 0 /\ InitialPools \subseteq Pool
    /\ None \notin Nat

Hour == 0..MaxTime

\* The points of hours, and the series they make up; null is none of them.
Points == UNION {[ps -> Nat \X Nat] : ps \in SUBSET Pool}
Series(hours) == UNION {[hs -> Points] : hs \in SUBSET hours}

ASSUME NoneIsNoSeries == \A hs \in SUBSET Hour : None \notin [hs -> Points]

VARIABLES
    now,
    registered,               \* what list_pools answers
    chain,                    \* pool -> the hours of its updates so far
    market,                   \* quote -> hour -> its average so far; 0 without trades
    pools,                    \* the pools table: pool -> "absent", "active", "inactive"
    reserves,                 \* pool_reserves: pool -> updates stored
    cursor,                   \* pool -> the `pool:` cursor, 0 without one
    quotes,                   \* quote_prices: quote -> hour -> price
    hourly,                   \* price_hourly: hour -> point
    snapshot,                 \* the price snapshot: None, or hour -> point
    liquidity,                \* the liquidity snapshot, None at first
    run,                      \* what each run has in memory
    faults,
    mishaps,                  \* what ever happened of "failure", "overlap", "removal"
    settled                   \* the last run to end did all of its work, alone

world    == <<now, registered, chain, market>>
sources  == <<pools, reserves, cursor, quotes>>
products == <<hourly, snapshot, liquidity>>
history  == <<faults, mishaps, settled>>
vars     == <<world, sources, products, run, history>>

Least(a, b) == IF a = None THEN b ELSE IF b = None THEN a ELSE Min({a, b})
NoHours == <<>>

\* The rows of a table by hour, after those of a page have been stored.
InsertOrReplace(table, page) ==
    [h \in DOMAIN page \cup DOMAIN table |-> IF h \in DOMAIN page THEN page[h] ELSE table[h]]

Active == {p \in Pool : pools[p] = "active"}
Row(p, i) == [id |-> i, ts |-> chain[p][i],
              hitz |-> Reserves[p][i][1], quote |-> Reserves[p][i][2]]
Rows == [p \in Pool |-> {Row(p, i) : i \in reserves[p]}]

-----------------------------------------------------------------------------
(* 3 and 4. Registry and reserves.                                         *)

\* The memory of a run at the start of a step.
AtStep(pc, changed, clean) ==
    [pc |-> pc, changed |-> changed, clean |-> clean, fresh |-> None,
     todo |-> {}, upTo |-> None, at |-> None, pages |-> 0,
     page |-> NoHours, prev |-> None]

\* syncQuotes reads the clock once, and goes through the active pools' quotes.
AtQuotes(active, changed, clean) ==
    [AtStep("quotes", changed, clean) EXCEPT
        !.upTo = now, !.todo = {QuoteOf[p] : p \in active} \cap Quote]

Reset(r, memory) ==
    run' = [run EXCEPT ![r] = memory]

\* Mutant: what the pools changed is not passed on.
Forget(changed, fresh) == changed

\* What a step that returns adds to what the run knows.
Bump(changed, fresh) == Least(changed, fresh)

\* Pools and quotes are gone through in the order of their table, whatever it is.
Turn(todo) == CHOOSE x \in todo : TRUE

\* Out of a step when nothing is left to do in it.
ToQuotes(memory) ==
    IF memory.todo # {} THEN [memory EXCEPT !.pc = "quotes"]
    ELSE AtStep("price", Bump(memory.changed, memory.fresh), memory.clean)

ToReserves(active, memory) ==
    IF memory.todo # {} THEN [memory EXCEPT !.pc = "reserves"]
    ELSE ToQuotes(AtQuotes(active, Bump(memory.changed, memory.fresh), memory.clean))

\* A run starts with the registry: new pools are inspected, and one that cannot
\* be is left for the next run; then every known pool is marked as registered
\* or not.  Slots are taken in order: which one a run has does not matter.
StartRun(r) ==
    LET alone == \A q \in Run : run[q].pc = "idle" IN
    /\ run[r].pc = "idle"
    /\ \A q \in Run : q < r => run[q].pc # "idle"
    /\ \E missed \in SUBSET {p \in registered : pools[p] = "absent"} :
          /\ missed # {} => faults < MaxFaults
          /\ faults' = IF missed = {} THEN faults ELSE faults + 1
          /\ pools' = [p \in Pool |->
                IF p \in registered \ missed THEN "active"
                ELSE IF pools[p] = "absent" THEN "absent" ELSE "inactive"]
    /\ run' = [q \in Run |->
          IF q = r THEN ToReserves(Active', [AtStep("reserves", None, alone) EXCEPT
                                                !.todo = Active'])
          ELSE [run[q] EXCEPT !.clean = FALSE]]
    /\ mishaps' = IF alone THEN mishaps ELSE mishaps \cup {"overlap"}
    /\ settled' = FALSE
    /\ UNCHANGED <<world, reserves, cursor, quotes, products>>

EarliestHour(ids, p) == IF ids = {} THEN None ELSE chain[p][Min(ids)]

\* One page of one pool, from the cursor on; its rows are immutable, so the
\* insert ignores those another run has stored.
FetchReserves(r) ==
    /\ run[r].pc = "reserves"
    /\ run[r].todo # {}
    /\ LET p    == Turn(run[r].todo)
           from == IF run[r].pages = 0 THEN cursor[p] ELSE run[r].at
           last == Min({Len(chain[p]), from + PoolLimit})
           ids  == (from + 1)..last
       IN  /\ reserves' = [reserves EXCEPT ![p] = @ \cup ids]
           /\ Reset(r, [run[r] EXCEPT
                 !.pc = "poolCursor", !.at = last,
                 !.pages = IF Cardinality(ids) = PoolLimit THEN @ + 1 ELSE PoolPages,
                 !.fresh = Least(@, EarliestHour(ids, p))])
    /\ UNCHANGED <<world, pools, cursor, quotes, products, history>>

\* Mutant: the cursor of a full page moves to the newest event.
MoveToNewest(r) ==
    LET p == Turn(run[r].todo)
    IN  /\ run[r].pc = "poolCursor"
        /\ cursor' = [cursor EXCEPT ![p] = Len(chain[p])]
        /\ Reset(r, ToReserves(Active, [run[r] EXCEPT !.todo = @ \ {p}, !.at = None, !.pages = 0]))
        /\ UNCHANGED <<world, pools, reserves, quotes, products, history>>

\* On to the next page, the next pool, or out of the step.
MovePoolCursor(r) ==
    LET p == Turn(run[r].todo)
        more == run[r].pages < PoolPages
    IN  /\ run[r].pc = "poolCursor"
        /\ cursor' = [cursor EXCEPT ![p] = run[r].at]
        /\ Reset(r, IF more THEN [run[r] EXCEPT !.pc = "reserves"]
                ELSE ToReserves(Active, [run[r] EXCEPT !.todo = @ \ {p}, !.at = None, !.pages = 0]))
        /\ UNCHANGED <<world, pools, reserves, quotes, products, history>>

-----------------------------------------------------------------------------
(* 5. Quote prices.                                                        *)

FirstReserveHour(ps) ==
    LET hours == UNION {{chain[p][i] : i \in reserves[p]} : p \in ps}
    IN  IF hours = {} THEN None ELSE Min(hours)

\* Mutant: the last stored hour is taken for final.
AfterLast(q) == IF quotes[q] = NoHours
                THEN FirstReserveHour({p \in Pool : pools[p] # "absent" /\ QuoteOf[p] = q})
                ELSE Max(DOMAIN quotes[q]) + 1

\* The last stored hour is read again: it was likely still in progress.
QuoteStart(q) == IF quotes[q] = NoHours
                 THEN FirstReserveHour({p \in Pool : pools[p] # "absent" /\ QuoteOf[p] = q})
                 ELSE Max(DOMAIN quotes[q])

\* The first QuoteLimit hours with trades from `from` on.
MarketPage(q, from, upTo) ==
    LET traded == {h \in from..upTo : market[q][h] > 0}
    IN  [h \in {k \in traded : Cardinality({j \in traded : j < k}) < QuoteLimit} |->
            market[q][h]]

\* Nothing to ask for: no reserves yet, or every hour up to now has been read.
NothingToAsk(from, upTo) == from = None \/ from > upTo

FetchQuotes(r) ==
    /\ run[r].pc = "quotes"
    /\ LET q    == Turn(run[r].todo)
           from == IF run[r].pages = 0 THEN QuoteStart(q) ELSE run[r].at
       IN  Reset(r,
               IF NothingToAsk(from, run[r].upTo)
               THEN ToQuotes([run[r] EXCEPT !.todo = @ \ {q}, !.at = None, !.pages = 0])
               ELSE [run[r] EXCEPT !.pc = "storeQuotes",
                                   !.page = MarketPage(q, from, run[r].upTo)])
    /\ UNCHANGED <<world, sources, products, history>>

\* A full page asks for the next one, as long as the run has pages left.
StoreQuotes(r) ==
    LET q    == Turn(run[r].todo)
        page == run[r].page
        more == Cardinality(DOMAIN page) = QuoteLimit /\ run[r].pages + 1 < QuotePages
        kept == [run[r] EXCEPT !.page = NoHours,
                   !.fresh = IF page = NoHours THEN @ ELSE Least(@, Min(DOMAIN page))]
    IN  /\ run[r].pc = "storeQuotes"
        /\ quotes' = [quotes EXCEPT ![q] = InsertOrReplace(@, page)]
        /\ Reset(r,
              IF more THEN [kept EXCEPT !.pc = "quotes", !.at = Max(DOMAIN page) + 1,
                                        !.pages = @ + 1]
              ELSE ToQuotes([kept EXCEPT !.todo = @ \ {q}, !.at = None, !.pages = 0]))
        /\ UNCHANGED <<world, pools, reserves, cursor, products, history>>
-----------------------------------------------------------------------------
(* 6. Price series.                                                        *)

RebuildFrom(r) ==
    IF snapshot = None THEN FirstReserveHour(Pool) ELSE run[r].changed

SkipPrice(r) == RebuildFrom(r) = None \/ Priced(Active) = {}

\* The old snapshot is read, the hours are recomputed and stored.
StoreHours(r) ==
    /\ run[r].pc = "price"
    /\ IF SkipPrice(r)
       THEN /\ Reset(r, [run[r] EXCEPT !.pc = "liquidity"])
            /\ hourly' = hourly
       ELSE LET hours == ComputeHours(Active, Rows, quotes, RebuildFrom(r), now)
            IN  /\ Reset(r, [run[r] EXCEPT !.pc = "snapshot", !.page = hours,
                             !.prev = IF snapshot = None THEN NoHours ELSE snapshot])
                /\ hourly' = InsertOrReplace(hourly, hours)
    /\ UNCHANGED <<world, sources, snapshot, liquidity, history>>

StoreSnapshot(r) ==
    /\ run[r].pc = "snapshot"
    /\ snapshot' = MergeSnapshot(run[r].prev, run[r].page)
    /\ Reset(r, AtStep("liquidity", run[r].changed, run[r].clean))
    /\ UNCHANGED <<world, sources, hourly, liquidity, history>>
-----------------------------------------------------------------------------
(* 7. Liquidity.                                                           *)

\* Volume windows slide with time: at least one rebuild an hour.
LiquidityFresh == liquidity # None /\ liquidity.asOf = now

LiquidityNow == SummarizeLiquidity(Active, Rows, quotes, now, Windows)

RebuildLiquidity(r) ==
    /\ run[r].pc = "liquidity"
    /\ liquidity' = IF (run[r].changed = None /\ LiquidityFresh) \/ Priced(Active) = {}
                    THEN liquidity ELSE LiquidityNow
    /\ Reset(r, AtStep("idle", None, TRUE))
    /\ settled' = run[r].clean
    /\ UNCHANGED <<world, sources, hourly, snapshot, faults, mishaps>>
-----------------------------------------------------------------------------
(* Failures, time and the chain.                                           *)

\* The step throws and the next one starts, without what this one had learned.
AbandonStep(r) ==
    LET changed == run[r].changed IN
    CASE run[r].pc \in {"reserves", "poolCursor"} ->
             Reset(r, ToQuotes(AtQuotes(Active, changed, FALSE)))
      [] run[r].pc \in {"quotes", "storeQuotes"} ->
             Reset(r, AtStep("price", changed, FALSE))
      [] run[r].pc \in {"price", "snapshot"} ->
             Reset(r, AtStep("liquidity", changed, FALSE))
      [] OTHER -> Reset(r, AtStep("idle", None, TRUE))

Die(r) == Reset(r, AtStep("idle", None, TRUE))

Fail(r) ==
    /\ run[r].pc # "idle" /\ faults < MaxFaults
    /\ faults' = faults + 1 /\ mishaps' = mishaps \cup {"failure"}
    /\ AbandonStep(r) \/ Die(r)
    /\ UNCHANGED <<world, sources, products, settled>>

\* Only a run that starts looks at the registry: its changes are placed where
\* there is one to start.
BetweenRuns == \E r \in Run : run[r].pc = "idle"

Register(p) ==
    /\ BetweenRuns
    /\ p \notin registered
    /\ registered' = registered \cup {p}
    /\ UNCHANGED <<now, chain, market, sources, products, run, history>>

Unregister(p) ==
    /\ BetweenRuns
    /\ p \in registered \cap Removable
    /\ faults < MaxFaults /\ faults' = faults + 1
    /\ registered' = registered \ {p}
    /\ mishaps' = mishaps \cup {"removal"}
    /\ UNCHANGED <<now, chain, market, sources, products, run, settled>>

UpdateReserves(p) ==
    /\ Len(chain[p]) < Len(Reserves[p])
    /\ chain' = [chain EXCEPT ![p] = Append(@, now)]
    /\ UNCHANGED <<now, registered, market, sources, products, run, history>>

Trade(q) ==
    /\ SumFunctionOnSet(market[q], Hour) < MaxTrades
    /\ market' = [market EXCEPT ![q][now] = @ + 1]
    /\ UNCHANGED <<now, registered, chain, sources, products, run, history>>

Tick ==
    /\ now < MaxTime /\ now' = now + 1
    /\ UNCHANGED <<registered, chain, market, sources, products, run, history>>

Init ==
    /\ now = 0 /\ registered = InitialPools
    /\ chain = [p \in Pool |-> <<>>] /\ market = [q \in Quote |-> [h \in Hour |-> IF h = 0 THEN 1 ELSE 0]]
    /\ pools = [p \in Pool |-> "absent"] /\ reserves = [p \in Pool |-> {}]
    /\ cursor = [p \in Pool |-> 0] /\ quotes = [q \in Quote |-> NoHours]
    /\ hourly = NoHours /\ snapshot = None /\ liquidity = None
    /\ run = [r \in Run |-> AtStep("idle", None, TRUE)]
    /\ faults = 0 /\ mishaps = {} /\ settled = FALSE

Ingest(r) ==
    \/ StartRun(r) \/ FetchReserves(r) \/ MovePoolCursor(r)
    \/ FetchQuotes(r) \/ StoreQuotes(r)
    \/ StoreHours(r) \/ StoreSnapshot(r) \/ RebuildLiquidity(r)

Next ==
    \/ \E r \in Run : Ingest(r) \/ Fail(r)
    \/ \E p \in Pool : Register(p) \/ Unregister(p) \/ UpdateReserves(p)
    \/ \E q \in Quote : Trade(q)
    \/ Tick

Spec == Init /\ [][Next]_vars
-----------------------------------------------------------------------------
\* Every variable has its type.
TypeOK ==
    /\ now \in Hour /\ registered \in SUBSET Pool
    /\ chain \in [Pool -> Seq(Hour)] /\ market \in [Quote -> [Hour -> 0..MaxTrades]]
    /\ pools \in [Pool -> {"absent", "active", "inactive"}]
    /\ \A p \in Pool : reserves[p] \subseteq DOMAIN chain[p]
    /\ cursor \in [Pool -> Nat]
    /\ faults \in 0..MaxFaults /\ settled \in BOOLEAN
    /\ mishaps \subseteq {"failure", "overlap", "removal"}

\* ingest.ts:386-406.  Whatever a pool's cursor covers is stored, whoever
\* failed or overlapped between an insert and its cursor.
ReservesBehindCursor ==
    /\ TypeOK
    /\ \A p \in Pool : 1..cursor[p] \subseteq reserves[p]

\* ingest.ts:440-446.  Unless two runs overlapped, a stored hour before the last
\* stored one has its final average, and no hour with trades is left out.
QuotesSettle ==
    "overlap" \notin mishaps =>
        \A q \in Quote : quotes[q] # NoHours =>
            \A h \in Min(DOMAIN quotes[q])..(Max(DOMAIN quotes[q]) - 1) :
                IF market[q][h] = 0 THEN h \notin DOMAIN quotes[q]
                ELSE h \in DOMAIN quotes[q] /\ quotes[q][h] = market[q][h]

\* The hours in which some active pool or its quote has a row.
Touched ==
    (UNION {{r.ts : r \in Rows[p]} : p \in Active})
    \cup (UNION {DOMAIN quotes[QuoteOf[p]] : p \in {a \in Active : QuoteOf[a] \in Quote}})

Full == ComputeHours(Active, Rows, quotes, 0, now)

\* A series has every touched hour that has a point, and no other value for it.
\* (It may keep the point of an hour in which the last pool was drained later.)
SameAsFull(series) ==
    /\ DOMAIN Full \cap Touched \subseteq DOMAIN series
    /\ \A h \in DOMAIN Full \cap DOMAIN series : series[h] = Full[h]

\* The snapshots say what a computation from the whole tables says.
Current ==
    /\ SameAsFull(hourly)
    /\ SameAsFull(IF snapshot = None THEN NoHours ELSE snapshot)
    /\ LiquidityFresh => liquidity = LiquidityNow

\* ingest.ts:72-86, 484-527.  As long as no run has failed or overlapped another
\* and no pool has been removed, recomputing from the earliest changed hour
\* leaves what a computation from scratch would.
CleanRunsAreCurrent == settled /\ mishaps = {} => Current

\* ingest.ts:4-6, "anything left over is picked up by the next run", and
\* 0001_init.sql:84, snapshots are "rebuilt by the cron when inputs change":
\* after a run that failed, a run that does all of its work alone catches up.
OneCleanRunIsEnough ==
    settled /\ mishaps \subseteq {"failure"} /\ snapshot # None => SameAsFull(snapshot)
=============================================================================
