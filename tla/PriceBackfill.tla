---------------------------- MODULE PriceBackfill ----------------------------
(***************************************************************************)
(* The operator's load of the price history, scripts/backfill-prices.mjs,  *)
(* beside the cron it bootstraps (functions/_lib/ingest.ts).  The script   *)
(* reads every pool's events page by page, computes the series from them   *)
(* and hands D1 one file of statements, which run in order and may stop    *)
(* anywhere; it may run again, and after the cron has started.             *)
(*                                                                         *)
(* The events of a pool are numbered; quote prices come from another       *)
(* service and are data.                                                   *)
(***************************************************************************)
EXTENDS Naturals, Sequences, FiniteSets

CONSTANTS
    Listable,       \* addresses the token may list
    Priceable,      \* those of them that are pools of HITZ and one other token
    UpdatesReserves,    \* numbers of the events that carry reserves
    PageOfEvents,   \* events in a full page of the service
    MaxHistory, MaxFills, MaxSteps  \* bounds: events, runs, steps of the cron

ASSUME BackfillAssumption ==
    /\ Priceable \subseteq Listable /\ PageOfEvents \in Nat \ {0}
    /\ {MaxHistory, MaxFills, MaxSteps} \subseteq Nat /\ UpdatesReserves \subseteq Nat

VARIABLES
    onChain,    \* how many events each pool has had
    tables,     \* pools, pool_reserves, cursors; 0: no cursor
    served,     \* how far the served series reaches in each pool
    cron,       \* a page the cron is storing
    fill        \* the script

backfillVars == <<onChain, tables, served, cron, fill>>

Resting  == [step |-> "rest", pool |-> "none", upto |-> 0, rows |-> {}, left |-> MaxSteps]
NotYet   == [pc |-> "off", pools |-> {}, todo |-> {}, at |-> "none", cursor |-> 0,
             reserves |-> [p \in Priceable |-> {}], cursors |-> [p \in Priceable |-> 0],
             write |-> 1, runs |-> 0]
NoReach  == [p \in Priceable |-> 0]
Furthest(S) == IF S = {} THEN 0 ELSE CHOOSE n \in S : \A m \in S : m <= n

\* The page behind a cursor, and the reserves in it.
LastOfPage(p, cursor) ==
    IF onChain[p] < cursor + PageOfEvents THEN onChain[p] ELSE cursor + PageOfEvents
Between(cursor, last) == {n \in UpdatesReserves : cursor < n /\ n <= last}

-----------------------------------------------------------------------------
PoolEvent(p) ==
    /\ onChain[p] < MaxHistory /\ onChain' = [onChain EXCEPT ![p] = @ + 1]
    /\ UNCHANGED <<tables, served, cron, fill>>

\* The cron, a page a run: its rows, then the cursor, then the series; it may
\* end between any two of them.
CronReads(p) ==
    /\ cron.step = "rest" /\ cron.left > 0 /\ p \in tables.pools
    /\ onChain[p] > tables.cursor[p]
    /\ LET last == LastOfPage(p, tables.cursor[p])
       IN  cron' = [step |-> "store", pool |-> p, upto |-> last,
                    rows |-> Between(tables.cursor[p], last), left |-> cron.left - 1]
    /\ UNCHANGED <<onChain, tables, served, fill>>

CronStores ==
    /\ cron.step = "store" /\ cron' = [cron EXCEPT !.step = "cursor"]
    /\ tables' = [tables EXCEPT !.reserves[cron.pool] = @ \cup cron.rows]
    /\ UNCHANGED <<onChain, served, fill>>

CronMovesCursor ==
    /\ cron.step = "cursor" /\ cron' = [cron EXCEPT !.step = "rebuild"]
    /\ tables' = [tables EXCEPT !.cursor[cron.pool] = cron.upto]
    /\ UNCHANGED <<onChain, served, fill>>

CronRebuilds ==
    /\ cron.step = "rebuild" /\ cron' = [cron EXCEPT !.step = "rest"]
    /\ served' = [p \in Priceable |-> Furthest(tables.reserves[p])]
    /\ UNCHANGED <<onChain, tables, fill>>

CronEnds ==
    /\ cron.step # "rest" /\ cron' = [cron EXCEPT !.step = "rest"]
    /\ UNCHANGED <<onChain, tables, served, fill>>

-----------------------------------------------------------------------------
\* The script.

OnlyFill == UNCHANGED <<onChain, tables, served, cron>>

\* list_pools; classic accounts and contracts that are no such pool are skipped.
ListPools(found) ==
    /\ fill.pc = "off" /\ fill.runs < MaxFills /\ found \subseteq Listable
    /\ fill' = [NotYet EXCEPT !.pc = "read", !.pools = found \cap Priceable,
                              !.todo = found \cap Priceable, !.runs = fill.runs + 1]
    /\ OnlyFill

NextPool(p) ==
    /\ fill.pc = "read" /\ fill.at = "none" /\ p \in fill.todo
    /\ fill' = [fill EXCEPT !.at = p, !.cursor = 0]
    /\ OnlyFill

\* A full page is followed by another; the last cursor is kept for the end.
ReadPage ==
    /\ fill.pc = "read" /\ fill.at # "none"
    /\ LET p    == fill.at
           last == LastOfPage(p, fill.cursor)
           full == last - fill.cursor = PageOfEvents
       IN  fill' = [fill EXCEPT
                       !.reserves[p] = @ \cup Between(fill.cursor, last), !.cursor = last,
                       !.at = IF full THEN p ELSE "none",
                       !.todo = IF full THEN @ ELSE @ \ {p},
                       !.cursors[p] = IF full THEN @ ELSE last]
    /\ OnlyFill

\* Without any reserves there is nothing to write.
ComputeSeries ==
    /\ fill.pc = "read" /\ fill.todo = {}
    /\ fill' = [fill EXCEPT !.pc = IF \A p \in Priceable : fill.reserves[p] = {} THEN "off"
                                   ELSE "write"]
    /\ OnlyFill

\* Mutant: the cursors come first.
CursorsFirst == <<"cursors", "pools", "reserves", "series">>

Statements   == <<"pools", "reserves", "series", "cursors">>

\* OR REPLACE, OR IGNORE, OR REPLACE; a cursor is replaced by a greater one only.
\* Each of these is several statements in the order of the rows.
Listed(done)  == [tables EXCEPT !.pools = @ \cup (fill.pools \cap done)]
Stored(cut)   ==
    [tables EXCEPT !.reserves =
        [p \in Priceable |-> @[p] \cup {n \in fill.reserves[p] : n <= cut[p]}]]
Advanced(done) ==
    [tables EXCEPT !.cursor =
        [p \in Priceable |-> IF p \in done THEN Furthest({@[p], fill.cursors[p]}) ELSE @[p]]]

WriteStatement ==
    /\ fill.pc = "write"
    /\ LET now == Statements[fill.write] IN
       \/ now = "pools" /\ tables' = Listed(Priceable) /\ UNCHANGED served
       \/ now = "reserves" /\ tables' = Stored(onChain) /\ UNCHANGED served
       \/ /\ now = "series" /\ UNCHANGED tables
          /\ served' = [p \in Priceable |-> Furthest(fill.reserves[p])]
       \/ now = "cursors" /\ tables' = Advanced(Priceable) /\ UNCHANGED served
    /\ fill' = IF fill.write = Len(Statements) THEN [NotYet EXCEPT !.runs = fill.runs]
               ELSE [fill EXCEPT !.write = @ + 1]
    /\ UNCHANGED <<onChain, cron>>

\* A service gives up, or the operator interrupts, or a statement fails: what is
\* written stays, the first rows of the table in hand included.
FillStops ==
    /\ fill.pc # "off" /\ fill' = [NotYet EXCEPT !.runs = fill.runs]
    /\ \/ UNCHANGED tables
       \/ /\ fill.pc = "write" /\ Statements[fill.write] = "pools"
          /\ \E done \in SUBSET Priceable : tables' = Listed(done)
       \/ /\ fill.pc = "write" /\ Statements[fill.write] = "reserves"
          /\ \E cut \in [Priceable -> 0..MaxHistory] : tables' = Stored(cut)
       \/ /\ fill.pc = "write" /\ Statements[fill.write] = "cursors"
          /\ \E done \in SUBSET Priceable : tables' = Advanced(done)
    /\ UNCHANGED <<onChain, served, cron>>

-----------------------------------------------------------------------------
\* D1 is empty, or the cron has listed the pools.
BackfillInit ==
    /\ onChain \in [Priceable -> {0, 1}] /\ cron = Resting /\ fill = NotYet /\ served = NoReach
    /\ tables \in [pools : {{}, Priceable}, reserves : {[p \in Priceable |-> {}]},
                   cursor : {NoReach}]

BackfillNext ==
    \/ \E p \in Priceable : PoolEvent(p) \/ CronReads(p) \/ NextPool(p)
    \/ CronStores \/ CronMovesCursor \/ CronRebuilds \/ CronEnds
    \/ \E found \in SUBSET Listable : ListPools(found)
    \/ ReadPage \/ ComputeSeries \/ WriteStatement \/ FillStops

BackfillSpec == BackfillInit /\ [][BackfillNext]_backfillVars

\* backfill-prices.mjs:14-16, "safe to re-run or to run after the cron has
\* started".  Whatever runs and stops meanwhile, no event with reserves behind a
\* pool's cursor is missing, so the cron, which never looks back, loses none;
\* and the series reaches no further than the rows it can be computed from.
BackfillLosesNothing ==
    \A p \in Priceable :
        /\ Between(0, tables.cursor[p]) \subseteq tables.reserves[p]
        /\ served[p] > 0 => served[p] \in tables.reserves[p]
=============================================================================
