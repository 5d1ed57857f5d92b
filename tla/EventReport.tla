----------------------------- MODULE EventReport -----------------------------
(***************************************************************************)
(* The monthly report as a reader of the event table: scripts/             *)
(* contract-report.mjs pages through /api/data/events and /api/data/       *)
(* tx-info (functions/api/data.ts), whose answers the edge keeps for a     *)
(* while (functions/_lib/cache.ts), while the cron appends rows.  A tick   *)
(* is the lifetime of a tail page.                                         *)
(*                                                                         *)
(* Rows are numbered in id order.  The cron stores them in that order and  *)
(* without a gap (EventIngest!EventsBehindCursor), so the table is its     *)
(* length here.                                                            *)
(***************************************************************************)
EXTENDS Integers, Sequences

CONSTANTS
    Page,           \* rows of a full page
    FullTtl,        \* the lifetime of a full page, in ticks
    MaxRows, MaxTicks   \* bounds: rows and ticks

ASSUME ReportAssumption ==
    /\ Page \in Nat \ {0} /\ FullTtl \in Nat
    /\ MaxRows \in Nat /\ MaxTicks \in Nat

VARIABLES
    tableRows,  \* rows in hitz_events
    tick,
    settledRows,    \* rows at the start of this tick
    edge,       \* edge[a]: the cached answer to ?after=a
    report      \* the report being written

reportVars == <<tableRows, tick, settledRows, edge, report>>

After    == 0..MaxRows
NoAnswer == [rows |-> <<>>, next |-> 0, until |-> -1]
NoReport == [pc |-> "idle", after |-> 0, rows |-> <<>>, since |-> 0, explained |-> {}]

Shorter(m, n) == IF m < n THEN m ELSE n

-----------------------------------------------------------------------------
\* The data endpoint.

\* Mutant: the tail is kept as long as a full page.
AlwaysFull(body) == FullTtl

Ttl(body) == IF body.next > 0 THEN FullTtl ELSE 0

\* Rows behind a, at most a page of them; a full page has a next (0: null).
EventsAfter(a) ==
    LET last == Shorter(a + Page, tableRows)
        rows == [i \in 1..(last - a) |-> a + i]
    IN  [rows |-> rows, next |-> IF Len(rows) = Page THEN last ELSE 0]

Fresh(a) == edge[a].until >= tick

\* cachedJson: a hit, or the table's rows now, put into the cache afterwards;
\* a colo may evict or not keep what is put.
Answer(a) ==
    IF Fresh(a) THEN [rows |-> edge[a].rows, next |-> edge[a].next] ELSE EventsAfter(a)

PutAnswer(a) ==
    \/ /\ ~Fresh(a)
       /\ edge' = [edge EXCEPT ![a] = [rows |-> EventsAfter(a).rows, next |-> EventsAfter(a).next,
                                       until |-> tick + Ttl(EventsAfter(a))]]
    \/ UNCHANGED edge

\* Anybody may ask for a page.
AskForPage ==
    /\ \E a \in After : a <= tableRows /\ PutAnswer(a)
    /\ UNCHANGED <<tableRows, tick, settledRows, report>>

-----------------------------------------------------------------------------
\* The report.

GenerateReport ==
    /\ report.pc \in {"idle", "failed", "written"}
    /\ report' = [NoReport EXCEPT !.pc = "events", !.since = settledRows]
    /\ UNCHANGED <<tableRows, tick, settledRows, edge>>

\* readEvents: page after page until one has no next.
ReadEventPage ==
    /\ report.pc = "events"
    /\ LET page == Answer(report.after)
       IN  report' = [report EXCEPT !.rows = @ \o page.rows, !.after = page.next,
                                    !.pc = IF page.next > 0 THEN "events" ELSE "transactions"]
    /\ PutAnswer(report.after)
    /\ UNCHANGED <<tableRows, tick, settledRows>>

RowsRead == {report.rows[i] : i \in DOMAIN report.rows}

\* readTxCache: pages of another table, filled behind the reader's back and
\* kept for minutes, know some of the transactions.
ReadTxInfo ==
    /\ report.pc = "transactions"
    /\ \E known \in SUBSET RowsRead :
          report' = [report EXCEPT !.explained = known, !.pc = "lookups"]
    /\ UNCHANGED <<tableRows, tick, settledRows, edge>>

\* fetchTxInfo: the rest is looked up live; what cannot be had is marked so.
LookUpTransactions ==
    /\ report.pc = "lookups"
    /\ report' = [report EXCEPT !.explained = RowsRead, !.pc = "written"]
    /\ UNCHANGED <<tableRows, tick, settledRows, edge>>

\* apiGet gives up after four attempts, and no report is written.
ReportFails ==
    /\ report.pc \in {"events", "transactions"}
    /\ report' = [NoReport EXCEPT !.pc = "failed"]
    /\ UNCHANGED <<tableRows, tick, settledRows, edge>>

-----------------------------------------------------------------------------
\* The cron inserts a page in one batch.
StoreRows ==
    /\ \E n \in (tableRows + 1)..MaxRows : tableRows' = n
    /\ UNCHANGED <<tick, settledRows, edge, report>>

TailExpires ==
    /\ tick < MaxTicks
    /\ tick' = tick + 1 /\ settledRows' = tableRows
    /\ UNCHANGED <<tableRows, edge, report>>

ReportInit ==
    /\ tableRows = 0 /\ tick = 0 /\ settledRows = 0
    /\ edge = [a \in After |-> NoAnswer]
    /\ report = NoReport

ReportNext ==
    \/ StoreRows \/ TailExpires \/ AskForPage
    \/ GenerateReport \/ ReadEventPage \/ ReadTxInfo \/ LookUpTransactions \/ ReportFails

ReportSpec == ReportInit /\ [][ReportNext]_reportVars

\* contract-report.mjs:141-152 and data.ts:57-58.  A report reads every row
\* once and in order, without a hole, and none is missing that was stored a
\* tail page's lifetime before the report began, however old the cached pages
\* are it was put together from.
ReportHasNoHole ==
    report.pc = "written" =>
        /\ report.rows = [i \in 1..Len(report.rows) |-> i]
        /\ Len(report.rows) >= report.since
        /\ report.explained = 1..Len(report.rows)
=============================================================================
