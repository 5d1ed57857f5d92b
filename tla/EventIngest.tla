------------------------------ MODULE EventIngest ------------------------------
(***************************************************************************)
(* The cron's way from contract events to the traction card, functions/    *)
(* _lib/ingest.ts: fetch events behind the `hitz-rpc` cursor, look up what *)
(* they mention behind the `enrich` cursor, summarize once an hour.        *)
(*                                                                         *)
(* Log is the contract's history, in order; an event id is its place in    *)
(* it.  Every await of a run is a step, so two runs interleave.  A step of *)
(* a run that throws is abandoned and the next one starts; a run that dies *)
(* leaves the tables as they are.                                          *)
(***************************************************************************)
EXTENDS TractionModel, Sequences, SequencesExt

CONSTANTS
    Log,                      \* [ts, tx, name, topics] of every event
    Contract,                 \* addresses of contracts, the others are accounts
    Pool, Router, Sponsor,    \* what list_pools and list_routers answer
    TxInfo,                   \* tx -> [source, fee, inner]; one without is a 404
    Balance, SafetyLimit,     \* holders as the ledger has them
    Run,                      \* runs of the cron that may overlap
    PageLimit, EventPages, EnrichScan, TxLookups, ContractLookups

\* Where the environment stops: a bound of a check, not of the code.
CONSTANTS MaxFaults, Forgotten   \* and up to which events the RPC forgets

ASSUME EventAssumption ==
    /\ PageLimit \in Nat \ {0} /\ EventPages \in Nat \ {0}
    /\ EnrichScan \in Nat \ {0} /\ TxLookups \in Nat /\ ContractLookups \in Nat
    /\ Window \in Nat \ {0} /\ MonthLength \in Nat \ {0} /\ MaxFaults \in Nat /\ Forgotten \subseteq Nat
    /\ Log \in Seq([ts : Nat, tx : {e.tx : e \in Range(Log)},
                    name : {e.name : e \in Range(Log)},
                    topics : Seq(UNION {Range(e.topics) : e \in Range(Log)})])
    /\ \A i, j \in DOMAIN Log : i < j => Log[i].ts <= Log[j].ts
    /\ IsFiniteSet(DOMAIN Balance) /\ \A a \in DOMAIN Balance : Balance[a] \in Nat
    /\ None \notin Nat

EventId == 1..Len(Log)
Cursor  == {None} \cup 0..Len(Log)
Address == DOMAIN Balance

VARIABLES
    now, tip,                 \* the hour, and the last event of the chain
    floor,                    \* events up to here are no longer served
    events, info,             \* hitz_events; tx_info and contract_info
    cursor, enriched,         \* the `hitz-rpc` and `enrich` cursors
    summarized,               \* the hour of the served traction summary
    run,                      \* what each run has in memory
    lost,                     \* events that were never read in time
    faults

chain  == <<now, tip, floor>>
tables == <<events, info, cursor, enriched, summarized>>
vars   == <<chain, tables, run, lost, faults>>

\* The memory of a run that is at pc and remembers nothing.
Fresh(pc) == [pc |-> pc, at |-> None, pages |-> 0, page |-> 0, more |-> FALSE,
              ids |-> {}, plan |-> {}]

Goto(r, pc) == run' = [run EXCEPT ![r].pc = pc]
Leave(r, pc) == run' = [run EXCEPT ![r] = Fresh(pc)]
-----------------------------------------------------------------------------
(* 1. Events.                                                              *)

\* The first event a request of cursor c does not cover; without a cursor
\* the scan starts where the RPC still serves events.
ScanFrom(c) == IF c = None THEN floor ELSE c

StartRun(r) ==
    /\ run[r].pc = "idle"
    /\ \A q \in Run : q < r => run[q].pc # "idle"
    /\ run' = [run EXCEPT ![r] = [Fresh("fetch") EXCEPT !.at = cursor]]
    /\ UNCHANGED <<chain, tables, lost, faults>>

\* Out of pages or at the tip, the step is over.
NextPage(r, at, more) ==
    IF more /\ run[r].pages + 1 < EventPages
    THEN run' = [run EXCEPT ![r] = [Fresh("fetch") EXCEPT
                                      !.at = at, !.pages = run[r].pages + 1]]
    ELSE Leave(r, "enrich")

\* The RPC refuses a cursor below its retention: restart from the floor.
FetchStale(r) ==
    /\ run[r].pc = "fetch" /\ run[r].at # None /\ run[r].at < floor
    /\ NextPage(r, None, TRUE)
    /\ UNCHANGED <<chain, tables, lost, faults>>

\* A page may end before it is full: the RPC scans so many ledgers a call.
FetchPage(r) ==
    LET from == ScanFrom(run[r].at)
    IN  /\ run[r].pc = "fetch" /\ from >= floor
        /\ \E last \in from..tip :
              /\ last - from <= PageLimit /\ (from < tip => from < last)
              /\ run' = [run EXCEPT ![r].pc = "store", ![r].at = from,
                                    ![r].page = last, ![r].more = last < tip]
        /\ UNCHANGED <<chain, tables, lost, faults>>

StoreEvents(r) ==
    /\ run[r].pc = "store"
    /\ events' = events \cup (run[r].at + 1)..run[r].page
    /\ Goto(r, "move")
    /\ UNCHANGED <<chain, info, cursor, enriched, summarized, lost, faults>>

MoveEventCursor(r) ==
    /\ run[r].pc = "move"
    /\ cursor' = run[r].page
    /\ NextPage(r, run[r].page, run[r].more)
    /\ UNCHANGED <<chain, events, info, enriched, summarized, lost, faults>>
-----------------------------------------------------------------------------
(* 2. Enrichment.                                                          *)

TxLookup(tx)      == [kind |-> "tx", key |-> tx]
ContractLookup(a) == [kind |-> "contract", key |-> a]
OfKind(lookups, kind) == {n \in lookups : n.kind = kind}

Mentioned(e, n) ==
    {ContractLookup(e.topics[i]) :
        i \in {j \in DOMAIN e.topics : j <= n /\ e.topics[j] \in Contract}}

Needs(i) == LET e == Log[i] IN
    CASE e.name = "transfer" -> {TxLookup(e.tx)} \cup Mentioned(e, 2)
      [] e.name = "vaulted"  -> Mentioned(e, 1)
      [] OTHER               -> {}

NeedsOf(ids) == UNION {Needs(i) : i \in ids}

\* The first n of a set of events.
Oldest(ids, n) == {i \in ids : Cardinality({j \in ids : j < i}) < n}
UpTo(ids, i)   == {j \in ids : j <= i}

Scanned == Oldest({i \in events : i > enriched}, EnrichScan)

\* Mutant: the last lookup of a budget is never used.
UnderBudget(missing) ==
    /\ Cardinality(OfKind(missing, "tx")) < TxLookups
    /\ Cardinality(OfKind(missing, "contract")) < ContractLookups

\* The longest run of scanned events whose missing lookups fit the budgets.
WithinBudget(missing) ==
    /\ Cardinality(OfKind(missing, "tx")) <= TxLookups
    /\ Cardinality(OfKind(missing, "contract")) <= ContractLookups

Covered(ids) == {i \in ids : WithinBudget(NeedsOf(UpTo(ids, i)) \ info)}

PlanLookups(r) ==
    /\ run[r].pc = "enrich"
    /\ IF Scanned = {} THEN Goto(r, "count")
       ELSE run' = [run EXCEPT ![r].pc = "lookup", ![r].ids = Covered(Scanned),
                               ![r].plan = NeedsOf(Covered(Scanned)) \ info]
    /\ UNCHANGED <<chain, tables, lost, faults>>

\* Any of the lookups may fail for now; a 404 is an answer.
StoreLookups(r) ==
    /\ run[r].pc = "lookup"
    /\ \E failed \in SUBSET run[r].plan :
          /\ failed # {} => faults < MaxFaults
          /\ faults' = IF failed = {} THEN faults ELSE faults + 1
          /\ info' = info \cup (run[r].plan \ failed)
          /\ run' = [run EXCEPT ![r].pc = "advance", ![r].plan = failed]
    /\ UNCHANGED <<chain, events, cursor, enriched, summarized, lost>>

\* Mutant: events with a failed lookup are passed over.
SkipFailed(ids, failed) == {i \in ids : Needs(i) \cap failed = {}}

\* The covered events before the first with a failed lookup.
BeforeFailure(ids, failed) == {i \in ids : NeedsOf(UpTo(ids, i)) \cap failed = {}}

MoveEnrichCursor(r) ==
    LET done == BeforeFailure(run[r].ids, run[r].plan)
    IN  /\ run[r].pc = "advance"
        /\ enriched' = IF done = {} THEN enriched ELSE Max(done)
        /\ Leave(r, "count")
        /\ UNCHANGED <<chain, events, info, cursor, summarized, lost, faults>>
-----------------------------------------------------------------------------
(* 8. Traction.                                                            *)

Infrastructure == (Pool \cup Router \cup {Sponsor}) \ Contract

Role == [a \in Address |->
    IF a \in Router \cup {Sponsor} THEN "router"
    ELSE IF a \in Pool THEN IF a \in Contract THEN "amm" ELSE "treasury"
    ELSE IF a \in Contract THEN "contract" ELSE "person"]

\* One row for each person of each stored transfer, joined with tx_info.  A
\* cached 404 has neither source nor fee account.
PeopleRow(e, a) ==
    LET known == TxLookup(e.tx) \in info
        found == known /\ e.tx \in DOMAIN TxInfo
    IN  [ts |-> e.ts, tx |-> e.tx, addr |-> a,
         gateway |-> IF known THEN found /\ Sponsor \in {TxInfo[e.tx].source,
                                                         TxInfo[e.tx].fee}
                     ELSE None,
         source |-> IF ~ found THEN None
                    ELSE IF TxInfo[e.tx].inner # None THEN TxInfo[e.tx].inner
                    ELSE TxInfo[e.tx].source]

PeopleTxs ==
    UNION {LET e == Log[i] IN
           {PeopleRow(e, a) : a \in {e.topics[1], e.topics[2]}
                                    \ (Contract \cup Infrastructure)} :
           i \in {j \in events : Log[j].name = "transfer"}}

Summary ==
    SummarizeTraction(PeopleTxs, Log[Min(events)].ts, now, Balance, Role, SafetyLimit)

\* At most one Summary an hour, and none without any event.  Nothing reads it
\* back but for its hour, so that is what is kept of it.
RebuildTraction(r) ==
    /\ run[r].pc = "count"
    /\ summarized' = IF events = {} THEN summarized ELSE now
    /\ Leave(r, "idle")
    /\ UNCHANGED <<chain, events, info, cursor, enriched, lost, faults>>
-----------------------------------------------------------------------------
(* Failures and the chain.                                                 *)

\* What follows a step that throws.
AfterStep(pc) == CASE pc \in {"fetch", "store", "move"}      -> "enrich"
                   [] pc \in {"enrich", "lookup", "advance"} -> "count"
                   [] OTHER                                  -> "idle"

\* The step throws, or the run dies.
Fail(r) ==
    /\ run[r].pc # "idle" /\ faults < MaxFaults
    /\ faults' = faults + 1
    /\ Leave(r, AfterStep(run[r].pc)) \/ Leave(r, "idle")
    /\ UNCHANGED <<chain, tables, lost>>

\* The next event, in this hour or a later one.
Emit ==
    /\ tip < Len(Log)
    /\ tip' = tip + 1 /\ now' = Log[tip + 1].ts
    /\ UNCHANGED <<floor, tables, run, lost, faults>>

\* The RPC forgets.  It keeps events for days, a run holds a page for seconds:
\* no event of a page in hand is forgotten before the page is stored.
Prune ==
    /\ \E f \in Forgotten \cap (floor + 1)..tip :
          /\ \A r \in Run : run[r].pc = "store" => f <= run[r].at
          /\ floor' = f
          /\ lost' = lost \cup (1..f \ events)
    /\ UNCHANGED <<now, tip, tables, run, faults>>

RunStep(r) ==
    \/ StartRun(r)
    \/ FetchStale(r) \/ FetchPage(r) \/ StoreEvents(r) \/ MoveEventCursor(r)
    \/ PlanLookups(r) \/ StoreLookups(r) \/ MoveEnrichCursor(r)
    \/ RebuildTraction(r)

Init ==
    /\ now = 0 /\ tip = 0 /\ floor = 0
    /\ events = {} /\ info = {} /\ cursor = None /\ enriched = 0
    /\ summarized = None
    /\ run = [r \in Run |-> Fresh("idle")]
    /\ lost = {} /\ faults = 0

Next == Emit \/ Prune \/ \E r \in Run : RunStep(r) \/ Fail(r)

Spec == Init /\ [][Next]_vars

\* The cron fires every five minutes, a run goes on until it ends, and the
\* chain does not stop in the middle of its history.
FairSpec == Spec /\ WF_vars(Emit) /\ \A r \in Run : WF_vars(RunStep(r))
-----------------------------------------------------------------------------
Step == {"idle", "fetch", "store", "move", "enrich", "lookup", "advance",
         "count"}

\* Every variable has its type; a run's memory too.
TypeOK ==
    /\ now \in Nat /\ tip \in 0..Len(Log) /\ floor \in 0..tip
    /\ events \in SUBSET EventId /\ lost \in SUBSET EventId
    /\ info \in SUBSET NeedsOf(EventId)
    /\ cursor \in Cursor /\ enriched \in 0..Len(Log)
    /\ faults \in 0..MaxFaults
    /\ \A r \in Run :
          /\ run[r].pc \in Step
          /\ run[r].at \in Cursor /\ run[r].page \in 0..tip
          /\ run[r].pages \in 0..EventPages /\ run[r].more \in BOOLEAN
          /\ run[r].ids \in SUBSET EventId
          /\ run[r].plan \in SUBSET NeedsOf(EventId)

\* ingest.ts:184-202.  The stored cursor is a promise: everything it covers is
\* in the table, except what the RPC had forgotten before anybody asked, and
\* rows appear in order, so that a reader of the table who pages by id misses
\* none; whatever runs overlap, throw or die between the insert and the cursor.
EventsBehindCursor ==
    /\ TypeOK
    /\ cursor # None => 1..cursor \subseteq events \cup lost
    /\ \A i \in events : 1..i \subseteq events \cup lost

\* ingest.ts:311-322.  What the enrich cursor has passed is enriched: no failed
\* lookup, budget or overlapping run lets it pass an event for good.
EnrichedBehindCursor ==
    \A i \in events : i <= enriched => Needs(i) \subseteq info

\* ingest.ts:184-202, 311-322.  Both cursors of an event keep their promise, so
\* that whatever a later run starts after is stored, and enriched.
CursorsKeepTheirPromise == EventsBehindCursor /\ EnrichedBehindCursor

\* traction-model.ts:121-248.  The card adds up: everybody is new in exactly one
\* month and came through exactly one channel, the window counts the same new
\* people both ways, and every balance sits in exactly one place.
TractionAddsUp ==
    LET t      == Summary
        newIn  == [m \in DOMAIN t.months |-> t.months[m].new]
        places == t.supply
    IN  events # {} =>
            /\ SumFunctionOnSet(newIn, DOMAIN newIn) = t.allTime
            /\ SumFunctionOnSet(t.channels, Channel) = t.allTime
            /\ SumFunctionOnSet(t.newBy, Channel) = t.window.new
            /\ places.amm + places.treasury + places.routers + places.contracts
                  + places.vaultedPeople + places.people = places.total

\* ingest.ts:4-6: what a run leaves over is picked up by the next ones.  When
\* failures and the chain stop, every event that can be had is stored and
\* enriched for good.
EventuallyCaughtUp ==
    <>[](/\ EventId \subseteq events \cup lost
         /\ cursor = Len(Log)
         /\ NeedsOf(events) \subseteq info)
=============================================================================
