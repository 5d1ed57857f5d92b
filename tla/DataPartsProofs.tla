-------------------- MODULE DataPartsProofs --------------------
(***************************************************************************)
(* The proofs about the data behind the price pages and the reports, part  *)
(* by part: the monthly report, the load of the price history and the      *)
(* prices of the cron.                                                     *)
(***************************************************************************)
EXTENDS PriceIngest, PriceBackfill, EventReport, ReportContents, SumTheorems

-----------------------------------------------------------------------------
(***************************************************************************)
(* A report has no hole, for every page size, lifetime and table.  The     *)
(* invariant tells what an answer kept by the edge may still leave out: a  *)
(* full page nothing, a tail only rows stored since this tick began.       *)
(***************************************************************************)

\* What a reader may take for the page behind a.
Sound(a, rows, next) ==
    \E n \in 0..Page :
       /\ rows = [i \in 1..n |-> a + i] /\ a + n <= tableRows
       /\ next = IF n = Page THEN a + n ELSE 0
       /\ next = 0 => settledRows <= a + n

TableOK ==
    /\ tableRows \in 0..MaxRows /\ tick \in Nat /\ settledRows \in Nat
    /\ settledRows <= tableRows

EdgeOK ==
    /\ edge \in [After -> [rows : Seq(Nat), next : Nat, until : Int]]
    /\ \A a \in After :
          /\ edge[a].next = 0 => edge[a].until <= tick
          /\ Fresh(a) => Sound(a, edge[a].rows, edge[a].next)

ReportOK ==
    /\ DOMAIN report = {"pc", "after", "rows", "since", "explained"}
    /\ report.since \in Nat /\ report.since <= settledRows
    /\ report.rows \in Seq(Nat) /\ report.rows = [i \in 1..Len(report.rows) |-> i]
    /\ Len(report.rows) <= tableRows
    /\ report.pc = "events" => report.after = Len(report.rows)
    /\ report.pc \in {"transactions", "lookups", "written"} => Len(report.rows) >= report.since
    /\ report.pc = "written" => report.explained = 1..Len(report.rows)

ReportInv == TableOK /\ EdgeOK /\ ReportOK

-----------------------------------------------------------------------------
\* The table's own answer is sound.
LEMMA TableAnswers ==
    ASSUME TableOK, NEW a \in After, a <= tableRows
    PROVE  /\ Sound(a, EventsAfter(a).rows, EventsAfter(a).next)
           /\ EventsAfter(a).rows \in Seq(Nat) /\ EventsAfter(a).next \in Nat
<1> DEFINE last == Shorter(a + Page, tableRows)
           n    == last - a
           rows == [i \in 1..n |-> a + i]
<1>1. a \in Nat /\ tableRows \in Nat /\ Page \in Nat /\ Page > 0
  BY ReportAssumption DEF TableOK, After
<1>2. n \in 0..Page /\ a + n = last /\ last <= tableRows /\ last \in Nat
  BY <1>1 DEF Shorter
<1>3. n # Page => last = tableRows
  BY <1>1 DEF Shorter
<1>4. rows \in Seq(Nat) /\ Len(rows) = n
  <2>1. \A i \in 1..n : a + i \in Nat
    BY <1>1, <1>2
  <2> HIDE DEF n
  <2> QED
    BY <1>2, <2>1
<1>5. EventsAfter(a) = [rows |-> rows, next |-> IF n = Page THEN last ELSE 0]
  BY <1>4 DEF EventsAfter
<1> QED
  BY <1>1, <1>2, <1>3, <1>4, <1>5 DEF Sound, TableOK

\* So is what the edge answers.
LEMMA EdgeAnswers ==
    ASSUME TableOK, EdgeOK, NEW a \in After, a <= tableRows
    PROVE  Sound(a, Answer(a).rows, Answer(a).next)
BY TableAnswers DEF EdgeOK, Answer

\* And what it keeps.
LEMMA EdgeKeeps ==
    ASSUME TableOK, EdgeOK, NEW a \in After, a <= tableRows, PutAnswer(a),
           UNCHANGED <<tableRows, tick, settledRows>>
    PROVE  EdgeOK'
<1> DEFINE e == EventsAfter(a)
           kept == [rows |-> e.rows, next |-> e.next, until |-> tick + Ttl(e)]
<1>1. CASE UNCHANGED edge
  BY <1>1 DEF EdgeOK, Fresh, Sound, After
<1>2. CASE edge' = [edge EXCEPT ![a] = kept]
  <2>1. /\ Sound(a, e.rows, e.next) /\ e.rows \in Seq(Nat) /\ e.next \in Nat
    BY TableAnswers
  <2>2. tick \in Nat /\ Ttl(e) \in Nat /\ (e.next = 0 => Ttl(e) = 0)
    BY <2>1, ReportAssumption DEF TableOK, Ttl
  <2> HIDE DEF e
  <2>3. kept \in [rows : Seq(Nat), next : Nat, until : Int]
    BY <2>1, <2>2
  <2>4. edge' \in [After -> [rows : Seq(Nat), next : Nat, until : Int]]
    BY <1>2, <2>3 DEF EdgeOK, After
  <2>5. ASSUME NEW b \in After
        PROVE  /\ edge'[b].next = 0 => edge'[b].until <= tick
               /\ (Fresh(b) => Sound(b, edge[b].rows, edge[b].next))'
    <3>1. CASE b = a
      BY <1>2, <2>1, <2>2, <3>1 DEF EdgeOK, Sound
    <3>2. CASE b # a
      <4>1. edge'[b] = edge[b]
        BY <1>2, <3>2 DEF EdgeOK
      <4> QED
        BY <2>5, <4>1 DEF EdgeOK, Fresh, Sound
    <3> QED
      BY <3>1, <3>2
  <2> QED
    BY <2>4, <2>5 DEF EdgeOK, After
<1> QED
  BY <1>1, <1>2 DEF PutAnswer

\* A page behind the rows read goes on where they end.
LEMMA PageGoesOn ==
    ASSUME NEW m \in Nat, NEW n \in Nat,
           NEW rows \in Seq(Nat), rows = [i \in 1..m |-> i],
           NEW page, page = [i \in 1..n |-> m + i]
    PROVE  /\ rows \o page \in Seq(Nat) /\ Len(rows \o page) = m + n
           /\ rows \o page = [i \in 1..(m + n) |-> i]
<1>1. page \in Seq(Nat) /\ Len(page) = n /\ Len(rows) = m
  OBVIOUS
<1>2. Len(rows \o page) = m + n /\ rows \o page \in Seq(Nat)
  BY <1>1
<1>3. \A i \in 1..(m + n) : (rows \o page)[i] = i
  BY <1>1
<1> QED
  BY <1>2, <1>3

-----------------------------------------------------------------------------
LEMMA ReportStarts == ReportInit => ReportInv
BY ReportAssumption
DEF ReportInit, ReportInv, TableOK, EdgeOK, ReportOK, NoAnswer, NoReport, Fresh, Sound, After

\* A reader of the edge changes neither table nor report.
LEMMA AskStep == ASSUME ReportInv, AskForPage PROVE ReportInv'
<1>1. PICK a \in After : a <= tableRows /\ PutAnswer(a)
  BY DEF AskForPage
<1> QED
  BY <1>1, EdgeKeeps DEF AskForPage, ReportInv, TableOK, ReportOK

\* Steps of the report that leave the edge alone.
LEMMA EdgeUntouched ==
    ASSUME ReportInv, UNCHANGED <<tableRows, tick, settledRows, edge>>
    PROVE  TableOK' /\ EdgeOK'
BY DEF ReportInv, TableOK, EdgeOK, Fresh, Sound, After

LEMMA GenerateStep == ASSUME ReportInv, GenerateReport PROVE ReportInv'
<1>1. TableOK' /\ EdgeOK'
  BY EdgeUntouched DEF GenerateReport
<1>2. ReportOK'
  BY DEF GenerateReport, ReportInv, TableOK, ReportOK, NoReport
<1> QED
  BY <1>1, <1>2 DEF ReportInv

LEMMA ReadStep == ASSUME ReportInv, ReadEventPage PROVE ReportInv'
<1> DEFINE a == report.after
           m == Len(report.rows)
           page == Answer(a)
<1>0. /\ TableOK /\ EdgeOK /\ ReportOK /\ UNCHANGED <<tableRows, tick, settledRows>>
      /\ report.pc = "events" /\ PutAnswer(a)
  BY DEF ReportInv, ReadEventPage
<1>1. a = m /\ m \in Nat /\ m <= tableRows /\ a \in After
  <2>1. a = m /\ m \in Nat /\ m <= tableRows
    BY <1>0 DEF ReportOK
  <2> QED
    BY <1>0, <2>1, ReportAssumption DEF TableOK, After
<1>2. PICK n \in 0..Page :
         /\ page.rows = [i \in 1..n |-> m + i] /\ m + n <= tableRows
         /\ page.next = (IF n = Page THEN m + n ELSE 0)
         /\ page.next = 0 => settledRows <= m + n
  BY <1>0, <1>1, EdgeAnswers DEF Sound
<1>3. n \in Nat /\ Page > 0 /\ Page \in Nat
  BY <1>2, ReportAssumption
<1> DEFINE all == report.rows \o page.rows
<1>4. all \in Seq(Nat) /\ Len(all) = m + n /\ all = [i \in 1..(m + n) |-> i]
  BY <1>0, <1>1, <1>2, <1>3, PageGoesOn DEF ReportOK
<1>5. /\ report' = [report EXCEPT !.rows = all, !.after = page.next,
                                  !.pc = IF page.next > 0 THEN "events" ELSE "transactions"]
  BY DEF ReadEventPage
<1> HIDE DEF all, page
<1>6. /\ DOMAIN report' = {"pc", "after", "rows", "since", "explained"}
      /\ report'.rows = all /\ report'.after = page.next /\ report'.since = report.since
      /\ report'.pc = IF page.next > 0 THEN "events" ELSE "transactions"
  BY <1>0, <1>5 DEF ReportOK
<1>7. ReportOK'
  <2>1. report'.pc = "events" => page.next = m + n
    BY <1>1, <1>2, <1>3, <1>6
  <2>2. report'.pc # "events" => page.next = 0
    BY <1>1, <1>2, <1>3, <1>6
  <2> QED
    BY <1>0, <1>1, <1>2, <1>3, <1>4, <1>6, <2>1, <2>2 DEF ReportOK, TableOK
<1>8. EdgeOK'
  BY <1>0, <1>1, EdgeKeeps
<1> QED
  BY <1>0, <1>7, <1>8 DEF ReportInv, TableOK

\* Transactions are looked up, or the report is given up.
LEMMA LookUpStep ==
    ASSUME ReportInv, ReadTxInfo \/ LookUpTransactions \/ ReportFails
    PROVE  ReportInv'
<1>1. TableOK' /\ EdgeOK'
  BY EdgeUntouched DEF ReadTxInfo, LookUpTransactions, ReportFails
<1>2. ReportOK
  BY DEF ReportInv
<1>3. CASE ReadTxInfo
  <2>1. /\ DOMAIN report' = DOMAIN report /\ report'.rows = report.rows
        /\ report'.since = report.since /\ report'.pc = "lookups" /\ report.pc = "transactions"
    BY <1>2, <1>3 DEF ReadTxInfo, ReportOK
  <2>2. ReportOK'
    BY <1>2, <1>3, <2>1 DEF ReadTxInfo, ReportOK
  <2> QED
    BY <1>1, <2>2 DEF ReportInv
<1>4. CASE LookUpTransactions
  <2>1. /\ DOMAIN report' = DOMAIN report /\ report'.rows = report.rows
        /\ report'.since = report.since /\ report'.pc = "written" /\ report.pc = "lookups"
        /\ report'.explained = RowsRead
    BY <1>2, <1>4 DEF LookUpTransactions, ReportOK
  <2>2. RowsRead = 1..Len(report.rows)
    BY <1>2 DEF RowsRead, ReportOK
  <2>3. ReportOK'
    BY <1>2, <1>4, <2>1, <2>2 DEF LookUpTransactions, ReportOK
  <2> QED
    BY <1>1, <2>3 DEF ReportInv
<1>5. CASE ReportFails
  <2>1. ReportOK'
    BY <1>5 DEF ReportFails, ReportInv, TableOK, ReportOK, NoReport
  <2> QED
    BY <1>1, <2>1 DEF ReportInv
<1> QED
  BY <1>3, <1>4, <1>5

\* Rows are stored behind every answer.
LEMMA StoreStep == ASSUME ReportInv, StoreRows PROVE ReportInv'
<1>1. /\ TableOK /\ EdgeOK /\ ReportOK /\ UNCHANGED <<tick, settledRows, edge, report>>
      /\ tableRows' \in (tableRows + 1)..MaxRows
  BY DEF ReportInv, StoreRows
<1>2. TableOK' /\ ReportOK'
  BY <1>1, ReportAssumption DEF TableOK, ReportOK
<1>3. ASSUME NEW a \in After, Sound(a, edge[a].rows, edge[a].next)
      PROVE  Sound(a, edge[a].rows, edge[a].next)'
  BY <1>1, <1>3, ReportAssumption DEF Sound, TableOK, After
<1>4. EdgeOK'
  BY <1>1, <1>3 DEF EdgeOK, Fresh, After
<1> QED
  BY <1>2, <1>4 DEF ReportInv

\* With a tick every kept tail has expired.
LEMMA TickStep == ASSUME ReportInv, TailExpires PROVE ReportInv'
<1>1. /\ TableOK /\ EdgeOK /\ ReportOK /\ UNCHANGED <<tableRows, edge, report>>
      /\ tick' = tick + 1 /\ settledRows' = tableRows
  BY DEF ReportInv, TailExpires
<1>2. TableOK' /\ ReportOK'
  BY <1>1 DEF TableOK, ReportOK
<1>3. ASSUME NEW a \in After, Fresh(a)'
      PROVE  Sound(a, edge[a].rows, edge[a].next)'
  <2>1. edge[a].until \in Int /\ tick \in Nat /\ edge[a].until >= tick + 1
    BY <1>1, <1>3 DEF EdgeOK, TableOK, Fresh
  <2>2. edge[a].next # 0 /\ Sound(a, edge[a].rows, edge[a].next)
    BY <1>1, <2>1 DEF EdgeOK, Fresh
  <2> QED
    BY <1>1, <2>2 DEF Sound
<1>4. EdgeOK'
  BY <1>1, <1>3 DEF EdgeOK, TableOK, After
<1> QED
  BY <1>2, <1>4 DEF ReportInv

-----------------------------------------------------------------------------
LEMMA ReportInvariance == ReportSpec => []ReportInv
<1>1. ReportInv /\ [ReportNext]_reportVars => ReportInv'
  <2> SUFFICES ASSUME ReportInv, [ReportNext]_reportVars PROVE ReportInv'
    OBVIOUS
  <2>1. CASE UNCHANGED reportVars
    BY <2>1, EdgeUntouched DEF reportVars, ReportInv, ReportOK
  <2> QED
    BY <2>1, StoreStep, TickStep, AskStep, GenerateStep, ReadStep, LookUpStep DEF ReportNext
<1> QED
  BY <1>1, ReportStarts, PTL DEF ReportSpec

\* Every report written reads each row once, in order and without a hole, and
\* no less than was stored before the tick it began in, for every page size
\* and every lifetime of full pages.
THEOREM NoHole == ReportSpec => []ReportHasNoHole
<1>1. ReportInv => ReportHasNoHole
  BY DEF ReportInv, ReportOK, ReportHasNoHole
<1> QED
  BY <1>1, ReportInvariance, PTL

-----------------------------------------------------------------------------
(***************************************************************************)
(* The load of the history loses nothing, for any pools, any histories and *)
(* whatever runs of the script and of the cron stop beside each other.     *)
(* The invariant follows the three owners of a cursor: the table's, the    *)
(* cron's page and the script's; each stands for rows that its owner has.  *)
(***************************************************************************)

CronRecord == [step : {"rest", "store", "cursor", "rebuild"}, pool : Priceable \cup {"none"},
               upto : Nat, rows : SUBSET Nat, left : Int]
FillRecord == [pc : {"off", "read", "write"}, pools : SUBSET Priceable, todo : SUBSET Priceable,
               at : Priceable \cup {"none"}, cursor : Nat, reserves : [Priceable -> SUBSET Nat],
               cursors : [Priceable -> Nat], write : 1..4, runs : Nat]

BackfillTypes ==
    /\ onChain \in [Priceable -> Nat] /\ served \in [Priceable -> Nat]
    /\ tables \in [pools : SUBSET Priceable, reserves : [Priceable -> SUBSET Nat],
                   cursor : [Priceable -> Nat]]
    /\ cron \in CronRecord /\ fill \in FillRecord

\* Rows of a pool: of events it has had.
Had(p) == 1..onChain[p]

RowsInv ==
    \A p \in Priceable :
       /\ tables.reserves[p] \subseteq Had(p) /\ tables.cursor[p] <= onChain[p]
       /\ Between(0, tables.cursor[p]) \subseteq tables.reserves[p]
       /\ served[p] > 0 => served[p] \in tables.reserves[p]

CronInv ==
    cron.step \in {"store", "cursor"} =>
       LET p == cron.pool IN
       /\ p \in Priceable /\ cron.upto <= onChain[p] /\ cron.rows \subseteq Had(p)
       /\ Between(0, cron.upto) \subseteq tables.reserves[p] \cup cron.rows
       /\ cron.step = "cursor" => Between(0, cron.upto) \subseteq tables.reserves[p]

FillInv ==
    /\ \A p \in Priceable :
          /\ fill.reserves[p] \subseteq Had(p) /\ fill.cursors[p] <= onChain[p]
          /\ Between(0, fill.cursors[p]) \subseteq fill.reserves[p]
          /\ fill.pc = "write" /\ fill.write > 2 => fill.reserves[p] \subseteq tables.reserves[p]
    /\ fill.at # "none" =>
          /\ fill.cursor <= onChain[fill.at]
          /\ Between(0, fill.cursor) \subseteq fill.reserves[fill.at]
    /\ fill.pc # "write" => fill.write = 1

BackfillInv == BackfillTypes /\ RowsInv /\ CronInv /\ FillInv

LEMMA StatementsAre ==
    /\ Len(Statements) = 4 /\ Statements[1] = "pools" /\ Statements[2] = "reserves"
    /\ Statements[3] = "series" /\ Statements[4] = "cursors"
BY DEF Statements

\* The events of a page.
LEMMA BetweenIs ==
    \A a, b : \A n : n \in Between(a, b) <=> n \in UpdatesReserves /\ n \in Nat /\ a < n /\ n <= b
<1>1. \A n \in UpdatesReserves : n \in Nat
  BY BackfillAssumption
<1> QED
  BY <1>1 DEF Between

\* The furthest of some rows is one of them.
LEMMA FurthestIs ==
    ASSUME NEW n \in Nat, NEW S \in SUBSET (0..n)
    PROVE  Furthest(S) \in Nat /\ (S # {} => Furthest(S) \in S) /\ (S = {} => Furthest(S) = 0)
<1>1. CASE S = {}
  BY <1>1 DEF Furthest
<1>2. CASE S # {}
  <2>1. IsFiniteSet(0..n) /\ S \in SUBSET Int
    BY FS_Interval
  <2>2. IsFiniteSet(S)
    BY <2>1, FS_Subset
  <2>3. PICK m \in S : \A k \in S : k <= m
    BY <1>2, <2>1, <2>2, MaxOfFinite
  <2>4. Furthest(S) \in S
    BY <1>2, <2>3 DEF Furthest
  <2>5. Furthest(S) \in Nat
    <3>1. \A k \in S : k \in Nat
      OBVIOUS
    <3> QED
      BY <2>4, <3>1
  <2> QED
    BY <1>2, <2>4, <2>5
<1> QED
  BY <1>1, <1>2

\* The page behind a cursor reaches as far as the chain allows, and the events
\* up to its end are those up to the cursor and those of the page.
LEMMA PageReaches ==
    ASSUME BackfillTypes, NEW p \in Priceable, NEW c \in Nat, c <= onChain[p]
    PROVE  LET last == LastOfPage(p, c) IN
           /\ last \in Nat /\ c <= last /\ last <= onChain[p]
           /\ Between(c, last) \subseteq Had(p) /\ Between(c, last) \subseteq Nat
           /\ Between(0, last) \subseteq Between(0, c) \cup Between(c, last)
<1>1. onChain[p] \in Nat /\ PageOfEvents \in Nat /\ UpdatesReserves \subseteq Nat
  BY BackfillAssumption DEF BackfillTypes
<1>2. LET last == LastOfPage(p, c) IN last \in Nat /\ c <= last /\ last <= onChain[p]
  BY <1>1 DEF LastOfPage
<1> DEFINE last == LastOfPage(p, c)
<1> HIDE DEF last
<1>3. last \in Nat /\ c <= last /\ last <= onChain[p]
  BY <1>2 DEF last
<1>4. \A n \in Between(c, last) : n \in Nat /\ n \in Had(p)
  <2> SUFFICES ASSUME NEW n \in Between(c, last) PROVE n \in Nat /\ n \in Had(p)
    OBVIOUS
  <2>1. n \in Nat /\ c < n /\ n <= last
    BY BetweenIs
  <2> QED
    BY <1>1, <1>3, <2>1 DEF Had
<1>5. \A n \in Between(0, last) : n \in Between(0, c) \/ n \in Between(c, last)
  <2> SUFFICES ASSUME NEW n \in Between(0, last) PROVE n \in Between(0, c) \/ n \in Between(c, last)
    OBVIOUS
  <2>1. n \in UpdatesReserves /\ n \in Nat /\ 0 < n /\ n <= last /\ (n <= c \/ c < n)
    BY BetweenIs
  <2> QED
    BY <2>1, BetweenIs
<1> QED
  BY <1>3, <1>4, <1>5 DEF last

LEMMA BackfillStarts == BackfillInit => BackfillInv
<1> SUFFICES ASSUME BackfillInit PROVE BackfillInv
  OBVIOUS
<1>0. MaxSteps \in Int /\ UpdatesReserves \subseteq Nat
  BY BackfillAssumption
<1>1. /\ onChain \in [Priceable -> Nat] /\ served = NoReach /\ cron = Resting /\ fill = NotYet
      /\ tables.pools \in SUBSET Priceable /\ tables.reserves = [p \in Priceable |-> {}]
      /\ tables.cursor = NoReach
      /\ tables \in [pools : {{}, Priceable}, reserves : {[p \in Priceable |-> {}]}, cursor : {NoReach}]
  BY DEF BackfillInit
<1>2. cron \in CronRecord /\ cron.step = "rest"
  BY <1>0, <1>1 DEF Resting, CronRecord
<1>3. /\ fill \in FillRecord /\ fill.pc = "off" /\ fill.at = "none" /\ fill.write = 1
      /\ \A p \in Priceable : fill.reserves[p] = {} /\ fill.cursors[p] = 0
  BY <1>1 DEF NotYet, FillRecord
<1>4. BackfillTypes
  BY <1>1, <1>2, <1>3 DEF BackfillTypes, NoReach
<1>5. Between(0, 0) = {}
  <2>1. \A n \in Between(0, 0) : n \in Nat /\ 0 < n /\ n <= 0
    BY BetweenIs
  <2>2. \A n \in Between(0, 0) : FALSE
    BY <2>1
  <2> QED
    BY <2>2
<1>6. RowsInv
  BY <1>1, <1>5 DEF RowsInv, NoReach
<1>7. CronInv
  BY <1>2 DEF CronInv
<1>8. FillInv
  BY <1>1, <1>3, <1>5 DEF FillInv
<1> QED
  BY <1>4, <1>6, <1>7, <1>8 DEF BackfillInv

LEMMA PoolEventStep == ASSUME BackfillInv, NEW p \in Priceable, PoolEvent(p) PROVE BackfillInv'
<1>1. /\ UNCHANGED <<tables, served, cron, fill>> /\ BackfillTypes
      /\ onChain' = [onChain EXCEPT ![p] = @ + 1]
  BY DEF PoolEvent, BackfillInv
<1>2. /\ onChain' \in [Priceable -> Nat]
      /\ \A q \in Priceable : onChain[q] \in Nat /\ onChain'[q] \in Nat /\ onChain[q] <= onChain'[q]
  BY <1>1 DEF BackfillTypes
<1>3. \A q \in Priceable : Had(q) \subseteq Had(q)'
  BY <1>2 DEF Had
<1>4. BackfillTypes'
  BY <1>1, <1>2 DEF BackfillTypes
<1>5. ASSUME NEW n \in Nat, NEW q \in Priceable, n <= onChain[q] PROVE n <= onChain'[q]
  BY <1>2, <1>5
<1>6. RowsInv'
  <2>1. \A q \in Priceable : tables.cursor[q] \in Nat
    BY <1>1 DEF BackfillTypes
  <2> QED
    BY <1>1, <1>3, <1>5, <2>1 DEF BackfillInv, RowsInv
<1>7. CronInv'
  <2>1. cron.upto \in Nat
    BY <1>1 DEF BackfillTypes, CronRecord
  <2> QED
    BY <1>1, <1>3, <1>5, <2>1 DEF BackfillInv, CronInv
<1>8. FillInv'
  <2>1. /\ fill.cursor \in Nat /\ fill.at \in Priceable \cup {"none"}
        /\ \A q \in Priceable : fill.cursors[q] \in Nat
    BY <1>1 DEF BackfillTypes, FillRecord
  <2> QED
    BY <1>1, <1>3, <1>5, <2>1 DEF BackfillInv, FillInv
<1> QED
  BY <1>4, <1>6, <1>7, <1>8 DEF BackfillInv

LEMMA CronReadsStep == ASSUME BackfillInv, NEW p \in Priceable, CronReads(p) PROVE BackfillInv'
<1> DEFINE c == tables.cursor[p]
           last == LastOfPage(p, c)
<1>1. /\ UNCHANGED <<onChain, tables, served, fill>> /\ BackfillTypes /\ RowsInv /\ FillInv
      /\ cron' = [step |-> "store", pool |-> p, upto |-> last, rows |-> Between(c, last),
                  left |-> cron.left - 1]
  BY DEF CronReads, BackfillInv
<1>2. /\ c \in Nat /\ c <= onChain[p] /\ Between(0, c) \subseteq tables.reserves[p]
      /\ cron.left \in Int
  BY <1>1 DEF BackfillTypes, RowsInv, CronRecord
<1> HIDE DEF c
<1>3. /\ last \in Nat /\ last <= onChain[p]
      /\ Between(c, last) \subseteq Had(p) /\ Between(c, last) \subseteq Nat
      /\ Between(0, last) \subseteq Between(0, c) \cup Between(c, last)
  BY <1>1, <1>2, PageReaches
<1> HIDE DEF last
<1>4. /\ cron'.step = "store" /\ cron'.pool = p /\ cron'.upto = last
      /\ cron'.rows = Between(c, last)
  BY <1>1
<1>5. cron' \in CronRecord
  BY <1>1, <1>2, <1>3 DEF CronRecord
<1>6. BackfillTypes'
  BY <1>1, <1>5 DEF BackfillTypes
<1>7. CronInv'
  BY <1>1, <1>2, <1>3, <1>4 DEF CronInv, Had
<1>8. RowsInv' /\ FillInv'
  BY <1>1 DEF RowsInv, FillInv, Had
<1> QED
  BY <1>6, <1>7, <1>8 DEF BackfillInv

LEMMA CronStoresStep == ASSUME BackfillInv, CronStores PROVE BackfillInv'
<1> DEFINE p == cron.pool
<1>1. /\ UNCHANGED <<onChain, served, fill>> /\ BackfillTypes /\ RowsInv /\ FillInv
      /\ cron' = [cron EXCEPT !.step = "cursor"] /\ cron.step = "store"
      /\ tables' = [tables EXCEPT !.reserves[p] = @ \cup cron.rows]
  BY DEF CronStores, BackfillInv
<1>2. /\ p \in Priceable /\ cron.upto <= onChain[p] /\ cron.rows \subseteq Had(p)
      /\ Between(0, cron.upto) \subseteq tables.reserves[p] \cup cron.rows
  BY <1>1 DEF BackfillInv, CronInv
<1>3. /\ cron' \in CronRecord /\ cron'.step = "cursor" /\ cron'.pool = p
      /\ cron'.upto = cron.upto /\ cron'.rows = cron.rows
  BY <1>1 DEF BackfillTypes, CronRecord
<1> HIDE DEF p
<1>4. cron.rows \in SUBSET Nat
  BY <1>1 DEF BackfillTypes, CronRecord
<1>5. /\ tables' \in [pools : SUBSET Priceable, reserves : [Priceable -> SUBSET Nat],
                      cursor : [Priceable -> Nat]]
      /\ tables'.cursor = tables.cursor
      /\ tables'.reserves[p] = tables.reserves[p] \cup cron.rows
      /\ \A q \in Priceable \ {p} : tables'.reserves[q] = tables.reserves[q]
  BY <1>1, <1>2, <1>4 DEF BackfillTypes
<1>6. \A q \in Priceable : tables.reserves[q] \subseteq tables'.reserves[q]
  BY <1>5
<1>7. BackfillTypes'
  BY <1>1, <1>3, <1>5 DEF BackfillTypes
<1>8. CronInv'
  BY <1>1, <1>2, <1>3, <1>5 DEF CronInv, Had
<1>9. RowsInv'
  BY <1>1, <1>2, <1>5, <1>6 DEF RowsInv, Had
<1>10. FillInv'
  BY <1>1, <1>6 DEF FillInv, Had
<1> QED
  BY <1>7, <1>8, <1>9, <1>10 DEF BackfillInv

LEMMA CronMovesStep == ASSUME BackfillInv, CronMovesCursor PROVE BackfillInv'
<1> DEFINE p == cron.pool
<1>1. /\ UNCHANGED <<onChain, served, fill>> /\ BackfillTypes /\ RowsInv /\ FillInv
      /\ cron' = [cron EXCEPT !.step = "rebuild"] /\ cron.step = "cursor"
      /\ tables' = [tables EXCEPT !.cursor[p] = cron.upto]
  BY DEF CronMovesCursor, BackfillInv
<1>2. /\ p \in Priceable /\ cron.upto <= onChain[p]
      /\ Between(0, cron.upto) \subseteq tables.reserves[p]
  BY <1>1 DEF BackfillInv, CronInv
<1>3. /\ cron' \in CronRecord /\ cron'.step = "rebuild" /\ cron.upto \in Nat
  BY <1>1 DEF BackfillTypes, CronRecord
<1> HIDE DEF p
<1>4. /\ tables' \in [pools : SUBSET Priceable, reserves : [Priceable -> SUBSET Nat],
                      cursor : [Priceable -> Nat]]
      /\ tables'.reserves = tables.reserves /\ tables'.cursor[p] = cron.upto
      /\ \A q \in Priceable \ {p} : tables'.cursor[q] = tables.cursor[q]
  BY <1>1, <1>2, <1>3 DEF BackfillTypes
<1>5. BackfillTypes'
  BY <1>1, <1>3, <1>4 DEF BackfillTypes
<1>6. CronInv'
  BY <1>3 DEF CronInv
<1>7. RowsInv'
  BY <1>1, <1>2, <1>4 DEF RowsInv, Had
<1>8. FillInv'
  BY <1>1, <1>4 DEF FillInv, Had
<1> QED
  BY <1>5, <1>6, <1>7, <1>8 DEF BackfillInv

\* A series that is computed from the rows of a table.
LEMMA SeriesReaches ==
    ASSUME BackfillTypes, NEW rows \in [Priceable -> SUBSET Nat],
           \A p \in Priceable : rows[p] \subseteq Had(p),
           served' = [p \in Priceable |-> Furthest(rows[p])]
    PROVE  /\ served' \in [Priceable -> Nat]
           /\ \A p \in Priceable : served'[p] > 0 => served'[p] \in rows[p]
<1>1. ASSUME NEW p \in Priceable
      PROVE  /\ Furthest(rows[p]) \in Nat
             /\ Furthest(rows[p]) > 0 => Furthest(rows[p]) \in rows[p]
  <2>1. onChain[p] \in Nat /\ rows[p] \in SUBSET (0..onChain[p])
    BY DEF BackfillTypes, Had
  <2>2. /\ Furthest(rows[p]) \in Nat /\ (rows[p] # {} => Furthest(rows[p]) \in rows[p])
        /\ (rows[p] = {} => Furthest(rows[p]) = 0)
    BY <2>1, FurthestIs
  <2> QED
    BY <2>2
<1> QED
  BY <1>1

LEMMA CronRebuildsStep == ASSUME BackfillInv, CronRebuilds PROVE BackfillInv'
<1>1. /\ UNCHANGED <<onChain, tables, fill>> /\ BackfillTypes /\ RowsInv /\ FillInv
      /\ cron' = [cron EXCEPT !.step = "rest"]
      /\ served' = [p \in Priceable |-> Furthest(tables.reserves[p])]
  BY DEF CronRebuilds, BackfillInv
<1>2. cron' \in CronRecord /\ cron'.step = "rest"
  BY <1>1 DEF BackfillTypes, CronRecord
<1>3. /\ served' \in [Priceable -> Nat]
      /\ \A p \in Priceable : served'[p] > 0 => served'[p] \in tables.reserves[p]
  <2>1. /\ tables.reserves \in [Priceable -> SUBSET Nat]
        /\ \A p \in Priceable : tables.reserves[p] \subseteq Had(p)
    BY <1>1 DEF BackfillTypes, RowsInv
  <2> QED
    BY <1>1, <2>1, SeriesReaches
<1>4. BackfillTypes'
  BY <1>1, <1>2, <1>3 DEF BackfillTypes
<1>5. RowsInv' /\ CronInv' /\ FillInv'
  BY <1>1, <1>2, <1>3 DEF RowsInv, CronInv, FillInv, Had
<1> QED
  BY <1>4, <1>5 DEF BackfillInv

LEMMA CronEndsStep == ASSUME BackfillInv, CronEnds PROVE BackfillInv'
<1>1. /\ UNCHANGED <<onChain, tables, served, fill>> /\ BackfillTypes /\ RowsInv /\ FillInv
      /\ cron' = [cron EXCEPT !.step = "rest"]
  BY DEF CronEnds, BackfillInv
<1>2. cron' \in CronRecord /\ cron'.step = "rest"
  BY <1>1 DEF BackfillTypes, CronRecord
<1>3. BackfillTypes'
  BY <1>1, <1>2 DEF BackfillTypes
<1>4. RowsInv' /\ CronInv' /\ FillInv'
  BY <1>1, <1>2 DEF RowsInv, CronInv, FillInv, Had
<1> QED
  BY <1>3, <1>4 DEF BackfillInv

\* The script changes nothing but its own memory.
LEMMA OnlyFillStep ==
    ASSUME BackfillInv, OnlyFill, fill' \in FillRecord, FillInv' PROVE BackfillInv'
<1>1. UNCHANGED <<onChain, tables, served, cron>> /\ BackfillTypes /\ RowsInv /\ CronInv
  BY DEF OnlyFill, BackfillInv
<1>2. BackfillTypes'
  BY <1>1 DEF BackfillTypes
<1>3. RowsInv' /\ CronInv'
  BY <1>1 DEF RowsInv, CronInv, Had
<1> QED
  BY <1>2, <1>3 DEF BackfillInv

\* A script that has not begun.
LEMMA BlankFill ==
    ASSUME BackfillTypes, NEW f \in FillRecord, f.at = "none", f.pc # "write", f.write = 1,
           f.reserves = [p \in Priceable |-> {}], f.cursors = [p \in Priceable |-> 0],
           UNCHANGED onChain, fill' = f
    PROVE  FillInv'
<1>1. Between(0, 0) = {}
  <2>1. \A n \in Between(0, 0) : n \in Nat /\ 0 < n /\ n <= 0
    BY BetweenIs
  <2>2. \A n \in Between(0, 0) : FALSE
    BY <2>1
  <2> QED
    BY <2>2
<1> QED
  BY <1>1 DEF FillInv, BackfillTypes

LEMMA ListPoolsStep ==
    ASSUME BackfillInv, NEW found \in SUBSET Listable, ListPools(found) PROVE BackfillInv'
<1>1. /\ BackfillTypes /\ OnlyFill
      /\ fill' = [NotYet EXCEPT !.pc = "read", !.pools = found \cap Priceable,
                                !.todo = found \cap Priceable, !.runs = fill.runs + 1]
  BY DEF ListPools, BackfillInv
<1>2. fill.runs + 1 \in Nat
  BY <1>1 DEF BackfillTypes, FillRecord
<1>3. PICK todo \in SUBSET Priceable : todo = found \cap Priceable
  OBVIOUS
<1>4. fill' = [pc |-> "read", pools |-> todo, todo |-> todo, at |-> "none", cursor |-> 0,
               reserves |-> [p \in Priceable |-> {}], cursors |-> [p \in Priceable |-> 0],
               write |-> 1, runs |-> fill.runs + 1]
  BY <1>1, <1>3 DEF NotYet
<1>5. fill' \in FillRecord /\ fill'.at = "none" /\ fill'.pc = "read" /\ fill'.write = 1
      /\ fill'.reserves = [p \in Priceable |-> {}] /\ fill'.cursors = [p \in Priceable |-> 0]
  BY <1>2, <1>4 DEF FillRecord
<1>6. FillInv'
  BY <1>1, <1>5, BlankFill DEF OnlyFill
<1> QED
  BY <1>1, <1>5, <1>6, OnlyFillStep

LEMMA NextPoolStep == ASSUME BackfillInv, NEW p \in Priceable, NextPool(p) PROVE BackfillInv'
<1>1. /\ BackfillTypes /\ FillInv /\ OnlyFill /\ fill.pc = "read"
      /\ fill' = [fill EXCEPT !.at = p, !.cursor = 0]
  BY DEF NextPool, BackfillInv
<1>2. /\ fill' \in FillRecord /\ fill'.at = p /\ fill'.cursor = 0 /\ fill'.pc = fill.pc
      /\ fill'.reserves = fill.reserves /\ fill'.cursors = fill.cursors /\ fill'.write = fill.write
  BY <1>1 DEF BackfillTypes, FillRecord
<1>3. Between(0, 0) = {} /\ 0 <= onChain[p]
  <2>1. \A n \in Between(0, 0) : n \in Nat /\ 0 < n /\ n <= 0
    BY BetweenIs
  <2>2. \A n \in Between(0, 0) : FALSE
    BY <2>1
  <2>3. onChain[p] \in Nat
    BY <1>1 DEF BackfillTypes
  <2> QED
    BY <2>2, <2>3
<1>4. FillInv'
  BY <1>1, <1>2, <1>3 DEF FillInv, OnlyFill, Had
<1> QED
  BY <1>1, <1>2, <1>4, OnlyFillStep

LEMMA ReadPageStep == ASSUME BackfillInv, ReadPage PROVE BackfillInv'
<1> DEFINE p == fill.at
           last == LastOfPage(p, fill.cursor)
           full == last - fill.cursor = PageOfEvents
           page == Between(fill.cursor, last)
<1>1. /\ BackfillTypes /\ FillInv /\ OnlyFill /\ fill.pc = "read" /\ p # "none"
      /\ fill' = [fill EXCEPT
                       !.reserves[p] = @ \cup page, !.cursor = last,
                       !.at = IF full THEN p ELSE "none",
                       !.todo = IF full THEN @ ELSE @ \ {p},
                       !.cursors[p] = IF full THEN @ ELSE last]
  BY DEF ReadPage, BackfillInv
<1>2. /\ p \in Priceable /\ fill.cursor \in Nat /\ fill.cursor <= onChain[p]
      /\ Between(0, fill.cursor) \subseteq fill.reserves[p]
  BY <1>1 DEF BackfillTypes, FillRecord, FillInv
<1>3. /\ last \in Nat /\ last <= onChain[p] /\ page \subseteq Had(p) /\ page \subseteq Nat
      /\ Between(0, last) \subseteq Between(0, fill.cursor) \cup page
  BY <1>1, <1>2, PageReaches
<1>4. /\ fill.reserves \in [Priceable -> SUBSET Nat] /\ fill.cursors \in [Priceable -> Nat]
      /\ fill.todo \in SUBSET Priceable
  BY <1>1 DEF BackfillTypes, FillRecord
<1> HIDE DEF p, last, full, page
<1>5. PICK stored, cursors, at, todo :
         /\ stored = [fill.reserves EXCEPT ![p] = @ \cup page]
         /\ cursors = [fill.cursors EXCEPT ![p] = IF full THEN @ ELSE last]
         /\ at = (IF full THEN p ELSE "none")
         /\ todo = (IF full THEN fill.todo ELSE fill.todo \ {p})
  OBVIOUS
<1>6. /\ stored \in [Priceable -> SUBSET Nat] /\ stored[p] = fill.reserves[p] \cup page
      /\ \A q \in Priceable \ {p} : stored[q] = fill.reserves[q]
  BY <1>2, <1>3, <1>4, <1>5
<1>7. /\ cursors \in [Priceable -> Nat] /\ cursors[p] \in {fill.cursors[p], last}
      /\ \A q \in Priceable \ {p} : cursors[q] = fill.cursors[q]
  BY <1>2, <1>3, <1>4, <1>5
<1>8. at \in {p, "none"} /\ todo \in SUBSET Priceable
  BY <1>4, <1>5
<1>9. fill' = [fill EXCEPT !.reserves = stored, !.cursor = last, !.at = at, !.todo = todo,
                           !.cursors = cursors]
  BY <1>1, <1>5 DEF BackfillTypes, FillRecord
<1>10. /\ fill' \in FillRecord /\ fill'.pc = "read" /\ fill'.reserves = stored
       /\ fill'.write = fill.write /\ fill'.cursors = cursors /\ fill'.cursor = last /\ fill'.at = at
  <2>1. fill \in FillRecord /\ fill.pc = "read" /\ at \in Priceable \cup {"none"}
    BY <1>1, <1>2, <1>8 DEF BackfillTypes
  <2>2. /\ stored \in [Priceable -> SUBSET Nat] /\ cursors \in [Priceable -> Nat]
        /\ last \in Nat /\ todo \in SUBSET Priceable
    BY <1>3, <1>6, <1>7, <1>8
  <2>3. PICK old : old = fill
    OBVIOUS
  <2>4. PICK m : m = [old EXCEPT !.reserves = stored, !.cursor = last, !.at = at, !.todo = todo,
                                 !.cursors = cursors]
    OBVIOUS
  <2>5. /\ m \in FillRecord /\ m.pc = "read" /\ m.reserves = stored /\ m.write = old.write
        /\ m.cursors = cursors /\ m.cursor = last /\ m.at = at
    BY <2>1, <2>2, <2>3, <2>4 DEF FillRecord
  <2> QED
    BY <1>9, <2>3, <2>4, <2>5
<1>11. FillInv'
  <2>1. ASSUME NEW q \in Priceable
        PROVE  /\ stored[q] \subseteq Had(q) /\ cursors[q] <= onChain[q]
               /\ Between(0, cursors[q]) \subseteq stored[q]
    <3>1. CASE q = p
      <4>1. Between(0, last) \subseteq stored[p]
        BY <1>2, <1>3, <1>6
      <4> QED
        BY <1>1, <1>2, <1>3, <1>6, <1>7, <3>1, <4>1 DEF FillInv
    <3>2. CASE q # p
      BY <1>1, <1>6, <1>7, <3>2 DEF FillInv
    <3> QED
      BY <3>1, <3>2
  <2>2. at # "none" => last <= onChain[at] /\ Between(0, last) \subseteq stored[at]
    BY <1>2, <1>3, <1>6, <1>8
  <2> QED
    BY <1>1, <1>10, <2>1, <2>2 DEF FillInv, OnlyFill, Had
<1> QED
  BY <1>1, <1>10, <1>11, OnlyFillStep

LEMMA ComputeStep == ASSUME BackfillInv, ComputeSeries PROVE BackfillInv'
<1>1. PICK pc \in {"off", "write"} :
         /\ BackfillTypes /\ FillInv /\ OnlyFill /\ fill.pc = "read"
         /\ fill' = [fill EXCEPT !.pc = pc]
  BY DEF ComputeSeries, BackfillInv
<1>2. /\ fill' \in FillRecord /\ fill'.at = fill.at /\ fill'.cursor = fill.cursor
      /\ fill'.reserves = fill.reserves /\ fill'.cursors = fill.cursors
      /\ fill'.write = fill.write
  BY <1>1 DEF BackfillTypes, FillRecord
<1>3. FillInv'
  BY <1>1, <1>2 DEF FillInv, OnlyFill, Had
<1> QED
  BY <1>1, <1>2, <1>3, OnlyFillStep

\* Tables that only gain rows, and cursors that stand for what was read.
LEMMA TablesGrow ==
    ASSUME BackfillInv, UNCHANGED <<onChain, cron>>,
           tables' \in [pools : SUBSET Priceable, reserves : [Priceable -> SUBSET Nat],
                        cursor : [Priceable -> Nat]],
           \A p \in Priceable :
              /\ tables.reserves[p] \subseteq tables'.reserves[p] /\ tables'.reserves[p] \subseteq Had(p)
              /\ \/ tables'.cursor[p] = tables.cursor[p]
                 \/ /\ tables'.cursor[p] <= onChain[p]
                    /\ Between(0, tables'.cursor[p]) \subseteq tables.reserves[p],
           served' \in [Priceable -> Nat],
           \A p \in Priceable : served'[p] > 0 => served'[p] \in tables'.reserves[p],
           fill' \in FillRecord, FillInv'
    PROVE  BackfillInv'
<1>1. BackfillTypes'
  BY DEF BackfillInv, BackfillTypes
<1>2. RowsInv'
  <2> SUFFICES ASSUME NEW p \in Priceable
               PROVE  (/\ tables.reserves[p] \subseteq Had(p) /\ tables.cursor[p] <= onChain[p]
                       /\ Between(0, tables.cursor[p]) \subseteq tables.reserves[p]
                       /\ served[p] > 0 => served[p] \in tables.reserves[p])'
    BY DEF RowsInv
  <2>1. tables.cursor[p] <= onChain[p] /\ Between(0, tables.cursor[p]) \subseteq tables.reserves[p]
    BY DEF BackfillInv, RowsInv
  <2> QED
    BY <2>1 DEF Had
<1>3. CronInv'
  BY DEF BackfillInv, CronInv, Had
<1> QED
  BY <1>1, <1>2, <1>3 DEF BackfillInv

\* What the statements do to the tables.
LEMMA ListedGrows ==
    ASSUME BackfillTypes, NEW done \in SUBSET Priceable, tables' = Listed(done)
    PROVE  /\ tables' \in [pools : SUBSET Priceable, reserves : [Priceable -> SUBSET Nat],
                           cursor : [Priceable -> Nat]]
           /\ tables'.reserves = tables.reserves /\ tables'.cursor = tables.cursor
<1>1. fill.pools \in SUBSET Priceable
  BY DEF BackfillTypes, FillRecord
<1> QED
  BY <1>1 DEF Listed, BackfillTypes

LEMMA StoredGrows ==
    ASSUME BackfillTypes, NEW cut, tables' = Stored(cut)
    PROVE  /\ tables' \in [pools : SUBSET Priceable, reserves : [Priceable -> SUBSET Nat],
                           cursor : [Priceable -> Nat]]
           /\ tables'.cursor = tables.cursor
           /\ \A p \in Priceable :
                 tables'.reserves[p] = tables.reserves[p] \cup {n \in fill.reserves[p] : n <= cut[p]}
<1>1. fill.reserves \in [Priceable -> SUBSET Nat]
  BY DEF BackfillTypes, FillRecord
<1>2. PICK r : r = [p \in Priceable |-> tables.reserves[p] \cup {n \in fill.reserves[p] : n <= cut[p]}]
  OBVIOUS
<1>3. r \in [Priceable -> SUBSET Nat]
  BY <1>1, <1>2 DEF BackfillTypes
<1>4. tables' = [tables EXCEPT !.reserves = r]
  BY <1>2 DEF Stored
<1>5. tables'.reserves = r /\ tables'.cursor = tables.cursor /\ tables'.pools = tables.pools
  BY <1>4 DEF BackfillTypes
<1> QED
  BY <1>2, <1>3, <1>4, <1>5 DEF BackfillTypes

LEMMA AdvancedMoves ==
    ASSUME BackfillTypes, NEW done \in SUBSET Priceable, tables' = Advanced(done)
    PROVE  /\ tables' \in [pools : SUBSET Priceable, reserves : [Priceable -> SUBSET Nat],
                           cursor : [Priceable -> Nat]]
           /\ tables'.reserves = tables.reserves
           /\ \A p \in Priceable : tables'.cursor[p] \in {tables.cursor[p], fill.cursors[p]}
<1>1. fill.cursors \in [Priceable -> Nat] /\ tables.cursor \in [Priceable -> Nat]
  BY DEF BackfillTypes, FillRecord
<1>2. PICK c : c = [p \in Priceable |-> IF p \in done THEN Furthest({tables.cursor[p], fill.cursors[p]})
                                        ELSE tables.cursor[p]]
  OBVIOUS
<1>3. ASSUME NEW p \in Priceable
      PROVE  c[p] \in {tables.cursor[p], fill.cursors[p]} /\ c[p] \in Nat
  <2>1. PICK a \in Nat, b \in Nat : a = tables.cursor[p] /\ b = fill.cursors[p]
    BY <1>1
  <2>2. PICK n \in Nat : a <= n /\ b <= n
    BY <2>1
  <2>3. {a, b} \in SUBSET (0..n) /\ {a, b} # {}
    BY <2>1, <2>2
  <2>4. Furthest({a, b}) \in {a, b}
    BY <2>3, FurthestIs
  <2> QED
    BY <1>2, <2>1, <2>4
<1>4. c \in [Priceable -> Nat]
  BY <1>2, <1>3
<1>5. tables' = [tables EXCEPT !.cursor = c]
  BY <1>2 DEF Advanced
<1>6. tables'.cursor = c /\ tables'.reserves = tables.reserves /\ tables'.pools = tables.pools
  BY <1>5 DEF BackfillTypes
<1> QED
  BY <1>3, <1>4, <1>5, <1>6 DEF BackfillTypes

\* What a run leaves, ended or stopped.
LEMMA RestedFill ==
    ASSUME BackfillTypes, UNCHANGED onChain, fill' = [NotYet EXCEPT !.runs = fill.runs]
    PROVE  fill' \in FillRecord /\ FillInv'
<1>1. PICK n \in Nat : n = fill.runs
  BY DEF BackfillTypes, FillRecord
<1>2. [NotYet EXCEPT !.runs = n] \in FillRecord
  BY DEF NotYet, FillRecord
<1>3. PICK f \in FillRecord : f = [NotYet EXCEPT !.runs = n]
  BY <1>2
<1>4. /\ f.at = "none" /\ f.pc = "off" /\ f.write = 1
      /\ f.reserves = [p \in Priceable |-> {}] /\ f.cursors = [p \in Priceable |-> 0]
  BY <1>3 DEF NotYet
<1> QED
  BY <1>1, <1>3, <1>4, BlankFill

LEMMA WriteStep == ASSUME BackfillInv, WriteStatement PROVE BackfillInv'
<1>0. /\ BackfillTypes /\ RowsInv /\ FillInv /\ UNCHANGED <<onChain, cron>> /\ fill.pc = "write"
      /\ fill.write \in 1..4
  BY DEF WriteStatement, BackfillInv, BackfillTypes, FillRecord
<1>1. /\ tables' \in [pools : SUBSET Priceable, reserves : [Priceable -> SUBSET Nat],
                      cursor : [Priceable -> Nat]]
      /\ \A p \in Priceable :
            /\ tables.reserves[p] \subseteq tables'.reserves[p] /\ tables'.reserves[p] \subseteq Had(p)
            /\ \/ tables'.cursor[p] = tables.cursor[p]
               \/ /\ tables'.cursor[p] <= onChain[p]
                  /\ Between(0, tables'.cursor[p]) \subseteq tables.reserves[p]
            /\ fill.write + 1 > 2 => fill.reserves[p] \subseteq tables'.reserves[p]
      /\ served' \in [Priceable -> Nat]
      /\ \A p \in Priceable : served'[p] > 0 => served'[p] \in tables'.reserves[p]
  <2>1. CASE fill.write = 1
    <3>1. tables' = Listed(Priceable) /\ UNCHANGED served
      BY <2>1, StatementsAre DEF WriteStatement
    <3> QED
      BY <1>0, <2>1, <3>1, ListedGrows DEF RowsInv, BackfillTypes
  <2>2. CASE fill.write = 2
    <3>1. tables' = Stored(onChain) /\ UNCHANGED served
      BY <2>2, StatementsAre DEF WriteStatement
    <3>2. /\ tables' \in [pools : SUBSET Priceable, reserves : [Priceable -> SUBSET Nat],
                          cursor : [Priceable -> Nat]]
          /\ tables'.cursor = tables.cursor
          /\ \A p \in Priceable : tables'.reserves[p]
                = tables.reserves[p] \cup {n \in fill.reserves[p] : n <= onChain[p]}
      BY <1>0, <3>1, StoredGrows
    <3>3. \A p \in Priceable : fill.reserves[p] \subseteq Had(p)
      BY <1>0 DEF FillInv
    <3>4. ASSUME NEW p \in Priceable
          PROVE  tables'.reserves[p] = tables.reserves[p] \cup fill.reserves[p]
      <4>1. \A n \in fill.reserves[p] : n <= onChain[p]
        BY <1>0, <3>3 DEF Had, BackfillTypes
      <4> QED
        BY <3>2, <4>1
    <3>5. served' = served
      BY <3>1
    <3> QED
      BY <1>0, <3>2, <3>3, <3>4, <3>5 DEF RowsInv, BackfillTypes
  <2>3. CASE fill.write = 3
    <3>1. /\ UNCHANGED tables /\ served' = [p \in Priceable |-> Furthest(fill.reserves[p])]
      BY <2>3, StatementsAre DEF WriteStatement
    <3>2. /\ fill.reserves \in [Priceable -> SUBSET Nat]
          /\ \A p \in Priceable : /\ fill.reserves[p] \subseteq Had(p)
                                  /\ fill.reserves[p] \subseteq tables.reserves[p]
      BY <1>0, <2>3 DEF BackfillTypes, FillRecord, FillInv
    <3>3. /\ served' \in [Priceable -> Nat]
          /\ \A p \in Priceable : served'[p] > 0 => served'[p] \in fill.reserves[p]
      BY <1>0, <3>1, <3>2, SeriesReaches
    <3> QED
      BY <1>0, <3>1, <3>2, <3>3 DEF RowsInv, BackfillTypes
  <2>4. CASE fill.write = 4
    <3>1. tables' = Advanced(Priceable) /\ UNCHANGED served
      BY <2>4, StatementsAre DEF WriteStatement
    <3>2. /\ tables' \in [pools : SUBSET Priceable, reserves : [Priceable -> SUBSET Nat],
                          cursor : [Priceable -> Nat]]
          /\ tables'.reserves = tables.reserves
          /\ \A p \in Priceable : tables'.cursor[p] \in {tables.cursor[p], fill.cursors[p]}
      BY <1>0, <3>1, AdvancedMoves
    <3>3. \A p \in Priceable :
             /\ fill.cursors[p] <= onChain[p] /\ fill.reserves[p] \subseteq tables.reserves[p]
             /\ Between(0, fill.cursors[p]) \subseteq tables.reserves[p]
      BY <1>0, <2>4 DEF FillInv
    <3> QED
      BY <1>0, <3>1, <3>2, <3>3 DEF RowsInv, BackfillTypes
  <2> QED
    BY <1>0, <2>1, <2>2, <2>3, <2>4
<1>2. fill' \in FillRecord /\ FillInv'
  <2>1. CASE fill.write = Len(Statements)
    <3>1. fill' = [NotYet EXCEPT !.runs = fill.runs]
      BY <2>1 DEF WriteStatement
    <3> QED
      BY <1>0, <3>1, RestedFill
  <2>2. CASE fill.write # Len(Statements)
    <3>1. fill' = [fill EXCEPT !.write = @ + 1]
      BY <2>2 DEF WriteStatement
    <3>2. fill.write + 1 \in 1..4
      BY <1>0, <2>2, StatementsAre
    <3>3. /\ fill' \in FillRecord /\ fill'.pc = "write" /\ fill'.at = fill.at
          /\ fill'.cursor = fill.cursor /\ fill'.reserves = fill.reserves
          /\ fill'.cursors = fill.cursors /\ fill'.write = fill.write + 1
      BY <1>0, <3>1, <3>2 DEF BackfillTypes, FillRecord
    <3> QED
      BY <1>0, <1>1, <3>3 DEF FillInv, Had
  <2> QED
    BY <2>1, <2>2
<1> QED
  BY <1>0, <1>1, <1>2, TablesGrow

LEMMA FillStopsStep == ASSUME BackfillInv, FillStops PROVE BackfillInv'
<1>0. /\ BackfillTypes /\ RowsInv /\ FillInv /\ UNCHANGED <<onChain, served, cron>>
      /\ fill' = [NotYet EXCEPT !.runs = fill.runs] /\ fill.write \in 1..4
  BY DEF FillStops, BackfillInv, BackfillTypes, FillRecord
<1>1. fill' \in FillRecord /\ FillInv'
  BY <1>0, RestedFill
<1>2. /\ tables' \in [pools : SUBSET Priceable, reserves : [Priceable -> SUBSET Nat],
                      cursor : [Priceable -> Nat]]
      /\ \A p \in Priceable :
            /\ tables.reserves[p] \subseteq tables'.reserves[p] /\ tables'.reserves[p] \subseteq Had(p)
            /\ \/ tables'.cursor[p] = tables.cursor[p]
               \/ /\ tables'.cursor[p] <= onChain[p]
                  /\ Between(0, tables'.cursor[p]) \subseteq tables.reserves[p]
  <2>1. CASE UNCHANGED tables
    BY <1>0, <2>1 DEF RowsInv, BackfillTypes
  <2>2. ASSUME NEW done \in SUBSET Priceable, tables' = Listed(done) PROVE <1>2!1 /\ <1>2!2
    BY <1>0, <2>2, ListedGrows DEF RowsInv
  <2>3. ASSUME NEW cut, tables' = Stored(cut) PROVE <1>2!1 /\ <1>2!2
    <3>1. /\ tables' \in [pools : SUBSET Priceable, reserves : [Priceable -> SUBSET Nat],
                          cursor : [Priceable -> Nat]]
          /\ tables'.cursor = tables.cursor
          /\ \A p \in Priceable : tables'.reserves[p]
                = tables.reserves[p] \cup {n \in fill.reserves[p] : n <= cut[p]}
      BY <1>0, <2>3, StoredGrows
    <3>2. \A p \in Priceable : fill.reserves[p] \subseteq Had(p)
      BY <1>0 DEF FillInv
    <3> QED
      BY <1>0, <3>1, <3>2 DEF RowsInv
  <2>4. ASSUME NEW done \in SUBSET Priceable, tables' = Advanced(done),
               fill.pc = "write", Statements[fill.write] = "cursors"
        PROVE  <1>2!1 /\ <1>2!2
    <3>1. /\ tables' \in [pools : SUBSET Priceable, reserves : [Priceable -> SUBSET Nat],
                          cursor : [Priceable -> Nat]]
          /\ tables'.reserves = tables.reserves
          /\ \A p \in Priceable : tables'.cursor[p] \in {tables.cursor[p], fill.cursors[p]}
      BY <1>0, <2>4, AdvancedMoves
    <3>2. fill.write = 4
      BY <1>0, <2>4, StatementsAre
    <3>3. \A p \in Priceable :
             /\ fill.cursors[p] <= onChain[p] /\ fill.reserves[p] \subseteq tables.reserves[p]
             /\ Between(0, fill.cursors[p]) \subseteq tables.reserves[p]
      BY <1>0, <2>4, <3>2 DEF FillInv
    <3> QED
      BY <1>0, <3>1, <3>3 DEF RowsInv
  <2> QED
    BY <2>1, <2>2, <2>3, <2>4 DEF FillStops
<1>3. /\ served' \in [Priceable -> Nat]
      /\ \A p \in Priceable : served'[p] > 0 => served'[p] \in tables'.reserves[p]
  BY <1>0, <1>2 DEF RowsInv, BackfillTypes
<1> QED
  BY <1>0, <1>1, <1>2, <1>3, TablesGrow

\* backfill-prices.mjs:14-16, ingest.ts:184-202.  Safe to re-run or to run after
\* the cron has started: for any pools, any histories and any page size, and
\* wherever runs of either stop.
THEOREM BackfillIsSafe == BackfillSpec => []BackfillLosesNothing
<1>1. BackfillInv /\ [BackfillNext]_backfillVars => BackfillInv'
  <2> SUFFICES ASSUME BackfillInv, [BackfillNext]_backfillVars PROVE BackfillInv'
    OBVIOUS
  <2>1. CASE UNCHANGED backfillVars
    <3>1. UNCHANGED <<onChain, tables, served, cron, fill>>
      BY <2>1 DEF backfillVars
    <3>2. BackfillTypes' /\ RowsInv'
      BY <3>1 DEF BackfillInv, BackfillTypes, RowsInv, Had
    <3> QED
      BY <3>1, <3>2 DEF BackfillInv, CronInv, FillInv, Had
  <2>2. CASE \E p \in Priceable : PoolEvent(p) \/ CronReads(p) \/ NextPool(p)
    BY <2>2, PoolEventStep, CronReadsStep, NextPoolStep
  <2>3. CASE CronStores \/ CronMovesCursor \/ CronRebuilds \/ CronEnds
    BY <2>3, CronStoresStep, CronMovesStep, CronRebuildsStep, CronEndsStep
  <2>4. CASE \E found \in SUBSET Listable : ListPools(found)
    BY <2>4, ListPoolsStep
  <2>5. CASE ReadPage \/ ComputeSeries \/ WriteStatement \/ FillStops
    BY <2>5, ReadPageStep, ComputeStep, WriteStep, FillStopsStep
  <2> QED
    BY <2>1, <2>2, <2>3, <2>4, <2>5 DEF BackfillNext
<1>2. BackfillInv => BackfillLosesNothing
  BY DEF BackfillInv, RowsInv, BackfillLosesNothing
<1> QED
  BY <1>1, <1>2, BackfillStarts, PTL DEF BackfillSpec

-----------------------------------------------------------------------------
(***************************************************************************)
(* The prices of the cron.  What a pool's cursor covers is stored, for any *)
(* pools, pages and overlapping runs: the page that a run holds begins     *)
(* where everything is stored, and its cursor is moved after its rows.     *)
(***************************************************************************)

MemoryFields ==
    {"pc", "changed", "clean", "fresh", "todo", "upTo", "at", "pages", "page", "prev"}

\* All updates of a pool up to n are stored.
StoredTo(p, n) == n \in Nat /\ 1..n \subseteq reserves[p]

\* What a run may rely on in the step of the reserves.
ReserveMemory(m) ==
    /\ DOMAIN m = MemoryFields /\ m.clean \in BOOLEAN
    /\ m.pc \in {"reserves", "poolCursor"} =>
          /\ m.todo # {} /\ m.todo \subseteq Pool /\ m.pages \in Nat
          /\ m.pages # 0 \/ m.pc = "poolCursor" => StoredTo(Turn(m.todo), m.at)

ReserveInv ==
    /\ TypeOK
    /\ \A p \in Pool : 1..cursor[p] \subseteq reserves[p]
    /\ DOMAIN reserves = Pool /\ DOMAIN run = Run
    /\ \A r \in Run : ReserveMemory(run[r])

LEMMA AtStepIs ==
    ASSUME NEW pc, NEW changed, NEW clean
    PROVE  LET m == AtStep(pc, changed, clean) IN
           /\ DOMAIN m = MemoryFields /\ m.pc = pc /\ m.changed = changed /\ m.clean = clean
           /\ m.fresh = None /\ m.todo = {} /\ m.upTo = None /\ m.at = None /\ m.pages = 0
           /\ m.page = NoHours /\ m.prev = None
BY DEF AtStep, MemoryFields

LEMMA AtQuotesIs ==
    ASSUME NEW active, NEW changed, NEW clean
    PROVE  LET m == AtQuotes(active, changed, clean) IN
           /\ DOMAIN m = MemoryFields /\ m.pc = "quotes" /\ m.changed = changed /\ m.clean = clean
           /\ m.fresh = None /\ m.todo = {QuoteOf[p] : p \in active} \cap Quote /\ m.upTo = now
           /\ m.at = None /\ m.pages = 0 /\ m.page = NoHours /\ m.prev = None
BY DEF AtQuotes, AtStep, MemoryFields

\* A run that leaves the step of the reserves holds no page of it.
LEMMA ToQuotesLeaves ==
    ASSUME NEW m, DOMAIN m = MemoryFields
    PROVE  /\ ToQuotes(m).pc \in {"quotes", "price"}
           /\ DOMAIN ToQuotes(m) = MemoryFields /\ ToQuotes(m).clean = m.clean
<1>1. CASE m.todo # {}
  BY <1>1 DEF ToQuotes, MemoryFields
<1>2. CASE m.todo = {}
  BY <1>2, AtStepIs DEF ToQuotes
<1> QED
  BY <1>1, <1>2

LEMMA ToReservesIs ==
    ASSUME NEW active, NEW m, DOMAIN m = MemoryFields, m.todo \subseteq Pool, m.pages = 0
    PROVE  LET n == ToReserves(active, m) IN
           /\ DOMAIN n = MemoryFields /\ n.clean = m.clean
           /\ n.pc \in {"quotes", "price"} \/ (/\ n.pc = "reserves" /\ n.todo # {}
                                               /\ n.todo \subseteq Pool /\ n.pages = 0)
<1>1. CASE m.todo # {}
  BY <1>1 DEF ToReserves, MemoryFields
<1>2. CASE m.todo = {}
  BY <1>2, AtQuotesIs, ToQuotesLeaves DEF ToReserves
<1> QED
  BY <1>1, <1>2

LEMMA TurnIs == ASSUME NEW S, S # {} PROVE Turn(S) \in S
BY DEF Turn

\* A bound of the check: no hour has more trades than there may be.
LEMMA TradesBounded ==
    ASSUME NEW f \in [Hour -> Nat], NEW h \in Hour
    PROVE  f[h] <= SumFunctionOnSet(f, Hour)
<1>1. IsFiniteSet(Hour)
  BY PriceAssumption, FS_Interval DEF Hour
<1>2. IsFiniteSet(Hour \ {h})
  BY <1>1, FS_Subset
<1>3. SumFunctionOnSet(f, Hour) = f[h] + SumFunctionOnSet(f, Hour \ {h})
  BY <1>1, SumRemove
<1>4. SumFunctionOnSet(f, Hour \ {h}) \in Nat
  BY <1>2, SumNat
<1>5. f[h] \in Nat
  OBVIOUS
<1> QED
  BY <1>3, <1>4, <1>5

\* The memory of a run that has not reached the reserves, or is past them.
LEMMA ResetIsSafe ==
    ASSUME NEW m, DOMAIN m = MemoryFields, m.clean \in BOOLEAN,
           m.pc \notin {"reserves", "poolCursor"}
    PROVE  ReserveMemory(m)
BY DEF ReserveMemory

LEMMA ResetStepIsSafe ==
    ASSUME NEW pc \in {"idle", "quotes", "price", "liquidity"}, NEW changed, NEW clean \in BOOLEAN
    PROVE  ReserveMemory(AtStep(pc, changed, clean))
<1> DEFINE m == AtStep(pc, changed, clean)
<1>1. DOMAIN m = MemoryFields /\ m.pc = pc /\ m.clean = clean
  BY AtStepIs
<1> HIDE DEF m
<1>2. ReserveMemory(m)
  BY <1>1, ResetIsSafe
<1> QED
  BY <1>2 DEF m

LEMMA ReserveStarts == Init => ReserveInv
<1> SUFFICES ASSUME Init PROVE ReserveInv
  OBVIOUS
<1>0. MaxTime \in Nat /\ MaxFaults \in Nat /\ MaxTrades \in Nat /\ MaxTrades # 0
      /\ InitialPools \subseteq Pool
  BY PriceAssumption
<1>1. now = 0 /\ registered = InitialPools /\ faults = 0 /\ mishaps = {} /\ settled = FALSE
  BY DEF Init
<1>2. chain = [p \in Pool |-> <<>>] /\ pools = [p \in Pool |-> "absent"]
      /\ reserves = [p \in Pool |-> {}] /\ cursor = [p \in Pool |-> 0]
  BY DEF Init
<1>3. market = [q \in Quote |-> [h \in Hour |-> IF h = 0 THEN 1 ELSE 0]]
  BY DEF Init
<1>4. run = [r \in Run |-> AtStep("idle", None, TRUE)]
  BY DEF Init
<1> HIDE DEF Init
<1>5. market \in [Quote -> [Hour -> 0..MaxTrades]]
  <2>1. [h \in Hour |-> IF h = 0 THEN 1 ELSE 0] \in [Hour -> 0..MaxTrades]
    BY <1>0
  <2> QED
    BY <1>3, <2>1
<1>6. chain \in [Pool -> Seq(Hour)] /\ cursor \in [Pool -> Nat]
      /\ pools \in [Pool -> {"absent", "active", "inactive"}]
  BY <1>2
<1>7. now \in Hour /\ faults \in 0..MaxFaults /\ registered \in SUBSET Pool
      /\ settled \in BOOLEAN /\ mishaps \subseteq {"failure", "overlap", "removal"}
  <2>1. now \in Hour /\ faults \in 0..MaxFaults
    BY <1>0, <1>1 DEF Hour
  <2>2. registered \in SUBSET Pool /\ mishaps \subseteq {"failure", "overlap", "removal"}
    BY <1>0, <1>1
  <2>3. settled \in BOOLEAN
    BY <1>1
  <2> QED
    BY <2>1, <2>2, <2>3
<1>8. \A p \in Pool : reserves[p] \subseteq DOMAIN chain[p]
  BY <1>2
<1>9. TypeOK
  BY <1>5, <1>6, <1>7, <1>8 DEF TypeOK
<1>10. \A r \in Run : ReserveMemory(run[r])
  <2>1. ReserveMemory(AtStep("idle", None, TRUE))
    BY ResetStepIsSafe
  <2> QED
    BY <1>4, <2>1
<1>11. \A p \in Pool : 1..cursor[p] \subseteq reserves[p]
  <2>1. 1..0 = {}
    OBVIOUS
  <2> QED
    BY <1>2, <2>1
<1>12. DOMAIN reserves = Pool /\ DOMAIN run = Run
  BY <1>2, <1>4
<1> QED
  BY <1>9, <1>10, <1>11, <1>12 DEF ReserveInv

\* One run goes on; the tables keep what they have.
LEMMA ReserveRunMoves ==
    ASSUME ReserveInv, TypeOK', NEW r \in Run, NEW m, ReserveMemory(m)',
           run' = [run EXCEPT ![r] = m], DOMAIN reserves' = Pool,
           \A p \in Pool : reserves[p] \subseteq reserves'[p],
           \A p \in Pool : 1..cursor'[p] \subseteq reserves'[p]
    PROVE  ReserveInv'
<1>1. \A q \in Run \ {r} : run'[q] = run[q] /\ ReserveMemory(run[q])
  BY DEF ReserveInv
<1>2. DOMAIN run' = Run /\ run'[r] = m
  BY DEF ReserveInv
<1>3. ASSUME NEW q \in Run \ {r} PROVE ReserveMemory(run[q])'
  <2>1. ReserveMemory(run[q]) /\ run'[q] = run[q]
    BY <1>1
  <2>2. run[q].pc \in {"reserves", "poolCursor"} => Turn(run[q].todo) \in Pool
    BY <2>1, TurnIs DEF ReserveMemory
  <2> QED
    BY <2>1, <2>2 DEF ReserveMemory, StoredTo
<1> QED
  BY <1>1, <1>2, <1>3 DEF ReserveInv

\* Steps that leave the chain, the market and the registry as they are.
LEMMA ReserveTypes ==
    ASSUME TypeOK, UNCHANGED world, pools' \in [Pool -> {"absent", "active", "inactive"}],
           \A p \in Pool : reserves'[p] \subseteq DOMAIN chain[p], cursor' \in [Pool -> Nat],
           faults' \in 0..MaxFaults, settled' \in BOOLEAN,
           mishaps' \subseteq {"failure", "overlap", "removal"}
    PROVE  TypeOK'
BY DEF TypeOK, world

LEMMA ReserveTypesKept ==
    ASSUME TypeOK, UNCHANGED <<world, pools, reserves, cursor, history>>
    PROVE  TypeOK'
BY DEF TypeOK, world, history

LEMMA ReserveStartRun ==
    ASSUME ReserveInv, NEW r \in Run, StartRun(r)
    PROVE  ReserveInv'
<1>0. TypeOK /\ DOMAIN reserves = Pool /\ DOMAIN run = Run
      /\ \A q \in Run : ReserveMemory(run[q])
  BY DEF ReserveInv
<1>1. UNCHANGED <<world, reserves, cursor>> /\ settled' = FALSE
  BY DEF StartRun
<1> DEFINE Alone == \A q \in Run : run[q].pc = "idle"
           M == [AtStep("reserves", None, Alone) EXCEPT !.todo = Active']
           N == ToReserves(Active', M)
<1>2. run' = [q \in Run |-> IF q = r THEN N ELSE [run[q] EXCEPT !.clean = FALSE]]
  BY Zenon DEF StartRun
<1>3. PICK missed \in SUBSET {p \in registered : pools[p] = "absent"} :
          /\ missed # {} => faults < MaxFaults
          /\ faults' = IF missed = {} THEN faults ELSE faults + 1
          /\ pools' = [p \in Pool |->
                IF p \in registered \ missed THEN "active"
                ELSE IF pools[p] = "absent" THEN "absent" ELSE "inactive"]
  BY DEF StartRun
<1>4. mishaps' \in {mishaps, mishaps \cup {"overlap"}}
  BY DEF StartRun
<1>5. TypeOK'
  <2>1. faults' \in 0..MaxFaults
    <3>1. faults \in 0..MaxFaults /\ MaxFaults \in Nat
      BY <1>0, PriceAssumption DEF TypeOK
    <3> QED
      BY <3>1, <1>3
  <2>2. mishaps' \subseteq {"failure", "overlap", "removal"}
    BY <1>0, <1>4 DEF TypeOK
  <2>3. pools' \in [Pool -> {"absent", "active", "inactive"}]
    BY <1>3
  <2>4. cursor' \in [Pool -> Nat] /\ \A p \in Pool : reserves'[p] \subseteq DOMAIN chain[p]
    BY <1>0, <1>1 DEF TypeOK
  <2>5. settled' \in BOOLEAN
    BY <1>1
  <2> QED
    BY <1>0, <1>1, <2>1, <2>2, <2>3, <2>4, <2>5, ReserveTypes
<1>6. Active' \subseteq Pool
  BY DEF Active
<1>7. DOMAIN M = MemoryFields /\ M.todo = Active' /\ M.pages = 0 /\ M.clean = Alone
  BY DEF AtStep, MemoryFields
<1> HIDE DEF Alone, M
<1>8. /\ DOMAIN N = MemoryFields /\ N.clean = M.clean
      /\ N.pc \in {"quotes", "price"} \/ (/\ N.pc = "reserves" /\ N.todo # {}
                                          /\ N.todo \subseteq Pool /\ N.pages = 0)
  BY <1>6, <1>7, ToReservesIs
<1> HIDE DEF N
<1>10. DOMAIN run' = Run /\ run'[r] = N
  BY <1>2
<1>13. ReserveMemory(run[r])'
  <2>1. Alone \in BOOLEAN
    BY DEF Alone
  <2>2. N.clean \in BOOLEAN
    BY <1>7, <1>8, <2>1
  <2> QED
    BY <1>8, <1>10, <2>2 DEF ReserveMemory
<1>9. ASSUME NEW q \in Run, q # r PROVE ReserveMemory(run[q])'
  <2>1. ReserveMemory(run[q])
    BY <1>0
  <2>2. PICK old : old = run[q]
    OBVIOUS
  <2>3. PICK m : m = [old EXCEPT !.clean = FALSE]
    OBVIOUS
  <2>4. run'[q] = m
    BY <1>2, <1>9, <2>2, <2>3
  <2>5. DOMAIN m = MemoryFields /\ m.clean \in BOOLEAN /\ m.pc = old.pc /\ m.todo = old.todo
        /\ m.pages = old.pages /\ m.at = old.at
    BY <2>1, <2>2, <2>3 DEF ReserveMemory, MemoryFields
  <2>6. reserves' = reserves
    BY <1>1
  <2> QED
    BY <2>1, <2>2, <2>4, <2>5, <2>6 DEF ReserveMemory, StoredTo
<1>11. \A q \in Run : ReserveMemory(run[q])'
  BY <1>9, <1>13
<1>12. \A p \in Pool : 1..cursor'[p] \subseteq reserves'[p]
  BY <1>1 DEF ReserveInv
<1> QED
  BY <1>0, <1>1, <1>5, <1>10, <1>11, <1>12 DEF ReserveInv

LEMMA LesserOfTwo ==
    ASSUME NEW a \in Int, NEW b \in Int
    PROVE  Min({a, b}) \in {a, b} /\ Min({a, b}) <= a /\ Min({a, b}) <= b
BY DEF Min

LEMMA ReserveFetchReserves ==
    ASSUME ReserveInv, NEW r \in Run, FetchReserves(r)
    PROVE  ReserveInv'
<1>0. TypeOK /\ DOMAIN reserves = Pool /\ DOMAIN run = Run /\ ReserveMemory(run[r])
      /\ \A p \in Pool : 1..cursor[p] \subseteq reserves[p]
  BY DEF ReserveInv
<1> DEFINE p    == Turn(run[r].todo)
           from == IF run[r].pages = 0 THEN cursor[p] ELSE run[r].at
           last == Min({Len(chain[p]), from + PoolLimit})
           ids  == (from + 1)..last
<1>1. run[r].pc = "reserves" /\ run[r].todo # {}
      /\ reserves' = [reserves EXCEPT ![p] = @ \cup ids]
      /\ Reset(r, [run[r] EXCEPT
           !.pc = "poolCursor", !.at = last,
           !.pages = IF Cardinality(ids) = PoolLimit THEN @ + 1 ELSE PoolPages,
           !.fresh = Least(@, EarliestHour(ids, p))])
  BY DEF FetchReserves
<1>2. UNCHANGED <<world, pools, cursor, history>>
  BY DEF FetchReserves
<1>3. PICK old : old = run[r]
  OBVIOUS
<1>4. DOMAIN old = MemoryFields /\ old.clean \in BOOLEAN /\ old.todo \subseteq Pool
      /\ old.pages \in Nat /\ (old.pages # 0 => StoredTo(p, old.at)) /\ p = Turn(old.todo)
  BY <1>0, <1>1, <1>3 DEF ReserveMemory
<1>5. p \in Pool
  BY <1>1, <1>3, <1>4, TurnIs
<1>6. from \in Nat /\ 1..from \subseteq reserves[p]
  <2>1. CASE run[r].pages = 0
    BY <1>0, <1>5, <2>1 DEF TypeOK
  <2>2. CASE run[r].pages # 0
    BY <1>3, <1>4, <2>2 DEF StoredTo
  <2> QED
    BY <2>1, <2>2
<1>7. chain[p] \in Seq(Hour) /\ PoolLimit \in Nat /\ PoolPages \in Nat
  BY <1>0, <1>5, PriceAssumption DEF TypeOK
<1> HIDE DEF from, p
<1>8. last \in Nat /\ last <= Len(chain[p])
  <2>1. Len(chain[p]) \in Nat /\ from + PoolLimit \in Nat
    BY <1>6, <1>7
  <2>2. Len(chain[p]) \in Int /\ from + PoolLimit \in Int
    BY <2>1
  <2>3. last \in {Len(chain[p]), from + PoolLimit} /\ last <= Len(chain[p])
    BY <2>2, LesserOfTwo, Zenon
  <2> QED
    BY <2>1, <2>3
<1> HIDE DEF last
<1>9. 1..last \subseteq reserves[p] \cup ids /\ ids \subseteq 1..Len(chain[p])
  BY <1>6, <1>7, <1>8
<1>10. PICK pages : pages = IF Cardinality(ids) = PoolLimit THEN old.pages + 1 ELSE PoolPages
  OBVIOUS
<1>11. pages \in Nat
  BY <1>4, <1>7, <1>10
<1>12. PICK fresh : fresh = Least(old.fresh, EarliestHour(ids, p))
  OBVIOUS
<1>13. PICK m : m = [old EXCEPT !.pc = "poolCursor", !.at = last, !.pages = pages, !.fresh = fresh]
  OBVIOUS
<1>14. run' = [run EXCEPT ![r] = m]
  BY <1>1, <1>3, <1>10, <1>12, <1>13 DEF Reset
<1>15. DOMAIN m = MemoryFields /\ m.pc = "poolCursor" /\ m.at = last /\ m.pages = pages
       /\ m.clean = old.clean /\ m.todo = old.todo
  BY <1>4, <1>13 DEF MemoryFields
<1> HIDE DEF ids
<1>16. reserves'[p] = reserves[p] \cup ids
       /\ (\A x \in Pool \ {p} : reserves'[x] = reserves[x])
       /\ DOMAIN reserves' = Pool
  BY <1>0, <1>1, <1>5
<1>17. TypeOK'
  <2>1. \A x \in Pool : reserves'[x] \subseteq DOMAIN chain[x]
    <3>1. DOMAIN chain[p] = 1..Len(chain[p])
      BY <1>7
    <3>2. \A x \in Pool : reserves[x] \subseteq DOMAIN chain[x]
      BY <1>0 DEF TypeOK
    <3> QED
      BY <1>9, <1>16, <3>1, <3>2
  <2>2. pools' \in [Pool -> {"absent", "active", "inactive"}] /\ cursor' \in [Pool -> Nat]
        /\ faults' \in 0..MaxFaults /\ settled' \in BOOLEAN
        /\ mishaps' \subseteq {"failure", "overlap", "removal"}
    BY <1>0, <1>2 DEF TypeOK, history
  <2> QED
    BY <1>0, <1>2, <2>1, <2>2, ReserveTypes
<1>18. ReserveMemory(m)'
  BY <1>1, <1>3, <1>4, <1>8, <1>9, <1>11, <1>15, <1>16 DEF ReserveMemory, StoredTo
<1>19. \A x \in Pool : reserves[x] \subseteq reserves'[x]
  BY <1>16
<1>20. \A x \in Pool : 1..cursor'[x] \subseteq reserves'[x]
  BY <1>0, <1>2, <1>19
<1> QED
  BY <1>14, <1>16, <1>17, <1>18, <1>19, <1>20, ReserveRunMoves

LEMMA ReserveMovePoolCursor ==
    ASSUME ReserveInv, NEW r \in Run, MovePoolCursor(r)
    PROVE  ReserveInv'
<1>0. TypeOK /\ DOMAIN reserves = Pool /\ DOMAIN run = Run /\ ReserveMemory(run[r])
      /\ \A p \in Pool : 1..cursor[p] \subseteq reserves[p]
  BY DEF ReserveInv
<1> DEFINE p    == Turn(run[r].todo)
           more == run[r].pages < PoolPages
<1>3. PICK old : old = run[r]
  OBVIOUS
<1> DEFINE rest == [old EXCEPT !.todo = @ \ {p}, !.at = None, !.pages = 0]
<1>1. old.pc = "poolCursor" /\ cursor' = [cursor EXCEPT ![p] = old.at]
  BY <1>3 DEF MovePoolCursor
<1>2. UNCHANGED <<world, pools, reserves, history>>
  BY DEF MovePoolCursor
<1>4. DOMAIN old = MemoryFields /\ old.clean \in BOOLEAN /\ old.todo # {}
      /\ old.todo \subseteq Pool
      /\ old.pages \in Nat /\ StoredTo(p, old.at) /\ p = Turn(old.todo)
  BY <1>0, <1>1, <1>3 DEF ReserveMemory
<1>5. p \in Pool
  BY <1>3, <1>4, TurnIs
<1> HIDE DEF p, more
<1>6. PICK m : m = IF more THEN [old EXCEPT !.pc = "reserves"] ELSE ToReserves(Active, rest)
  OBVIOUS
<1>7. run' = [run EXCEPT ![r] = m]
  BY <1>3, <1>6 DEF MovePoolCursor, Reset, p, more
<1>8. cursor'[p] = old.at /\ \A x \in Pool \ {p} : cursor'[x] = cursor[x]
  BY <1>0, <1>1, <1>5 DEF TypeOK
<1>9. old.at \in Nat /\ 1..old.at \subseteq reserves[p]
  BY <1>4 DEF StoredTo
<1>10. TypeOK'
  <2>1. cursor' \in [Pool -> Nat]
    BY <1>0, <1>1, <1>5, <1>9 DEF TypeOK
  <2>2. pools' \in [Pool -> {"absent", "active", "inactive"}]
        /\ faults' \in 0..MaxFaults /\ settled' \in BOOLEAN
        /\ mishaps' \subseteq {"failure", "overlap", "removal"}
    BY <1>0, <1>2 DEF TypeOK, history
  <2>3. \A x \in Pool : reserves'[x] \subseteq DOMAIN chain[x]
    BY <1>0, <1>2 DEF TypeOK
  <2> QED
    BY <1>0, <1>2, <2>1, <2>2, <2>3, ReserveTypes
<1>11. reserves' = reserves
  BY <1>2
<1>12. ReserveMemory(m)'
  <2>1. CASE more
    <3>1. m = [old EXCEPT !.pc = "reserves"]
      BY <1>6, <2>1
    <3>2. DOMAIN m = MemoryFields /\ m.pc = "reserves" /\ m.clean = old.clean
          /\ m.todo = old.todo /\ m.pages = old.pages /\ m.at = old.at
      BY <1>4, <3>1 DEF MemoryFields
    <3> QED
      BY <1>4, <1>9, <1>11, <3>2 DEF ReserveMemory, StoredTo
  <2>2. CASE ~more
    <3>1. PICK n : n = rest
      OBVIOUS
    <3>2. DOMAIN n = MemoryFields /\ n.todo \subseteq Pool /\ n.pages = 0 /\ n.clean = old.clean
      BY <1>4, <3>1 DEF MemoryFields
    <3>3. m = ToReserves(Active, n)
      BY <1>6, <2>2, <3>1
    <3>4. /\ DOMAIN m = MemoryFields /\ m.clean = n.clean
          /\ m.pc \in {"quotes", "price"} \/ (/\ m.pc = "reserves" /\ m.todo # {}
                                              /\ m.todo \subseteq Pool /\ m.pages = 0)
      BY <3>2, <3>3, ToReservesIs
    <3> QED
      BY <1>4, <3>2, <3>4 DEF ReserveMemory
  <2> QED
    BY <2>1, <2>2
<1>13. \A x \in Pool : 1..cursor'[x] \subseteq reserves'[x]
  BY <1>0, <1>8, <1>9, <1>11
<1> QED
  BY <1>0, <1>7, <1>10, <1>11, <1>12, <1>13, ReserveRunMoves

\* The other steps of a run leave the chain, the pools' tables and the cursors alone.
LEMMA ReserveOtherStep ==
    ASSUME ReserveInv, UNCHANGED <<world, pools, reserves, cursor>>,
           faults' \in 0..MaxFaults, settled' \in BOOLEAN,
           mishaps' \subseteq {"failure", "overlap", "removal"},
           NEW r \in Run, NEW m, Reset(r, m), DOMAIN m = MemoryFields, m.clean \in BOOLEAN,
           m.pc \notin {"reserves", "poolCursor"}
    PROVE  ReserveInv'
<1>0. TypeOK /\ DOMAIN reserves = Pool
      /\ \A p \in Pool : 1..cursor[p] \subseteq reserves[p]
  BY DEF ReserveInv
<1>1. TypeOK'
  BY <1>0, ReserveTypes DEF TypeOK
<1>2. ReserveMemory(m)'
  BY DEF ReserveMemory
<1>3. run' = [run EXCEPT ![r] = m]
  BY DEF Reset
<1>4. \A p \in Pool : reserves[p] \subseteq reserves'[p] /\ 1..cursor'[p] \subseteq reserves'[p]
  BY <1>0
<1>5. DOMAIN reserves' = Pool
  BY <1>0
<1> QED
  BY <1>1, <1>2, <1>3, <1>4, <1>5, ReserveRunMoves

LEMMA HistoryTyped ==
    ASSUME TypeOK, UNCHANGED history
    PROVE  /\ faults' \in 0..MaxFaults /\ settled' \in BOOLEAN
           /\ mishaps' \subseteq {"failure", "overlap", "removal"}
BY DEF TypeOK, history

LEMMA ReserveFetchQuotes ==
    ASSUME ReserveInv, NEW r \in Run, FetchQuotes(r)
    PROVE  ReserveInv'
<1>0. TypeOK /\ ReserveMemory(run[r])
  BY DEF ReserveInv
<1>1. UNCHANGED <<world, pools, reserves, cursor, history>>
  BY DEF FetchQuotes, sources
<1>2. PICK old : old = run[r]
  OBVIOUS
<1>3. DOMAIN old = MemoryFields /\ old.clean \in BOOLEAN
  BY <1>0, <1>2 DEF ReserveMemory
<1> DEFINE q    == Turn(run[r].todo)
           from == IF run[r].pages = 0 THEN QuoteStart(q) ELSE run[r].at
           page == MarketPage(q, from, run[r].upTo)
           left == run[r].todo \ {q}
<1>4. PICK m : m = IF NothingToAsk(from, run[r].upTo)
                   THEN ToQuotes([old EXCEPT !.todo = left, !.at = None, !.pages = 0])
                   ELSE [old EXCEPT !.pc = "storeQuotes", !.page = page]
  OBVIOUS
<1>5. Reset(r, m)
  BY <1>2, <1>4 DEF FetchQuotes
<1> HIDE DEF q, from, page, left
<1>6. DOMAIN m = MemoryFields /\ m.clean \in BOOLEAN /\ m.pc \notin {"reserves", "poolCursor"}
  <2>1. CASE NothingToAsk(from, run[r].upTo)
    <3>1. PICK n : n = [old EXCEPT !.todo = left, !.at = None, !.pages = 0]
      OBVIOUS
    <3>2. DOMAIN n = MemoryFields /\ n.clean = old.clean
      BY <1>3, <3>1 DEF MemoryFields
    <3>3. m = ToQuotes(n)
      BY <1>4, <2>1, <3>1
    <3> QED
      BY <1>3, <3>2, <3>3, ToQuotesLeaves
  <2>2. CASE ~NothingToAsk(from, run[r].upTo)
    BY <1>3, <1>4, <2>2 DEF MemoryFields
  <2> QED
    BY <2>1, <2>2
<1> QED
  BY <1>0, <1>1, <1>5, <1>6, HistoryTyped, ReserveOtherStep

LEMMA ReserveStoreQuotes ==
    ASSUME ReserveInv, NEW r \in Run, StoreQuotes(r)
    PROVE  ReserveInv'
<1>0. TypeOK /\ ReserveMemory(run[r])
  BY DEF ReserveInv
<1>1. UNCHANGED <<world, pools, reserves, cursor, history>>
  BY DEF StoreQuotes
<1>2. PICK old : old = run[r]
  OBVIOUS
<1>3. DOMAIN old = MemoryFields /\ old.clean \in BOOLEAN
  BY <1>0, <1>2 DEF ReserveMemory
<1> DEFINE q    == Turn(run[r].todo)
           page == run[r].page
           more == Cardinality(DOMAIN page) = QuoteLimit /\ run[r].pages + 1 < QuotePages
           soon == IF page = NoHours THEN run[r].fresh ELSE Least(run[r].fresh, Min(DOMAIN page))
           next == Max(DOMAIN page) + 1
<1>4. PICK kept : kept = [old EXCEPT !.page = NoHours, !.fresh = soon]
  OBVIOUS
<1>5. PICK m : m = IF more THEN [kept EXCEPT !.pc = "quotes", !.at = next, !.pages = @ + 1]
                   ELSE ToQuotes([kept EXCEPT !.todo = @ \ {q}, !.at = None, !.pages = 0])
  OBVIOUS
<1>6. Reset(r, m)
  BY <1>2, <1>4, <1>5 DEF StoreQuotes
<1> HIDE DEF q, page, more, soon, next
<1>7. DOMAIN kept = MemoryFields /\ kept.clean = old.clean
  BY <1>3, <1>4 DEF MemoryFields
<1>8. DOMAIN m = MemoryFields /\ m.clean \in BOOLEAN /\ m.pc \notin {"reserves", "poolCursor"}
  <2>1. CASE more
    BY <1>3, <1>5, <1>7, <2>1 DEF MemoryFields
  <2>2. CASE ~more
    <3>1. PICK n : n = [kept EXCEPT !.todo = @ \ {q}, !.at = None, !.pages = 0]
      OBVIOUS
    <3>2. DOMAIN n = MemoryFields /\ n.clean = old.clean
      BY <1>7, <3>1 DEF MemoryFields
    <3>3. m = ToQuotes(n)
      BY <1>5, <2>2, <3>1
    <3> QED
      BY <1>3, <3>2, <3>3, ToQuotesLeaves
  <2> QED
    BY <2>1, <2>2
<1> QED
  BY <1>0, <1>1, <1>6, <1>8, HistoryTyped, ReserveOtherStep

LEMMA ReserveStoreHours ==
    ASSUME ReserveInv, NEW r \in Run, StoreHours(r)
    PROVE  ReserveInv'
<1>0. TypeOK /\ ReserveMemory(run[r])
  BY DEF ReserveInv
<1>1. UNCHANGED <<world, pools, reserves, cursor, history>>
  BY DEF StoreHours, sources
<1>2. PICK old : old = run[r]
  OBVIOUS
<1>3. DOMAIN old = MemoryFields /\ old.clean \in BOOLEAN
  BY <1>0, <1>2 DEF ReserveMemory
<1> DEFINE hours  == ComputeHours(Active, Rows, quotes, RebuildFrom(r), now)
           before == IF snapshot = None THEN NoHours ELSE snapshot
<1>4. PICK m : m = IF SkipPrice(r) THEN [old EXCEPT !.pc = "liquidity"]
                   ELSE [old EXCEPT !.pc = "snapshot", !.page = hours, !.prev = before]
  OBVIOUS
<1>5. Reset(r, m)
  BY <1>2, <1>4 DEF StoreHours
<1> HIDE DEF hours, before
<1>6. DOMAIN m = MemoryFields /\ m.clean = old.clean /\ m.pc \in {"liquidity", "snapshot"}
  BY <1>3, <1>4 DEF MemoryFields
<1> QED
  BY <1>0, <1>1, <1>3, <1>5, <1>6, HistoryTyped, ReserveOtherStep

LEMMA ReserveStoreSnapshot ==
    ASSUME ReserveInv, NEW r \in Run, StoreSnapshot(r)
    PROVE  ReserveInv'
<1>0. TypeOK /\ ReserveMemory(run[r])
  BY DEF ReserveInv
<1>1. UNCHANGED <<world, pools, reserves, cursor, history>>
  BY DEF StoreSnapshot, sources
<1>2. PICK m : m = AtStep("liquidity", run[r].changed, run[r].clean)
  OBVIOUS
<1>3. Reset(r, m)
  BY <1>2 DEF StoreSnapshot
<1>4. DOMAIN m = MemoryFields /\ m.clean = run[r].clean /\ m.pc = "liquidity"
  BY <1>2, AtStepIs
<1>5. m.clean \in BOOLEAN
  BY <1>0, <1>4 DEF ReserveMemory
<1> QED
  BY <1>0, <1>1, <1>3, <1>4, <1>5, HistoryTyped, ReserveOtherStep

LEMMA ReserveRebuildLiquidity ==
    ASSUME ReserveInv, NEW r \in Run, RebuildLiquidity(r)
    PROVE  ReserveInv'
<1>0. TypeOK /\ ReserveMemory(run[r])
  BY DEF ReserveInv
<1>1. UNCHANGED <<world, pools, reserves, cursor>>
  BY DEF RebuildLiquidity, sources
<1>2. faults' \in 0..MaxFaults /\ mishaps' \subseteq {"failure", "overlap", "removal"}
  BY <1>0 DEF RebuildLiquidity, TypeOK
<1>3. settled' \in BOOLEAN
  BY <1>0 DEF RebuildLiquidity, ReserveMemory
<1>4. PICK clean \in BOOLEAN : clean = TRUE
  OBVIOUS
<1>5. PICK m : m = AtStep("idle", None, clean)
  OBVIOUS
<1>6. Reset(r, m)
  BY <1>4, <1>5 DEF RebuildLiquidity
<1>7. DOMAIN m = MemoryFields /\ m.clean \in BOOLEAN /\ m.pc = "idle"
  BY <1>5, AtStepIs
<1> QED
  BY <1>1, <1>2, <1>3, <1>6, <1>7, ReserveOtherStep

LEMMA ReserveFail ==
    ASSUME ReserveInv, NEW r \in Run, Fail(r)
    PROVE  ReserveInv'
<1>0. TypeOK /\ ReserveMemory(run[r])
  BY DEF ReserveInv
<1>1. UNCHANGED <<world, pools, reserves, cursor, settled>> /\ run[r].pc # "idle"
      /\ faults < MaxFaults /\ faults' = faults + 1 /\ mishaps' = mishaps \cup {"failure"}
  BY DEF Fail, sources
<1>2. faults' \in 0..MaxFaults
  <2>1. faults \in 0..MaxFaults /\ MaxFaults \in Nat
    BY <1>0, PriceAssumption DEF TypeOK
  <2> QED
    BY <1>1, <2>1
<1>3. settled' \in BOOLEAN /\ mishaps' \subseteq {"failure", "overlap", "removal"}
  BY <1>0, <1>1 DEF TypeOK
<1>4. ASSUME NEW pc \in {"idle", "price", "liquidity"}, NEW changed, NEW clean \in BOOLEAN,
             Reset(r, AtStep(pc, changed, clean))
      PROVE  ReserveInv'
  <2>1. PICK m : m = AtStep(pc, changed, clean)
    OBVIOUS
  <2>2. DOMAIN m = MemoryFields /\ m.clean \in BOOLEAN /\ m.pc = pc
    BY <2>1, AtStepIs
  <2> QED
    BY <1>1, <1>2, <1>3, <1>4, <2>1, <2>2, ReserveOtherStep
<1>5. CASE Reset(r, ToQuotes(AtQuotes(Active, run[r].changed, FALSE)))
  <2>1. PICK clean \in BOOLEAN : clean = FALSE
    OBVIOUS
  <2>2. PICK n : n = AtQuotes(Active, run[r].changed, clean)
    OBVIOUS
  <2>3. DOMAIN n = MemoryFields /\ n.clean \in BOOLEAN
    BY <2>2, AtQuotesIs
  <2>4. PICK m : m = ToQuotes(n)
    OBVIOUS
  <2>5. DOMAIN m = MemoryFields /\ m.clean \in BOOLEAN /\ m.pc \notin {"reserves", "poolCursor"}
    BY <2>3, <2>4, ToQuotesLeaves
  <2>6. Reset(r, m)
    BY <1>5, <2>1, <2>2, <2>4
  <2> QED
    BY <1>1, <1>2, <1>3, <2>5, <2>6, ReserveOtherStep
<1>6. \/ Reset(r, ToQuotes(AtQuotes(Active, run[r].changed, FALSE)))
      \/ \E pc \in {"idle", "price", "liquidity"} : \E changed : \E clean \in BOOLEAN :
            Reset(r, AtStep(pc, changed, clean))
  <2>1. CASE Die(r)
    BY <2>1 DEF Die
  <2>2. CASE AbandonStep(r)
    BY <2>2 DEF AbandonStep
  <2> QED
    BY <2>1, <2>2 DEF Fail
<1> QED
  BY <1>4, <1>5, <1>6

\* The world goes on: no table, no cursor and no run is touched.
LEMMA ReserveWorldMoves ==
    ASSUME ReserveInv, UNCHANGED <<sources, run>>, TypeOK'
    PROVE  ReserveInv'
<1>1. reserves' = reserves /\ cursor' = cursor /\ run' = run
  BY DEF sources
<1>2. \A r \in Run : ReserveMemory(run[r])'
  BY <1>1 DEF ReserveInv, ReserveMemory, StoredTo
<1> QED
  BY <1>1, <1>2 DEF ReserveInv

LEMMA ReserveRegister ==
    ASSUME ReserveInv, NEW p \in Pool, Register(p) \/ Unregister(p)
    PROVE  ReserveInv'
<1>0. TypeOK /\ faults \in 0..MaxFaults /\ MaxFaults \in Nat
  BY PriceAssumption DEF ReserveInv, TypeOK
<1>1. UNCHANGED <<now, chain, market, sources, run, settled>>
  BY DEF Register, Unregister, history
<1>2. faults' \in 0..MaxFaults
  BY <1>0 DEF Register, Unregister, history
<1>3. registered' \in SUBSET Pool /\ mishaps' \subseteq {"failure", "overlap", "removal"}
  BY <1>0 DEF Register, Unregister, history, TypeOK
<1>4. TypeOK'
  BY <1>0, <1>1, <1>2, <1>3 DEF TypeOK, sources
<1> QED
  BY <1>1, <1>4, ReserveWorldMoves

LEMMA ReserveUpdate ==
    ASSUME ReserveInv, NEW p \in Pool, UpdateReserves(p)
    PROVE  ReserveInv'
<1>0. TypeOK
  BY DEF ReserveInv
<1>1. chain' = [chain EXCEPT ![p] = Append(@, now)]
      /\ UNCHANGED <<now, registered, market, sources, run, history>>
  BY DEF UpdateReserves
<1>2. chain[p] \in Seq(Hour) /\ now \in Hour
  BY <1>0 DEF TypeOK
<1>3. chain' \in [Pool -> Seq(Hour)]
  BY <1>0, <1>1, <1>2 DEF TypeOK
<1>4. \A x \in Pool : DOMAIN chain[x] \subseteq DOMAIN chain'[x]
  <2>1. DOMAIN Append(chain[p], now) = 1..Len(chain[p]) + 1 /\ DOMAIN chain[p] = 1..Len(chain[p])
    BY <1>2
  <2>2. chain'[p] = Append(chain[p], now) /\ \A x \in Pool \ {p} : chain'[x] = chain[x]
    BY <1>0, <1>1 DEF TypeOK
  <2>3. Len(chain[p]) \in Nat
    BY <1>2
  <2> QED
    BY <2>1, <2>2, <2>3
<1>5. \A x \in Pool : reserves'[x] \subseteq DOMAIN chain'[x]
  BY <1>0, <1>1, <1>4 DEF TypeOK, sources
<1>6. TypeOK'
  BY <1>0, <1>1, <1>3, <1>5 DEF TypeOK, sources, history
<1> QED
  BY <1>1, <1>6, ReserveWorldMoves

LEMMA ReserveTrade ==
    ASSUME ReserveInv, NEW q \in Quote, Trade(q)
    PROVE  ReserveInv'
<1>0. TypeOK
  BY DEF ReserveInv
<1>1. market' = [market EXCEPT ![q][now] = @ + 1] /\ SumFunctionOnSet(market[q], Hour) < MaxTrades
      /\ UNCHANGED <<now, registered, chain, sources, run, history>>
  BY DEF Trade
<1>2. market \in [Quote -> [Hour -> 0..MaxTrades]] /\ now \in Hour
  BY <1>0 DEF TypeOK
<1>3. MaxTrades \in Nat /\ MaxTime \in Nat
  BY PriceAssumption
<1>4. PICK f : f = market[q]
  OBVIOUS
<1>5. f \in [Hour -> 0..MaxTrades] /\ f \in [Hour -> Nat]
  BY <1>2, <1>3, <1>4
<1>6. f[now] + 1 \in 0..MaxTrades
  <2>1. f[now] <= SumFunctionOnSet(f, Hour)
    BY <1>2, <1>5, TradesBounded
  <2>2. SumFunctionOnSet(f, Hour) \in Nat
    <3>1. IsFiniteSet(Hour)
      BY <1>3, FS_Interval DEF Hour
    <3> QED
      BY <1>5, <3>1, SumNat
  <2>3. f[now] \in Nat
    BY <1>2, <1>5
  <2> QED
    BY <1>1, <1>3, <1>4, <2>1, <2>2, <2>3
<1>7. PICK g : g = [f EXCEPT ![now] = @ + 1]
  OBVIOUS
<1>8. g \in [Hour -> 0..MaxTrades]
  BY <1>2, <1>5, <1>6, <1>7
<1>9. market' = [market EXCEPT ![q] = g]
  BY <1>1, <1>4, <1>7
<1>10. market' \in [Quote -> [Hour -> 0..MaxTrades]]
  BY <1>2, <1>8, <1>9
<1>11. TypeOK'
  BY <1>0, <1>1, <1>10 DEF TypeOK, sources, history
<1> QED
  BY <1>1, <1>11, ReserveWorldMoves

LEMMA ReserveTick == ASSUME ReserveInv, Tick PROVE ReserveInv'
<1>0. TypeOK /\ now \in 0..MaxTime /\ MaxTime \in Nat
  BY PriceAssumption DEF ReserveInv, TypeOK, Hour
<1>1. now < MaxTime /\ now' = now + 1
      /\ UNCHANGED <<registered, chain, market, sources, run, history>>
  BY DEF Tick
<1>2. now' \in Hour
  BY <1>0, <1>1 DEF Hour
<1>3. TypeOK'
  BY <1>0, <1>1, <1>2 DEF TypeOK, sources, history
<1> QED
  BY <1>1, <1>3, ReserveWorldMoves

LEMMA ReserveStep == ASSUME ReserveInv, [Next]_vars PROVE ReserveInv'
<1>1. ASSUME NEW r \in Run, Ingest(r) PROVE ReserveInv'
  BY <1>1, ReserveStartRun, ReserveFetchReserves, ReserveMovePoolCursor, ReserveFetchQuotes,
     ReserveStoreQuotes, ReserveStoreHours, ReserveStoreSnapshot, ReserveRebuildLiquidity DEF Ingest
<1>2. CASE UNCHANGED vars
  <2>1. UNCHANGED <<world, pools, reserves, cursor, history>> /\ UNCHANGED <<sources, run>>
    BY <1>2 DEF vars, sources
  <2>2. TypeOK'
    BY <2>1, ReserveTypesKept DEF ReserveInv
  <2> QED
    BY <2>1, <2>2, ReserveWorldMoves
<1> QED
  BY <1>1, <1>2, ReserveFail, ReserveRegister, ReserveUpdate, ReserveTrade, ReserveTick DEF Next

\* ingest.ts:386-406.  Whatever a pool's cursor covers is stored, for any pools
\* and pages, however runs overlap and fail between an insert and its cursor.
THEOREM CursorsCoverTheStored == Spec => []ReservesBehindCursor
<1>1. ReserveInv /\ [Next]_vars => ReserveInv'
  BY ReserveStep
<1>2. ReserveInv => ReservesBehindCursor
  BY DEF ReserveInv, ReservesBehindCursor
<1> QED
  BY <1>1, <1>2, ReserveStarts, PTL DEF Spec

-----------------------------------------------------------------------------
(***************************************************************************)
(* Quote prices.  As long as no two runs have overlapped, a page is stored *)
(* where it was read: its hours go on from the last stored one, and those  *)
(* before the hour the clock showed have the average they will keep.       *)
(***************************************************************************)

\* The hours stored for a quote: trades in each, and no gap or stale average
\* between two of them.
QuotesFit(q) ==
    /\ quotes[q] = [h \in DOMAIN quotes[q] |-> quotes[q][h]]
    /\ DOMAIN quotes[q] \subseteq 0..now
    /\ \A h \in DOMAIN quotes[q] : market[q][h] > 0
    /\ \A h, k \in DOMAIN quotes[q] : \A j \in h..(k - 1) :
          market[q][j] > 0 => j \in DOMAIN quotes[q] /\ quotes[q][j] = market[q][j]

\* All hours from a stored one to `from` are stored, the final ones for good.
GoesOn(q, from, upTo) ==
    /\ from \in Nat
    /\ \A k \in DOMAIN quotes[q] :
          /\ k <= from
          /\ \A j \in k..(from - 1) : j < upTo /\ market[q][j] > 0 =>
                j \in DOMAIN quotes[q] /\ quotes[q][j] = market[q][j]

\* A page of hours with trades, none left out before its last.
PageFits(q, page, from, upTo) ==
    /\ DOMAIN page \subseteq from..upTo
    /\ \A h \in DOMAIN page : market[q][h] > 0
    /\ \A k \in DOMAIN page : \A j \in from..k : j < upTo /\ market[q][j] > 0 =>
          j \in DOMAIN page /\ page[j] = market[q][j]

\* What a run in the step of the quotes has at least.
QuoteMemory(m) ==
    m.pc \in {"quotes", "storeQuotes"} =>
        m.todo # {} /\ m.todo \subseteq Quote /\ m.upTo \in Nat /\ m.upTo <= now /\ m.pages \in Nat

\* What it relies on, if it is alone.
Resumes(m) ==
    /\ m.pc = "quotes" /\ m.pages # 0 => GoesOn(Turn(m.todo), m.at, m.upTo)
    /\ m.pc = "storeQuotes" => \E from : /\ GoesOn(Turn(m.todo), from, m.upTo)
                                         /\ PageFits(Turn(m.todo), m.page, from, m.upTo)

\* A run at the start of a quote, or elsewhere.
AtStart(m) ==
    m.pc \in {"quotes", "storeQuotes"} =>
        /\ m.pc = "quotes" /\ m.todo # {} /\ m.todo \subseteq Quote
        /\ m.upTo \in Nat /\ m.upTo <= now /\ m.pages = 0

Alone == \A r, s \in Run : run[r].pc # "idle" /\ run[s].pc # "idle" => r = s

QuoteInv ==
    /\ ReserveInv
    /\ DOMAIN quotes = Quote
    /\ \A r \in Run : QuoteMemory(run[r])
    /\ "overlap" \notin mishaps =>
          /\ Alone
          /\ \A q \in Quote : QuotesFit(q)
          /\ \A r \in Run : Resumes(run[r])

LEMMA QuoteStarts == Init => QuoteInv
<1> SUFFICES ASSUME Init PROVE QuoteInv
  OBVIOUS
<1>1. run = [r \in Run |-> AtStep("idle", None, TRUE)] /\ quotes = [q \in Quote |-> NoHours]
  BY DEF Init
<1>2. ReserveInv
  BY ReserveStarts
<1> HIDE DEF Init
<1>3. \A r \in Run : run[r].pc = "idle"
  BY <1>1 DEF AtStep
<1>4. \A q \in Quote : DOMAIN quotes[q] = {}
  BY <1>1 DEF NoHours
<1>5. \A r \in Run : QuoteMemory(run[r]) /\ Resumes(run[r])
  BY <1>3 DEF QuoteMemory, Resumes
<1>6. \A q \in Quote : QuotesFit(q)
  BY <1>1, <1>4 DEF QuotesFit, NoHours
<1>7. Alone
  BY <1>3 DEF Alone
<1>8. DOMAIN quotes = Quote
  BY <1>1
<1> QED
  BY <1>2, <1>5, <1>6, <1>7, <1>8 DEF QuoteInv

\* One run goes on: if it is alone, the others have nothing to rely on.
LEMMA QuoteRunMoves ==
    ASSUME QuoteInv, ReserveInv', UNCHANGED <<now, market>>, DOMAIN quotes' = Quote,
           mishaps \subseteq mishaps', NEW r \in Run, run[r].pc # "idle",
           NEW m, Reset(r, m), QuoteMemory(m),
           "overlap" \notin mishaps => Resumes(m)' /\ \A q \in Quote : QuotesFit(q)'
    PROVE  QuoteInv'
<1>1. DOMAIN run = Run
  BY DEF QuoteInv, ReserveInv
<1>2. run'[r] = m /\ \A s \in Run \ {r} : run'[s] = run[s]
  BY <1>1 DEF Reset
<1>3. \A s \in Run : QuoteMemory(run[s])'
  BY <1>2 DEF QuoteInv, QuoteMemory
<1>4. ASSUME "overlap" \notin mishaps'
      PROVE  /\ Alone' /\ \A q \in Quote : QuotesFit(q)'
             /\ \A s \in Run : Resumes(run[s])'
  <2>1. "overlap" \notin mishaps
    BY <1>4
  <2>2. \A s \in Run \ {r} : run[s].pc = "idle" /\ run'[s].pc = "idle"
    BY <1>2, <2>1 DEF QuoteInv, Alone
  <2>3. Alone'
    BY <2>2 DEF Alone
  <2>4. ASSUME NEW s \in Run PROVE Resumes(run[s])'
    <3>1. CASE s = r
      BY <1>2, <2>1, <3>1
    <3>2. CASE s # r
      BY <2>2, <3>2 DEF Resumes
    <3> QED
      BY <3>1, <3>2
  <2> QED
    BY <2>1, <2>3, <2>4
<1> QED
  BY <1>3, <1>4 DEF QuoteInv

LEMMA AtStartRelies ==
    ASSUME NEW m, AtStart(m)
    PROVE  QuoteMemory(m) /\ Resumes(m)
BY DEF AtStart, QuoteMemory, Resumes

\* A run that stores no quotes goes on elsewhere, or with a new quote.
LEMMA QuoteOtherStep ==
    ASSUME QuoteInv, ReserveInv', UNCHANGED <<now, market, quotes>>,
           mishaps \subseteq mishaps', NEW r \in Run, run[r].pc # "idle",
           NEW m, Reset(r, m), AtStart(m)
    PROVE  QuoteInv'
<1>1. QuoteMemory(m)
  BY AtStartRelies
<1>2. Resumes(m)'
  BY DEF AtStart, Resumes
<1>3. "overlap" \notin mishaps => \A q \in Quote : QuotesFit(q)'
  BY DEF QuoteInv, QuotesFit
<1>4. DOMAIN quotes' = Quote
  BY DEF QuoteInv
<1> QED
  BY <1>1, <1>2, <1>3, <1>4, QuoteRunMoves

LEMMA ToQuotesStarts ==
    ASSUME NEW m, DOMAIN m = MemoryFields, m.todo \subseteq Quote, m.pages = 0,
           m.upTo \in Nat, m.upTo <= now
    PROVE  AtStart(ToQuotes(m))
<1>1. CASE m.todo # {}
  BY <1>1 DEF ToQuotes, AtStart, MemoryFields
<1>2. CASE m.todo = {}
  <2>1. ToQuotes(m).pc = "price"
    BY <1>2, AtStepIs DEF ToQuotes
  <2> QED
    BY <2>1 DEF AtStart
<1> QED
  BY <1>1, <1>2

LEMMA ToReservesStarts ==
    ASSUME now \in Nat, NEW active, NEW m, DOMAIN m = MemoryFields
    PROVE  AtStart(ToReserves(active, m))
<1>1. CASE m.todo # {}
  BY <1>1 DEF ToReserves, AtStart, MemoryFields
<1>2. CASE m.todo = {}
  <2>1. PICK n : n = AtQuotes(active, Bump(m.changed, m.fresh), m.clean)
    OBVIOUS
  <2>2. DOMAIN n = MemoryFields /\ n.todo \subseteq Quote /\ n.pages = 0 /\ n.upTo = now
    BY <2>1, AtQuotesIs
  <2>3. ToReserves(active, m) = ToQuotes(n)
    BY <1>2, <2>1 DEF ToReserves
  <2> QED
    BY <2>2, <2>3, ToQuotesStarts
<1> QED
  BY <1>1, <1>2

LEMMA QuoteStartRun ==
    ASSUME QuoteInv, ReserveInv', NEW r \in Run, StartRun(r)
    PROVE  QuoteInv'
<1>0. ReserveInv /\ now \in Nat
  BY PriceAssumption DEF QuoteInv, ReserveInv, TypeOK, Hour
<1>1. UNCHANGED <<now, market, quotes>> /\ run[r].pc = "idle"
  BY DEF StartRun, world
<1> DEFINE Idle == \A q \in Run : run[q].pc = "idle"
           M == [AtStep("reserves", None, Idle) EXCEPT !.todo = Active']
           N == ToReserves(Active', M)
<1>2. run' = [q \in Run |-> IF q = r THEN N ELSE [run[q] EXCEPT !.clean = FALSE]]
  BY Zenon DEF StartRun
<1>3. mishaps' = IF Idle THEN mishaps ELSE mishaps \cup {"overlap"}
  BY DEF StartRun
<1>4. DOMAIN M = MemoryFields
  BY DEF AtStep, MemoryFields
<1> HIDE DEF M
<1>5. AtStart(N)
  BY <1>0, <1>4, ToReservesStarts
<1> HIDE DEF N
<1>6. run'[r] = N
  BY <1>2
<1>7. AtStart(run[r])'
  BY <1>1, <1>5, <1>6 DEF AtStart
<1>8. ASSUME NEW s \in Run, s # r
      PROVE  /\ run'[s].pc = run[s].pc /\ run'[s].todo = run[s].todo /\ run'[s].upTo = run[s].upTo
             /\ run'[s].pages = run[s].pages
  <2>1. run'[s] = [run[s] EXCEPT !.clean = FALSE] /\ DOMAIN run[s] = MemoryFields
    BY <1>0, <1>2, <1>8 DEF ReserveInv, ReserveMemory
  <2> QED
    BY <2>1 DEF MemoryFields
<1>9. ASSUME NEW s \in Run PROVE QuoteMemory(run[s])'
  <2>1. CASE s = r
    BY <1>7, <2>1 DEF AtStart, QuoteMemory
  <2>2. CASE s # r
    BY <1>1, <1>8, <2>2 DEF QuoteMemory, QuoteInv
  <2> QED
    BY <2>1, <2>2
<1>10. DOMAIN quotes' = Quote
  BY <1>1 DEF QuoteInv
<1>11. ASSUME "overlap" \notin mishaps'
       PROVE  /\ Alone' /\ \A q \in Quote : QuotesFit(q)'
              /\ \A s \in Run : Resumes(run[s])'
  <2>1. Idle /\ "overlap" \notin mishaps
    BY <1>3, <1>11
  <2>2. \A s \in Run \ {r} : run'[s].pc = "idle"
    BY <1>8, <2>1
  <2>3. Alone'
    BY <2>2 DEF Alone
  <2>4. \A s \in Run : Resumes(run[s])'
    BY <1>7, <2>2 DEF Resumes, AtStart
  <2>5. \A q \in Quote : QuotesFit(q)'
    BY <1>1, <2>1 DEF QuoteInv, QuotesFit
  <2> QED
    BY <2>3, <2>4, <2>5
<1> QED
  BY <1>9, <1>10, <1>11 DEF QuoteInv

LEMMA QuoteFetchReserves ==
    ASSUME QuoteInv, ReserveInv', NEW r \in Run, FetchReserves(r)
    PROVE  QuoteInv'
<1>0. DOMAIN run[r] = MemoryFields
  BY DEF QuoteInv, ReserveInv, ReserveMemory
<1>1. UNCHANGED <<now, market, quotes, mishaps>> /\ run[r].pc # "idle"
  BY DEF FetchReserves, world, history
<1> DEFINE p    == Turn(run[r].todo)
           from == IF run[r].pages = 0 THEN cursor[p] ELSE run[r].at
           last == Min({Len(chain[p]), from + PoolLimit})
           ids  == (from + 1)..last
           pages == IF Cardinality(ids) = PoolLimit THEN run[r].pages + 1 ELSE PoolPages
           fresh == Least(run[r].fresh, EarliestHour(ids, p))
<1>2. PICK m : m = [run[r] EXCEPT !.pc = "poolCursor", !.at = last, !.pages = pages, !.fresh = fresh]
  OBVIOUS
<1>3. Reset(r, m)
  BY <1>2 DEF FetchReserves
<1> HIDE DEF p, from, last, ids, pages, fresh
<1>4. m.pc = "poolCursor"
  BY <1>0, <1>2 DEF MemoryFields
<1>5. AtStart(m)
  BY <1>4 DEF AtStart
<1> QED
  BY <1>1, <1>3, <1>5, QuoteOtherStep

LEMMA QuoteMovePoolCursor ==
    ASSUME QuoteInv, ReserveInv', NEW r \in Run, MovePoolCursor(r)
    PROVE  QuoteInv'
<1>0. DOMAIN run[r] = MemoryFields /\ now \in Nat
  BY PriceAssumption DEF QuoteInv, ReserveInv, ReserveMemory, TypeOK, Hour
<1>1. UNCHANGED <<now, market, quotes, mishaps>> /\ run[r].pc # "idle"
  BY DEF MovePoolCursor, world, history
<1> DEFINE p    == Turn(run[r].todo)
           more == run[r].pages < PoolPages
           left == [run[r] EXCEPT !.todo = @ \ {p}, !.at = None, !.pages = 0]
<1>2. PICK m : m = IF more THEN [run[r] EXCEPT !.pc = "reserves"] ELSE ToReserves(Active, left)
  OBVIOUS
<1>3. Reset(r, m)
  BY <1>2 DEF MovePoolCursor
<1> HIDE DEF more, p
<1>4. AtStart(m)
  <2>1. CASE more
    <3>1. m.pc = "reserves"
      BY <1>0, <1>2, <2>1 DEF MemoryFields
    <3> QED
      BY <3>1 DEF AtStart
  <2>2. CASE ~more
    <3>1. DOMAIN left = MemoryFields
      BY <1>0
    <3> HIDE DEF left
    <3> QED
      BY <1>0, <1>2, <2>2, <3>1, ToReservesStarts
  <2> QED
    BY <2>1, <2>2
<1> QED
  BY <1>1, <1>3, <1>4, QuoteOtherStep

LEMMA QuoteStoreHours ==
    ASSUME QuoteInv, ReserveInv', NEW r \in Run, StoreHours(r)
    PROVE  QuoteInv'
<1>0. DOMAIN run[r] = MemoryFields
  BY DEF QuoteInv, ReserveInv, ReserveMemory
<1>1. UNCHANGED <<now, market, quotes, mishaps>> /\ run[r].pc # "idle"
  BY DEF StoreHours, world, sources, history
<1> DEFINE hours  == ComputeHours(Active, Rows, quotes, RebuildFrom(r), now)
           before == IF snapshot = None THEN NoHours ELSE snapshot
<1>2. PICK m : m = IF SkipPrice(r) THEN [run[r] EXCEPT !.pc = "liquidity"]
                   ELSE [run[r] EXCEPT !.pc = "snapshot", !.page = hours, !.prev = before]
  OBVIOUS
<1>3. Reset(r, m)
  BY <1>2 DEF StoreHours
<1> HIDE DEF hours, before
<1>4. m.pc \in {"liquidity", "snapshot"}
  BY <1>0, <1>2 DEF MemoryFields
<1>5. AtStart(m)
  BY <1>4 DEF AtStart
<1> QED
  BY <1>1, <1>3, <1>5, QuoteOtherStep

LEMMA QuoteStoreSnapshot ==
    ASSUME QuoteInv, ReserveInv', NEW r \in Run, StoreSnapshot(r) \/ RebuildLiquidity(r)
    PROVE  QuoteInv'
<1>1. UNCHANGED <<now, market, quotes, mishaps>> /\ run[r].pc # "idle"
  BY DEF StoreSnapshot, RebuildLiquidity, world, sources, history
<1>2. run[r].clean \in BOOLEAN
  BY DEF QuoteInv, ReserveInv, ReserveMemory
<1>3. PICK pc \in {"liquidity", "idle"} : \E changed : \E clean \in BOOLEAN :
         Reset(r, AtStep(pc, changed, clean))
  BY <1>2 DEF StoreSnapshot, RebuildLiquidity
<1>4. PICK changed : \E clean \in BOOLEAN : Reset(r, AtStep(pc, changed, clean))
  BY <1>3
<1>5. PICK clean \in BOOLEAN : Reset(r, AtStep(pc, changed, clean))
  BY <1>4
<1>6. PICK m : m = AtStep(pc, changed, clean)
  OBVIOUS
<1>7. m.pc = pc
  BY <1>6, AtStepIs
<1>8. AtStart(m)
  BY <1>7 DEF AtStart
<1> QED
  BY <1>1, <1>5, <1>6, <1>8, QuoteOtherStep

LEMMA QuoteFail ==
    ASSUME QuoteInv, ReserveInv', NEW r \in Run, Fail(r)
    PROVE  QuoteInv'
<1>0. now \in Nat
  BY PriceAssumption DEF QuoteInv, ReserveInv, TypeOK, Hour
<1>1. UNCHANGED <<now, market, quotes>> /\ run[r].pc # "idle" /\ mishaps \subseteq mishaps'
  BY DEF Fail, world, sources
<1>2. \/ Reset(r, ToQuotes(AtQuotes(Active, run[r].changed, FALSE)))
      \/ \E pc \in {"idle", "price", "liquidity"} : \E changed : \E clean \in BOOLEAN :
            Reset(r, AtStep(pc, changed, clean))
  <2>1. CASE Die(r)
    BY <2>1 DEF Die
  <2>2. CASE AbandonStep(r)
    BY <2>2 DEF AbandonStep
  <2> QED
    BY <2>1, <2>2 DEF Fail
<1>3. ASSUME NEW pc \in {"idle", "price", "liquidity"}, NEW changed, NEW clean \in BOOLEAN,
             Reset(r, AtStep(pc, changed, clean))
      PROVE  QuoteInv'
  <2>1. PICK m : m = AtStep(pc, changed, clean)
    OBVIOUS
  <2>2. m.pc = pc
    BY <2>1, AtStepIs
  <2>3. AtStart(m)
    BY <2>2 DEF AtStart
  <2> QED
    BY <1>1, <1>3, <2>1, <2>3, QuoteOtherStep
<1>4. CASE Reset(r, ToQuotes(AtQuotes(Active, run[r].changed, FALSE)))
  <2>1. PICK clean \in BOOLEAN : clean = FALSE
    OBVIOUS
  <2>2. PICK n : n = AtQuotes(Active, run[r].changed, clean)
    OBVIOUS
  <2>3. DOMAIN n = MemoryFields /\ n.todo \subseteq Quote /\ n.pages = 0 /\ n.upTo = now
    BY <2>2, AtQuotesIs
  <2>4. PICK m : m = ToQuotes(n)
    OBVIOUS
  <2>5. AtStart(m)
    BY <1>0, <2>3, <2>4, ToQuotesStarts
  <2>6. Reset(r, m)
    BY <1>4, <2>1, <2>2, <2>4
  <2> QED
    BY <1>1, <2>5, <2>6, QuoteOtherStep
<1> QED
  BY <1>2, <1>3, <1>4

LEMMA FirstHourIs ==
    ASSUME TypeOK, NEW ps \in SUBSET Pool
    PROVE  FirstReserveHour(ps) \in Nat \cup {None}
<1> DEFINE hours == UNION {{chain[p][i] : i \in reserves[p]} : p \in ps}
<1>1. hours \subseteq Nat
  <2>1. SUFFICES ASSUME NEW p \in ps, NEW i \in reserves[p] PROVE chain[p][i] \in Nat
    OBVIOUS
  <2>2. chain[p] \in Seq(Hour) /\ i \in DOMAIN chain[p]
    BY DEF TypeOK
  <2>3. Hour \subseteq Nat
    BY PriceAssumption DEF Hour
  <2>4. chain[p][i] \in Hour
    BY <2>2
  <2> QED
    BY <2>3, <2>4
<1>2. CASE hours = {}
  BY <1>2 DEF FirstReserveHour
<1>3. CASE hours # {}
  <2>1. PICK x \in hours : \A y \in hours : x <= y
    BY <1>1, <1>3, LeastNatural
  <2>2. Min(hours) \in hours
    BY <2>1 DEF Min
  <2>3. FirstReserveHour(ps) = Min(hours)
    BY <1>3 DEF FirstReserveHour
  <2> QED
    BY <1>1, <2>2, <2>3
<1> QED
  BY <1>2, <1>3

LEMMA SomeHour ==
    ASSUME NEW q \in Quote, QuotesFit(q), quotes[q] # NoHours
    PROVE  DOMAIN quotes[q] # {} /\ DOMAIN quotes[q] \subseteq 0..now
<1>1. DOMAIN quotes[q] \subseteq 0..now
  BY DEF QuotesFit
<1>2. quotes[q] = [h \in DOMAIN quotes[q] |-> quotes[q][h]]
  BY DEF QuotesFit
<1>3. ASSUME DOMAIN quotes[q] = {} PROVE FALSE
  BY <1>2, <1>3 DEF NoHours
<1> QED
  BY <1>1, <1>3

LEMMA LastHourIs ==
    ASSUME NEW q \in Quote, QuotesFit(q), now \in Nat, DOMAIN quotes[q] # {}
    PROVE  /\ Max(DOMAIN quotes[q]) \in DOMAIN quotes[q] /\ Max(DOMAIN quotes[q]) \in Nat
           /\ \A h \in DOMAIN quotes[q] : h <= Max(DOMAIN quotes[q])
<1> DEFINE D == DOMAIN quotes[q]
<1>1. D \subseteq 0..now /\ D # {}
  BY DEF QuotesFit
<1>2. IsFiniteSet(D)
  <2>1. IsFiniteSet(0..now)
    BY FS_Interval
  <2> QED
    BY <1>1, <2>1, FS_Subset
<1>3. \A h \in D : h \in Int /\ h \in Nat
  BY <1>1
<1> HIDE DEF D
<1>4. D \in SUBSET Int
  BY <1>3
<1>5. Max(D) \in D /\ \A h \in D : h <= Max(D)
  BY <1>1, <1>2, <1>4, MaxOfFinite
<1> QED
  BY <1>3, <1>5 DEF D

LEMMA QuoteStartGoesOn ==
    ASSUME TypeOK, NEW q \in Quote, QuotesFit(q), QuoteStart(q) # None, NEW upTo \in Nat
    PROVE  GoesOn(q, QuoteStart(q), upTo)
<1>0. now \in Nat
  BY PriceAssumption DEF TypeOK, Hour
<1>1. CASE quotes[q] = NoHours
  <2>1. DOMAIN quotes[q] = {}
    BY <1>1 DEF NoHours
  <2>2. QuoteStart(q) \in Nat
    BY <1>1, FirstHourIs DEF QuoteStart
  <2> QED
    BY <2>1, <2>2 DEF GoesOn
<1>2. CASE quotes[q] # NoHours
  <2>1. DOMAIN quotes[q] # {}
    BY <1>2, SomeHour
  <2>2. PICK from : from = Max(DOMAIN quotes[q])
    OBVIOUS
  <2>3. from \in DOMAIN quotes[q] /\ from \in Nat /\ \A h \in DOMAIN quotes[q] : h <= from
    BY <1>0, <2>1, <2>2, LastHourIs
  <2>4. GoesOn(q, from, upTo)
    BY <2>3 DEF QuotesFit, GoesOn
  <2> QED
    BY <1>2, <2>2, <2>4 DEF QuoteStart
<1> QED
  BY <1>1, <1>2

LEMMA MarketPageFits ==
    ASSUME TypeOK, NEW q \in Quote, NEW from \in Nat, NEW upTo \in Nat
    PROVE  PageFits(q, MarketPage(q, from, upTo), from, upTo)
<1> DEFINE traded    == {h \in from..upTo : market[q][h] > 0}
           before(k) == {j \in traded : j < k}
           first     == {k \in traded : Cardinality(before(k)) < QuoteLimit}
<1>1. DOMAIN MarketPage(q, from, upTo) = first
      /\ \A h \in first : MarketPage(q, from, upTo)[h] = market[q][h]
  BY DEF MarketPage
<1>2. IsFiniteSet(traded)
  <2>1. IsFiniteSet(from..upTo)
    BY FS_Interval
  <2> QED
    BY <2>1, FS_Subset
<1>3. ASSUME NEW k \in first, NEW j \in from..k, j < upTo, market[q][j] > 0
      PROVE  j \in first
  <2>1. k \in from..upTo /\ Cardinality(before(k)) < QuoteLimit
    OBVIOUS
  <2>2. j \in traded /\ j <= k /\ j \in Nat /\ k \in Nat
    BY <1>3, <2>1
  <2>3. before(j) \subseteq before(k)
    <3>1. \A i \in traded : i \in Nat
      OBVIOUS
    <3> HIDE DEF traded
    <3>2. ASSUME NEW i \in traded, i < j PROVE i < k
      BY <2>2, <3>1, <3>2
    <3> QED
      BY <3>2
  <2>4. IsFiniteSet(before(k))
    BY <1>2, FS_Subset
  <2> HIDE DEF before, traded
  <2>5. Cardinality(before(j)) <= Cardinality(before(k)) /\ Cardinality(before(j)) \in Nat
        /\ Cardinality(before(k)) \in Nat
    BY <2>3, <2>4, FS_Subset, FS_CardinalityType
  <2>6. QuoteLimit \in Nat
    BY PriceAssumption
  <2> QED
    BY <2>1, <2>2, <2>5, <2>6
<1>4. first \subseteq from..upTo /\ \A h \in first : market[q][h] > 0
  OBVIOUS
<1> HIDE DEF first
<1> QED
  BY <1>1, <1>3, <1>4 DEF PageFits

LEMMA QuoteFetchQuotes ==
    ASSUME QuoteInv, ReserveInv', NEW r \in Run, FetchQuotes(r)
    PROVE  QuoteInv'
<1>0. TypeOK /\ now \in Nat /\ DOMAIN run[r] = MemoryFields
  BY PriceAssumption DEF QuoteInv, ReserveInv, ReserveMemory, TypeOK, Hour
<1>1. UNCHANGED <<now, market, quotes, mishaps>> /\ run[r].pc = "quotes"
  BY DEF FetchQuotes, world, sources, history
<1>2. PICK old : old = run[r]
  OBVIOUS
<1>3. old.todo # {} /\ old.todo \subseteq Quote /\ old.upTo \in Nat /\ old.upTo <= now
      /\ old.pages \in Nat
  BY <1>1, <1>2 DEF QuoteInv, QuoteMemory
<1> DEFINE q    == Turn(run[r].todo)
           from == IF run[r].pages = 0 THEN QuoteStart(q) ELSE run[r].at
           page == MarketPage(q, from, run[r].upTo)
           left == run[r].todo \ {q}
<1>4. PICK m : m = IF NothingToAsk(from, run[r].upTo)
                   THEN ToQuotes([old EXCEPT !.todo = left, !.at = None, !.pages = 0])
                   ELSE [old EXCEPT !.pc = "storeQuotes", !.page = page]
  OBVIOUS
<1>5. Reset(r, m)
  BY <1>2, <1>4 DEF FetchQuotes
<1>6. q \in Quote /\ q = Turn(old.todo) /\ left \subseteq Quote
  BY <1>2, <1>3, TurnIs
<1>7. page = MarketPage(q, from, old.upTo)
  BY <1>2
<1>8. from = IF old.pages = 0 THEN QuoteStart(q) ELSE old.at
  BY <1>2
<1> HIDE DEF q, from, page, left
<1>9. CASE NothingToAsk(from, run[r].upTo)
  <2>1. PICK n : n = [old EXCEPT !.todo = left, !.at = None, !.pages = 0]
    OBVIOUS
  <2>2. DOMAIN n = MemoryFields /\ n.todo \subseteq Quote /\ n.pages = 0 /\ n.upTo = old.upTo
    BY <1>0, <1>2, <1>6, <2>1 DEF MemoryFields
  <2>3. m = ToQuotes(n)
    BY <1>4, <1>9, <2>1
  <2>4. AtStart(m)
    BY <1>0, <1>3, <2>2, <2>3, ToQuotesStarts
  <2> QED
    BY <1>1, <1>5, <2>4, QuoteOtherStep
<1>10. CASE ~NothingToAsk(from, run[r].upTo)
  <2>1. m = [old EXCEPT !.pc = "storeQuotes", !.page = page]
    BY <1>4, <1>10
  <2>2. m.pc = "storeQuotes" /\ m.page = page /\ m.todo = old.todo /\ m.upTo = old.upTo
        /\ m.pages = old.pages
    BY <1>0, <1>2, <2>1 DEF MemoryFields
  <2>3. QuoteMemory(m)
    BY <1>3, <2>2 DEF QuoteMemory
  <2>4. from # None
    BY <1>10 DEF NothingToAsk
  <2>5. ASSUME "overlap" \notin mishaps
        PROVE  Resumes(m)' /\ \A x \in Quote : QuotesFit(x)'
    <3>1. \A x \in Quote : QuotesFit(x)
      BY <2>5 DEF QuoteInv
    <3>2. GoesOn(q, from, old.upTo)
      <4>1. CASE old.pages = 0
        BY <1>0, <1>3, <1>6, <1>8, <2>4, <3>1, <4>1, QuoteStartGoesOn
      <4>2. CASE old.pages # 0
        <5>1. Resumes(old)
          BY <1>2, <2>5 DEF QuoteInv
        <5> QED
          BY <1>1, <1>2, <1>6, <1>8, <4>2, <5>1 DEF Resumes
      <4> QED
        BY <4>1, <4>2
    <3>3. from \in Nat
      BY <3>2 DEF GoesOn
    <3>4. PageFits(q, page, from, old.upTo)
      BY <1>0, <1>3, <1>6, <1>7, <3>3, MarketPageFits
    <3>5. Resumes(m)
      BY <1>6, <2>2, <3>2, <3>4 DEF Resumes
    <3>6. \A x \in Quote : QuotesFit(x)'
      BY <1>1, <3>1 DEF QuotesFit
    <3>7. Resumes(m)'
      BY <1>1, <3>5 DEF Resumes, GoesOn, PageFits
    <3> QED
      BY <3>6, <3>7
  <2>6. DOMAIN quotes' = Quote
    BY <1>1 DEF QuoteInv
  <2> QED
    BY <1>1, <1>5, <2>3, <2>5, <2>6, QuoteRunMoves
<1> QED
  BY <1>9, <1>10

\* A page that fits, stored: the hours go on to its last one.
LEMMA PageStored ==
    ASSUME NEW q \in Quote, QuotesFit(q), NEW page, NEW from \in Nat, NEW upTo \in Nat,
           now \in Nat, upTo <= now, GoesOn(q, from, upTo), PageFits(q, page, from, upTo),
           UNCHANGED <<now, market>>, quotes'[q] = InsertOrReplace(quotes[q], page)
    PROVE  /\ QuotesFit(q)'
           /\ \A k \in DOMAIN page : (\A h \in DOMAIN page : h <= k) => GoesOn(q, k + 1, upTo)'
<1> DEFINE D == DOMAIN quotes[q]
           P == DOMAIN page
           new == quotes'[q]
<1>1. DOMAIN new = P \cup D /\ \A h \in P \cup D : new[h] = IF h \in P THEN page[h] ELSE quotes[q][h]
  BY DEF InsertOrReplace
<1>2. new = [h \in DOMAIN new |-> new[h]]
  BY DEF InsertOrReplace
<1>3. D \subseteq 0..now /\ P \subseteq from..upTo
  BY DEF QuotesFit, PageFits
<1>4. \A h \in D : h \in Nat /\ h <= now /\ h <= from
  BY <1>3 DEF GoesOn
<1>5. \A h \in P : h \in Nat /\ h >= from /\ h <= upTo /\ h <= now
  BY <1>3
<1>6. \A h \in P \cup D : market[q][h] > 0
  BY DEF QuotesFit, PageFits
<1>7. ASSUME NEW h \in D, NEW k \in D, NEW j \in h..(k - 1), market[q][j] > 0
      PROVE  j \in D /\ quotes[q][j] = market[q][j]
  BY <1>7 DEF QuotesFit
<1>8. ASSUME NEW k \in D, NEW j \in k..(from - 1), j < upTo, market[q][j] > 0
      PROVE  j \in D /\ quotes[q][j] = market[q][j]
  BY <1>8 DEF GoesOn
<1>9. ASSUME NEW k \in P, NEW j \in from..k, j < upTo, market[q][j] > 0
      PROVE  j \in P /\ page[j] = market[q][j]
  BY <1>9 DEF PageFits
<1> HIDE DEF D, P, new
<1>10. ASSUME NEW h \in P \cup D, NEW k \in P, NEW j \in h..k, j < upTo, market[q][j] > 0
       PROVE  j \in P \cup D /\ new[j] = market[q][j]
  <2>1. j \in Int /\ h \in Nat /\ k \in Nat /\ h <= j /\ j <= k
    BY <1>4, <1>5
  <2>2. CASE j >= from
    BY <1>1, <1>9, <1>10, <2>1, <2>2
  <2>3. CASE j < from
    <3>1. h \in D
      BY <1>5, <2>1, <2>3
    <3>2. j \in h..(from - 1)
      BY <2>1, <2>3
    <3>3. j \in D /\ quotes[q][j] = market[q][j]
      BY <1>8, <1>10, <3>1, <3>2
    <3>4. j \notin P
      BY <1>5, <2>1, <2>3
    <3> QED
      BY <1>1, <3>3, <3>4
  <2> QED
    BY <2>1, <2>2, <2>3
<1>11. ASSUME NEW h \in P \cup D, NEW k \in P \cup D, NEW j \in h..(k - 1), market[q][j] > 0
       PROVE  j \in P \cup D /\ new[j] = market[q][j]
  <2>1. j \in Int /\ h \in Nat /\ k \in Nat /\ h <= j /\ j < k
    BY <1>4, <1>5
  <2>2. CASE k \in P
    <3>1. j \in h..k /\ j < upTo
      BY <1>5, <2>1, <2>2
    <3> QED
      BY <1>10, <1>11, <2>2, <3>1
  <2>3. CASE k \notin P
    <3>1. k \in D /\ j < from
      BY <1>4, <2>1, <2>3
    <3>2. h \in D /\ j \notin P
      BY <1>5, <2>1, <3>1
    <3>3. j \in D /\ quotes[q][j] = market[q][j]
      BY <1>7, <1>11, <3>1, <3>2
    <3> QED
      BY <1>1, <3>2, <3>3
  <2> QED
    BY <2>2, <2>3
<1>12. QuotesFit(q)'
  <2>1. DOMAIN new \subseteq 0..now
    BY <1>1, <1>4, <1>5
  <2> QED
    BY <1>1, <1>2, <1>6, <1>11, <2>1 DEF QuotesFit, new
<1>13. ASSUME NEW k \in P, \A h \in P : h <= k PROVE GoesOn(q, k + 1, upTo)'
  <2>1. k \in Nat /\ k + 1 \in Nat
    BY <1>5
  <2>2. \A h \in P \cup D : h <= k + 1
    BY <1>4, <1>5, <1>13
  <2>3. ASSUME NEW h \in P \cup D, NEW j \in h..((k + 1) - 1), j < upTo, market[q][j] > 0
        PROVE  j \in P \cup D /\ new[j] = market[q][j]
    <3>1. j \in h..k
      BY <1>4, <1>5, <2>1, <2>3
    <3> QED
      BY <1>10, <2>3, <3>1
  <2> QED
    BY <1>1, <2>1, <2>2, <2>3 DEF GoesOn, new
<1> QED
  BY <1>12, <1>13 DEF P

LEMMA QuoteStoreQuotes ==
    ASSUME QuoteInv, ReserveInv', NEW r \in Run, StoreQuotes(r)
    PROVE  QuoteInv'
<1>0. TypeOK /\ now \in Nat /\ DOMAIN run[r] = MemoryFields
  BY PriceAssumption DEF QuoteInv, ReserveInv, ReserveMemory, TypeOK, Hour
<1>1. UNCHANGED <<now, market, mishaps>> /\ run[r].pc = "storeQuotes"
  BY DEF StoreQuotes, world, history
<1>2. PICK old : old = run[r]
  OBVIOUS
<1>3. old.todo # {} /\ old.todo \subseteq Quote /\ old.upTo \in Nat /\ old.upTo <= now
      /\ old.pages \in Nat /\ DOMAIN old = MemoryFields
  BY <1>0, <1>1, <1>2 DEF QuoteInv, QuoteMemory
<1>4. PICK q : q = Turn(old.todo)
  OBVIOUS
<1>5. PICK page : page = old.page
  OBVIOUS
<1> DEFINE more == Cardinality(DOMAIN page) = QuoteLimit /\ old.pages + 1 < QuotePages
           soon == IF page = NoHours THEN old.fresh ELSE Least(old.fresh, Min(DOMAIN page))
           last == Max(DOMAIN page)
<1>6. PICK kept : kept = [old EXCEPT !.page = NoHours, !.fresh = soon]
  OBVIOUS
<1>7. PICK m : m = IF more THEN [kept EXCEPT !.pc = "quotes", !.at = last + 1, !.pages = @ + 1]
                   ELSE ToQuotes([kept EXCEPT !.todo = @ \ {q}, !.at = None, !.pages = 0])
  OBVIOUS
<1>8. Reset(r, m) /\ quotes' = [quotes EXCEPT ![q] = InsertOrReplace(@, page)]
  BY <1>2, <1>4, <1>5, <1>6, <1>7 DEF StoreQuotes
<1>9. q \in Quote
  BY <1>3, <1>4, TurnIs
<1> HIDE DEF more, soon, last
<1>10. DOMAIN kept = MemoryFields /\ kept.todo = old.todo /\ kept.upTo = old.upTo
       /\ kept.pages = old.pages
  BY <1>3, <1>6 DEF MemoryFields
<1>11. DOMAIN quotes = Quote
  BY DEF QuoteInv
<1>12. DOMAIN quotes' = Quote /\ quotes'[q] = InsertOrReplace(quotes[q], page)
       /\ \A x \in Quote \ {q} : quotes'[x] = quotes[x]
  BY <1>8, <1>9, <1>11
<1>13. ASSUME more
       PROVE  m.pc = "quotes" /\ m.at = last + 1 /\ m.pages = old.pages + 1 /\ m.todo = old.todo
              /\ m.upTo = old.upTo
  BY <1>7, <1>10, <1>13 DEF MemoryFields
<1>14. ASSUME ~more PROVE AtStart(m)
  <2>1. PICK n : n = [kept EXCEPT !.todo = @ \ {q}, !.at = None, !.pages = 0]
    OBVIOUS
  <2>2. DOMAIN n = MemoryFields /\ n.todo \subseteq Quote /\ n.pages = 0 /\ n.upTo = old.upTo
    BY <1>3, <1>10, <2>1 DEF MemoryFields
  <2>3. m = ToQuotes(n)
    BY <1>7, <1>14, <2>1
  <2> QED
    BY <1>3, <2>2, <2>3, ToQuotesStarts
<1>15. QuoteMemory(m)
  <2>1. CASE more
    BY <1>3, <1>13, <2>1 DEF QuoteMemory
  <2>2. CASE ~more
    BY <1>14, <2>2, AtStartRelies
  <2> QED
    BY <2>1, <2>2
<1>16. ASSUME "overlap" \notin mishaps
       PROVE  Resumes(m)' /\ \A x \in Quote : QuotesFit(x)'
  <2>1. Resumes(old) /\ \A x \in Quote : QuotesFit(x)
    BY <1>2, <1>16 DEF QuoteInv
  <2>2. PICK from : GoesOn(q, from, old.upTo) /\ PageFits(q, page, from, old.upTo)
    BY <1>1, <1>2, <1>4, <1>5, <2>1 DEF Resumes
  <2>3. from \in Nat
    BY <2>2 DEF GoesOn
  <2>4. /\ QuotesFit(q)'
        /\ \A k \in DOMAIN page : (\A h \in DOMAIN page : h <= k) => GoesOn(q, k + 1, old.upTo)'
    BY <1>0, <1>1, <1>3, <1>9, <1>12, <2>1, <2>2, <2>3, PageStored
  <2>5. ASSUME NEW x \in Quote PROVE QuotesFit(x)'
    <3>1. CASE x = q
      BY <2>4, <3>1
    <3>2. CASE x # q
      <4>1. quotes'[x] = quotes[x] /\ QuotesFit(x)
        BY <1>12, <2>1, <3>2
      <4> QED
        BY <1>1, <4>1 DEF QuotesFit
    <3> QED
      BY <3>1, <3>2
  <2>6. Resumes(m)'
    <3>1. CASE ~more
      BY <1>14, <3>1 DEF AtStart, Resumes
    <3>2. CASE more
      <4>1. DOMAIN page \in SUBSET Int /\ IsFiniteSet(DOMAIN page)
        <5>1. IsFiniteSet(from..old.upTo)
          <6>1. from \in Int /\ old.upTo \in Int
            BY <1>3, <2>3
          <6> QED
            BY <6>1, FS_Interval
        <5>2. DOMAIN page \subseteq from..old.upTo
          BY <2>2 DEF PageFits
        <5>3. IsFiniteSet(DOMAIN page)
          BY <5>1, <5>2, FS_Subset
        <5>4. from..old.upTo \subseteq Int
          OBVIOUS
        <5> QED
          BY <5>2, <5>3, <5>4
      <4>2. DOMAIN page # {}
        <5>1. QuoteLimit # 0 /\ Cardinality(DOMAIN page) = QuoteLimit
          BY <3>2, PriceAssumption DEF more
        <5>2. Cardinality({}) = 0
          BY FS_EmptySet
        <5> QED
          BY <5>1, <5>2
      <4>3. last \in DOMAIN page /\ \A h \in DOMAIN page : h <= last
        BY <4>1, <4>2, MaxOfFinite DEF last
      <4>4. PICK k : k = last
        OBVIOUS
      <4>5. GoesOn(q, k + 1, old.upTo)'
        BY <2>4, <4>3, <4>4
      <4> QED
        BY <1>4, <1>13, <3>2, <4>4, <4>5 DEF Resumes
    <3> QED
      BY <3>1, <3>2
  <2> QED
    BY <2>5, <2>6
<1> QED
  BY <1>1, <1>8, <1>12, <1>15, <1>16, QuoteRunMoves

LEMMA QuoteTrade ==
    ASSUME QuoteInv, ReserveInv', NEW q \in Quote, Trade(q)
    PROVE  QuoteInv'
<1>0. market \in [Quote -> [Hour -> 0..MaxTrades]] /\ now \in Hour /\ now \in Nat
      /\ Hour = 0..MaxTime /\ MaxTime \in Nat /\ MaxTrades \in Nat
  BY PriceAssumption DEF QuoteInv, ReserveInv, TypeOK, Hour
<1>1. UNCHANGED <<now, quotes, run, mishaps>> /\ market' = [market EXCEPT ![q][now] = @ + 1]
  BY DEF Trade, sources, history
<1>2. \A x \in Quote : \A h : h # now => market'[x][h] = market[x][h]
  BY <1>0, <1>1
<1>3. \A x \in Quote : market[x][now] \in Nat /\ market'[x][now] >= market[x][now]
  <2>1. PICK f : f = market[q]
    OBVIOUS
  <2>2. PICK g : g = [f EXCEPT ![now] = @ + 1]
    OBVIOUS
  <2>3. f \in [Hour -> 0..MaxTrades] /\ f[now] \in Nat
    BY <1>0, <2>1
  <2>4. g[now] = f[now] + 1
    BY <1>0, <2>2, <2>3
  <2>5. market' = [market EXCEPT ![q] = g]
    BY <1>1, <2>1, <2>2
  <2>6. market'[q] = g /\ \A x \in Quote \ {q} : market'[x] = market[x]
    BY <1>0, <2>5
  <2>7. \A x \in Quote : market[x][now] \in Nat
    BY <1>0
  <2>8. market'[q][now] >= market[q][now]
    BY <2>1, <2>3, <2>4, <2>6
  <2>9. ASSUME NEW x \in Quote PROVE market'[x][now] >= market[x][now]
    <3>1. CASE x = q
      BY <2>8, <3>1
    <3>2. CASE x # q
      BY <2>6, <2>7, <3>2
    <3> QED
      BY <3>1, <3>2
  <2> QED
    BY <2>7, <2>9
<1>4. \A s \in Run : QuoteMemory(run[s])'
  BY <1>1 DEF QuoteInv, QuoteMemory
<1>5. ASSUME NEW x \in Quote, QuotesFit(x) PROVE QuotesFit(x)'
  <2>1. \A h \in DOMAIN quotes[x] : h \in Nat /\ h <= now /\ market[x][h] > 0
    BY <1>0, <1>5 DEF QuotesFit
  <2>2. \A h \in DOMAIN quotes[x] : market'[x][h] > 0
    <3>1. SUFFICES ASSUME NEW h \in DOMAIN quotes[x] PROVE market'[x][h] > 0
      OBVIOUS
    <3>2. CASE h = now
      <4>1. market'[x][now] \in Int
        BY <1>0, <1>1, <1>3 DEF QuoteInv, ReserveInv, TypeOK
      <4> QED
        BY <1>3, <2>1, <3>2, <4>1
    <3>3. CASE h # now
      BY <1>2, <2>1, <3>3
    <3> QED
      BY <3>2, <3>3
  <2>3. \A h, k \in DOMAIN quotes[x] : \A j \in h..(k - 1) : market'[x][j] = market[x][j]
    <3>1. SUFFICES ASSUME NEW h \in DOMAIN quotes[x], NEW k \in DOMAIN quotes[x], NEW j \in h..(k - 1)
                   PROVE  j # now
      BY <1>2
    <3> QED
      BY <1>0, <2>1
  <2> QED
    BY <1>1, <1>5, <2>2, <2>3 DEF QuotesFit
<1>6. ASSUME NEW s \in Run, QuoteMemory(run[s]), Resumes(run[s]) PROVE Resumes(run[s])'
  <2>1. PICK m : m = run[s]
    OBVIOUS
  <2>2. run'[s] = m
    BY <1>1, <2>1
  <2>3. CASE m.pc \in {"quotes", "storeQuotes"}
    <3>1. Turn(m.todo) \in Quote /\ m.upTo \in Nat /\ m.upTo <= now
      BY <1>6, <2>1, <2>3, TurnIs DEF QuoteMemory
    <3>2. PICK x \in Quote : x = Turn(m.todo)
      BY <3>1
    <3>3. \A j \in Int : j < m.upTo => market'[x][j] = market[x][j]
      BY <1>0, <1>2, <3>1
    <3>4. ASSUME NEW from, GoesOn(x, from, m.upTo) PROVE GoesOn(x, from, m.upTo)'
      BY <1>1, <3>3, <3>4 DEF GoesOn
    <3>5. ASSUME NEW from \in Nat, PageFits(x, m.page, from, m.upTo)
          PROVE  PageFits(x, m.page, from, m.upTo)'
      <4>1. \A h \in DOMAIN m.page : market'[x][h] > 0
        <5>1. SUFFICES ASSUME NEW h \in DOMAIN m.page PROVE market'[x][h] > 0
          OBVIOUS
        <5>2. market[x][h] > 0
          BY <3>5 DEF PageFits
        <5>3. CASE h = now
          <6>1. market'[x][now] \in Int
            BY <1>0, <1>1, <1>3 DEF QuoteInv, ReserveInv, TypeOK
          <6> QED
            BY <1>3, <5>2, <5>3, <6>1
        <5>4. CASE h # now
          BY <1>2, <5>2, <5>4
        <5> QED
          BY <5>3, <5>4
      <4> QED
        BY <3>3, <3>5, <4>1 DEF PageFits
    <3> QED
      BY <1>6, <2>1, <2>2, <3>2, <3>4, <3>5 DEF Resumes, GoesOn
  <2>4. CASE m.pc \notin {"quotes", "storeQuotes"}
    BY <2>2, <2>4 DEF Resumes
  <2> QED
    BY <2>3, <2>4
<1>7. "overlap" \notin mishaps' =>
          /\ Alone' /\ \A x \in Quote : QuotesFit(x)'
          /\ \A s \in Run : Resumes(run[s])'
  BY <1>1, <1>5, <1>6 DEF QuoteInv, Alone
<1>8. DOMAIN quotes' = Quote
  BY <1>1 DEF QuoteInv
<1> QED
  BY <1>4, <1>7, <1>8 DEF QuoteInv

\* The registry, the chain and the clock: no market, quote or run is touched.
LEMMA QuoteWorldMoves ==
    ASSUME QuoteInv, ReserveInv', UNCHANGED <<market, quotes, run>>, mishaps \subseteq mishaps',
           now \in Nat, now' \in Nat, now <= now'
    PROVE  QuoteInv'
<1>1. \A s \in Run : QuoteMemory(run[s])'
  <2>1. SUFFICES ASSUME NEW s \in Run PROVE QuoteMemory(run[s])'
    OBVIOUS
  <2>2. QuoteMemory(run[s]) /\ run'[s] = run[s]
    BY DEF QuoteInv
  <2> QED
    BY <2>2 DEF QuoteMemory
<1>2. ASSUME NEW q \in Quote, QuotesFit(q) PROVE QuotesFit(q)'
  <2>1. DOMAIN quotes[q] \subseteq 0..now'
    <3>1. DOMAIN quotes[q] \subseteq 0..now
      BY <1>2 DEF QuotesFit
    <3>2. 0..now \subseteq 0..now'
      OBVIOUS
    <3> QED
      BY <3>1, <3>2
  <2> QED
    BY <1>2, <2>1 DEF QuotesFit
<1>3. \A s \in Run : Resumes(run[s]) => Resumes(run[s])'
  BY DEF Resumes, GoesOn, PageFits
<1>4. "overlap" \notin mishaps' =>
          /\ Alone' /\ \A q \in Quote : QuotesFit(q)'
          /\ \A s \in Run : Resumes(run[s])'
  BY <1>2, <1>3 DEF QuoteInv, Alone
<1>5. DOMAIN quotes' = Quote
  BY DEF QuoteInv
<1> QED
  BY <1>1, <1>4, <1>5 DEF QuoteInv

LEMMA QuoteStep == ASSUME QuoteInv, [Next]_vars PROVE QuoteInv'
<1>1. ReserveInv'
  BY ReserveStep DEF QuoteInv
<1>2. ASSUME NEW r \in Run, Ingest(r) PROVE QuoteInv'
  BY <1>1, <1>2, QuoteStartRun, QuoteFetchReserves, QuoteMovePoolCursor, QuoteFetchQuotes,
     QuoteStoreQuotes, QuoteStoreHours, QuoteStoreSnapshot DEF Ingest
<1>3. now \in Nat
  BY PriceAssumption DEF QuoteInv, ReserveInv, TypeOK, Hour
<1>4. ASSUME \/ UNCHANGED vars \/ Tick
             \/ \E p \in Pool : Register(p) \/ Unregister(p) \/ UpdateReserves(p)
      PROVE  QuoteInv'
  <2>1. UNCHANGED <<market, quotes, run>> /\ mishaps \subseteq mishaps'
    BY <1>4 DEF vars, world, sources, history, Tick, Register, Unregister, UpdateReserves
  <2>2. now' = now \/ now' = now + 1
    BY <1>4 DEF vars, world, Tick, Register, Unregister, UpdateReserves
  <2> QED
    BY <1>1, <1>3, <2>1, <2>2, QuoteWorldMoves
<1>5. CASE \E r \in Run : Ingest(r) \/ Fail(r)
  BY <1>1, <1>2, <1>5, QuoteFail
<1>6. CASE \E q \in Quote : Trade(q)
  BY <1>1, <1>6, QuoteTrade
<1> QED
  BY <1>4, <1>5, <1>6 DEF Next

\* ingest.ts:440-446.  Unless two runs overlapped, a stored hour before the last
\* stored one has its final average and no hour with trades is left out, for any
\* quotes, page sizes, trades and failures.
THEOREM QuotesAlwaysSettle == Spec => []QuotesSettle
<1>1. QuoteInv => QuotesSettle
  <2>1. SUFFICES ASSUME QuoteInv, "overlap" \notin mishaps, NEW q \in Quote, quotes[q] # NoHours,
                        NEW h \in Min(DOMAIN quotes[q])..(Max(DOMAIN quotes[q]) - 1)
                 PROVE  IF market[q][h] = 0 THEN h \notin DOMAIN quotes[q]
                        ELSE h \in DOMAIN quotes[q] /\ quotes[q][h] = market[q][h]
    BY DEF QuotesSettle
  <2>2. QuotesFit(q) /\ TypeOK /\ now \in Nat /\ now \in Hour
    BY <2>1, PriceAssumption DEF QuoteInv, ReserveInv, TypeOK, Hour
  <2>3. PICK D : D = DOMAIN quotes[q]
    OBVIOUS
  <2>4. D # {} /\ D \subseteq 0..now
    BY <2>1, <2>2, <2>3, SomeHour
  <2>5. Max(D) \in D
    BY <2>2, <2>3, <2>4, LastHourIs
  <2>6. Min(D) \in D
    <3>1. D \in SUBSET Nat
      BY <2>2, <2>4
    <3>2. PICK x \in D : \A y \in D : x <= y
      BY <2>4, <3>1, LeastNatural
    <3> QED
      BY <3>2 DEF Min
  <2>7. PICK lo : lo = Min(D)
    OBVIOUS
  <2>8. PICK hi : hi = Max(D)
    OBVIOUS
  <2>9. lo \in D /\ hi \in D /\ h \in lo..(hi - 1)
    BY <2>1, <2>3, <2>5, <2>6, <2>7, <2>8
  <2>10. market[q][h] > 0 => h \in D /\ quotes[q][h] = market[q][h]
    BY <2>2, <2>3, <2>9 DEF QuotesFit
  <2>11. market[q][h] = 0 => h \notin D
    BY <2>2, <2>3 DEF QuotesFit
  <2>12. market[q][h] \in Nat
    <3>1. lo \in Nat /\ hi \in Nat /\ hi <= now /\ h \in Int /\ lo <= h /\ h < hi
      BY <2>2, <2>4, <2>9
    <3>2. h \in Hour
      BY <2>2, <3>1, PriceAssumption DEF Hour
    <3>3. market[q] \in [Hour -> 0..MaxTrades] /\ MaxTrades \in Nat
      BY <2>2, PriceAssumption DEF TypeOK
    <3>4. market[q][h] \in 0..MaxTrades
      BY <3>2, <3>3
    <3> QED
      BY <3>3, <3>4
  <2> QED
    BY <2>3, <2>10, <2>11, <2>12
<1>2. QuoteInv /\ [Next]_vars => QuoteInv'
  BY QuoteStep
<1> QED
  BY <1>1, <1>2, QuoteStarts, PTL DEF Spec
-----------------------------------------------------------------------------
(***************************************************************************)
(* The series.  A run keeps the earliest hour it has changed.  As long as  *)
(* none failed, overlapped another or lost a pool, what both series and    *)
(* the snapshot of the liquidity have is what a computation from the whole *)
(* tables has: in every hour before the earliest changed one, whatever the *)
(* pages that brought the changes; and in every hour once it has ended.    *)
(***************************************************************************)

\* The point of an hour, from the whole tables.
Point(h) == HourPoint(Active, Rows, quotes, h)

\* A series has the point of an hour, if the hour has one and was touched.
RightAt(series, h) ==
    DOMAIN Point(h) # {} =>
        /\ h \in Touched => h \in DOMAIN series
        /\ h \in DOMAIN series => series[h] = Point(h)

Right(series) == \A h \in 0..now : RightAt(series, h)

Served == IF snapshot = None THEN NoHours ELSE snapshot

LiquidityTrue == LiquidityFresh => liquidity = LiquidityNow

\* All is right before the hour since, everything if nothing has changed.
RightUntil(since) ==
    /\ \A h \in 0..now : since = None \/ h < since => RightAt(hourly, h) /\ RightAt(Served, h)
    /\ since = None => LiquidityTrue

Hours == Nat \cup {None}

\* What a run is about to serve.
Merged(m) == MergeSnapshot(m.prev, m.page)

Early == {"reserves", "poolCursor", "quotes", "storeQuotes", "price"}

\* A memory at the beginning of some turn, with the earliest change since.
Turns(m, active, since) ==
    /\ m.changed \in Hours /\ m.fresh \in Hours /\ Least(m.changed, m.fresh) = since
    /\ \/ (m.pc = "reserves" /\ m.todo \subseteq active)
       \/ (m.pc = "quotes" /\ m.todo \subseteq {QuoteOf[p] : p \in active})
       \/ (m.pc = "price" /\ m.fresh = None)

\* What a run relies on in each step.
RunRight(m) ==
    m.pc # "idle" =>
        /\ ~settled /\ m.changed \in Hours /\ m.fresh \in Hours
        /\ m.pc \in {"reserves", "poolCursor"} => m.todo \subseteq Active
        /\ m.pc \in {"quotes", "storeQuotes"} => m.todo \subseteq {QuoteOf[p] : p \in Active}
        /\ m.pc = "storeQuotes" => m.page \in [DOMAIN m.page -> Nat]
        /\ m.pc = "price" => m.fresh = None
        /\ m.pc \in Early => RightUntil(Least(m.changed, m.fresh))
        /\ m.pc \in {"snapshot", "liquidity"} =>
              Right(hourly) /\ (m.changed = None => LiquidityTrue)
        /\ m.pc = "snapshot" => Merged(m) \in Series(0..now) /\ Right(Merged(m))
        /\ m.pc = "liquidity" => Right(Served)

\* Pools stay registered, a new one has no rows, quotes are those of active pools.
TablesRight ==
    /\ \A p \in Pool : \/ (pools[p] = "active" /\ p \in registered)
                      \/ (pools[p] = "absent" /\ reserves[p] = {})
    /\ quotes = [q \in Quote |-> quotes[q]]
    /\ \A q \in Quote : \A h \in DOMAIN quotes[q] :
          quotes[q][h] \in Nat /\ \E p \in Active : QuoteOf[p] = q

ProductsRight ==
    /\ hourly \in Series(0..now) /\ Served \in Series(0..now)
    /\ liquidity # None => liquidity.asOf \in 0..now
    /\ Priced(Active) = {} => liquidity = None

\* Updates follow each other in time.
ChainOrdered ==
    \A p \in Pool : \A i, j \in DOMAIN chain[p] :
        chain[p][i] \in 0..now /\ (i <= j => chain[p][i] <= chain[p][j])

CurrentInv ==
    /\ QuoteInv /\ ChainOrdered
    /\ mishaps = {} =>
          /\ TablesRight /\ ProductsRight
          /\ \A r \in Run : RunRight(run[r])
          /\ (\A r \in Run : run[r].pc = "idle") => RightUntil(None)

LEMMA LeastIs ==
    ASSUME NEW a \in Hours, NEW b \in Hours
    PROVE  /\ Least(a, b) \in Hours /\ (Least(a, b) = None <=> a = None /\ b = None)
           /\ \A h \in Nat : Least(a, b) = None \/ h < Least(a, b) =>
                                (a = None \/ h < a) /\ (b = None \/ h < b)
           /\ Least(a, None) = a
<1>0. None \notin Nat
  BY PriceAssumption
<1>1. CASE a = None \/ b = None
  BY <1>0, <1>1 DEF Least, Hours
<1>2. CASE a # None /\ b # None
  <2>1. a \in Nat /\ b \in Nat
    BY <1>2 DEF Hours
  <2>2. Min({a, b}) \in {a, b} /\ Min({a, b}) <= a /\ Min({a, b}) <= b
    BY <2>1, LesserOfTwo
  <2>3. Least(a, b) = Min({a, b})
    BY <1>2 DEF Least
  <2> HIDE DEF Least
  <2>4. Least(a, b) \in Nat /\ Least(a, b) # None
    BY <1>0, <2>1, <2>2, <2>3
  <2>5. Least(a, None) = a
    BY DEF Least
  <2> QED
    BY <1>2, <2>1, <2>2, <2>3, <2>4, <2>5 DEF Hours
<1> QED
  BY <1>1, <1>2

LEMMA ToQuotesTurns ==
    ASSUME NEW m, DOMAIN m = MemoryFields, m.changed \in Hours, m.fresh \in Hours,
           NEW active, m.todo \subseteq {QuoteOf[p] : p \in active}
    PROVE  Turns(ToQuotes(m), active, Least(m.changed, m.fresh))
<1>1. CASE m.todo # {}
  <2>1. ToQuotes(m) = [m EXCEPT !.pc = "quotes"]
    BY <1>1 DEF ToQuotes
  <2> QED
    BY <2>1 DEF Turns, MemoryFields
<1>2. CASE m.todo = {}
  <2>1. PICK since : since = Least(m.changed, m.fresh)
    OBVIOUS
  <2>2. since \in Hours /\ Least(since, None) = since
    BY <2>1, LeastIs
  <2>3. PICK n : n = ToQuotes(m)
    OBVIOUS
  <2>4. n = AtStep("price", since, m.clean)
    BY <1>2, <2>1, <2>3 DEF ToQuotes, Bump
  <2>5. n.pc = "price" /\ n.changed = since /\ n.fresh = None
    BY <2>4, AtStepIs
  <2> QED
    BY <2>1, <2>2, <2>3, <2>5 DEF Turns, Hours
<1> QED
  BY <1>1, <1>2

LEMMA ToReservesTurns ==
    ASSUME NEW m, DOMAIN m = MemoryFields, m.changed \in Hours, m.fresh \in Hours,
           NEW active, m.todo \subseteq active
    PROVE  Turns(ToReserves(active, m), active, Least(m.changed, m.fresh))
<1>1. CASE m.todo # {}
  <2>1. ToReserves(active, m) = [m EXCEPT !.pc = "reserves"]
    BY <1>1 DEF ToReserves
  <2> QED
    BY <2>1 DEF Turns, MemoryFields
<1>2. CASE m.todo = {}
  <2>1. PICK since : since = Least(m.changed, m.fresh)
    OBVIOUS
  <2>2. since \in Hours /\ Least(since, None) = since
    BY <2>1, LeastIs
  <2>3. PICK n : n = AtQuotes(active, since, m.clean)
    OBVIOUS
  <2>4. DOMAIN n = MemoryFields /\ n.changed = since /\ n.fresh = None
        /\ n.todo \subseteq {QuoteOf[p] : p \in active}
    BY <2>3, AtQuotesIs
  <2>5. ToReserves(active, m) = ToQuotes(n)
    BY <1>2, <2>1, <2>3 DEF ToReserves, Bump
  <2>6. Turns(ToQuotes(n), active, Least(n.changed, n.fresh))
    BY <2>2, <2>4, ToQuotesTurns DEF Hours
  <2> QED
    BY <2>1, <2>2, <2>4, <2>5, <2>6
<1> QED
  BY <1>1, <1>2

\* A point depends on the rows and prices up to its hour, and on no pool without rows.
LEMMA PointKept ==
    ASSUME NEW ps \in SUBSET Pool, NEW qs \in SUBSET Pool, ps \subseteq qs,
           NEW rs, NEW ss, NEW old, NEW new, NEW h, NEW n \in Nat,
           \A p \in ps : RowsUpTo(rs[p], h) = RowsUpTo(ss[p], h),
           \A p \in qs \ ps : RowsUpTo(ss[p], h) = {},
           \A q \in Quote : /\ DOMAIN old[q] \subseteq 0..n
                            /\ HoursUpTo(old[q], h) = HoursUpTo(new[q], h)
                            /\ \A k \in HoursUpTo(old[q], h) : old[q][k] = new[q][k]
    PROVE  HourPoint(ps, rs, old, h) = HourPoint(qs, ss, new, h)
<1>1. ASSUME NEW p \in Priced(ps)
      PROVE  /\ QuoteKnown(QuoteOf[p], old, h) <=> QuoteKnown(QuoteOf[p], new, h)
             /\ QuoteKnown(QuoteOf[p], old, h) =>
                    QuoteUsdAt(QuoteOf[p], old, h) = QuoteUsdAt(QuoteOf[p], new, h)
  <2>1. PICK q : q = QuoteOf[p]
    OBVIOUS
  <2>2. q \in Quote \cup {Usd}
    BY <2>1, PriceAssumption DEF Priced
  <2>3. CASE q = Usd
    BY <2>1, <2>3 DEF QuoteKnown, QuoteUsdAt
  <2>4. CASE q # Usd
    <3>1. q \in Quote
      BY <2>2, <2>4
    <3>2. PICK S : S = HoursUpTo(old[q], h)
      OBVIOUS
    <3>3. S = HoursUpTo(new[q], h) /\ \A k \in S : old[q][k] = new[q][k]
      BY <3>1, <3>2
    <3>4. QuoteKnown(q, old, h) <=> S # {}
      BY <2>4, <3>2 DEF QuoteKnown
    <3>5. QuoteKnown(q, new, h) <=> S # {}
      BY <2>4, <3>3 DEF QuoteKnown
    <3>6. ASSUME S # {} PROVE Max(S) \in S
      <4>1. S \subseteq 0..n
        BY <3>1, <3>2 DEF HoursUpTo
      <4>2. IsFiniteSet(S)
        <5>1. IsFiniteSet(0..n)
          BY FS_Interval
        <5> QED
          BY <4>1, <5>1, FS_Subset
      <4>3. S \in SUBSET Int
        <5>1. 0..n \subseteq Int
          OBVIOUS
        <5> QED
          BY <4>1, <5>1
      <4> QED
        BY <3>6, <4>2, <4>3, MaxOfFinite
    <3>7. QuoteUsdAt(q, old, h) = old[q][Max(S)] /\ QuoteUsdAt(q, new, h) = new[q][Max(S)]
      BY <2>4, <3>2, <3>3 DEF QuoteUsdAt
    <3> QED
      BY <2>1, <3>3, <3>4, <3>5, <3>6, <3>7
  <2> QED
    BY <2>3, <2>4
<1>2. ASSUME NEW p \in Priced(ps) PROVE Counts(p, rs, old, h) <=> Counts(p, ss, new, h)
  <2>1. p \in ps
    BY DEF Priced
  <2> QED
    BY <1>1, <2>1 DEF Counts
<1>3. ASSUME NEW p \in Priced(qs), p \notin Priced(ps) PROVE ~Counts(p, ss, new, h)
  <2>1. p \in qs \ ps
    BY <1>3 DEF Priced
  <2> QED
    BY <2>1 DEF Counts
<1> DEFINE D == {p \in Priced(ps) : Counts(p, rs, old, h)}
           E == {p \in Priced(qs) : Counts(p, ss, new, h)}
<1>4. D = E
  <2>1. Priced(ps) \subseteq Priced(qs)
    BY DEF Priced
  <2> QED
    BY <1>2, <1>3, <2>1
<1>5. ASSUME NEW p \in D
      PROVE  <<LastRow(RowsUpTo(rs[p], h)).id, QuoteUsdAt(QuoteOf[p], old, h)>>
               = <<LastRow(RowsUpTo(ss[p], h)).id, QuoteUsdAt(QuoteOf[p], new, h)>>
  <2>1. p \in ps /\ p \in Priced(ps) /\ QuoteKnown(QuoteOf[p], old, h)
    BY DEF Priced, Counts
  <2> QED
    BY <1>1, <2>1
<1> HIDE DEF D, E
<1>6. HourPoint(ps, rs, old, h) =
        [p \in D |-> <<LastRow(RowsUpTo(rs[p], h)).id, QuoteUsdAt(QuoteOf[p], old, h)>>]
  BY DEF HourPoint, D
<1>7. HourPoint(qs, ss, new, h) =
        [p \in E |-> <<LastRow(RowsUpTo(ss[p], h)).id, QuoteUsdAt(QuoteOf[p], new, h)>>]
  BY DEF HourPoint, E
<1> QED
  BY <1>4, <1>5, <1>6, <1>7

\* Without rows up to an hour it has no point.
LEMMA NoRowsNoPoint ==
    ASSUME NEW ps \in SUBSET Pool, NEW rs, NEW qs, NEW h,
           \A p \in ps : RowsUpTo(rs[p], h) = {}
    PROVE  DOMAIN HourPoint(ps, rs, qs, h) = {}
BY DEF HourPoint, Counts, Priced

LEMMA UnpricedNoPoint ==
    ASSUME NEW ps, NEW rs, NEW qs, NEW h, Priced(ps) = {}
    PROVE  DOMAIN HourPoint(ps, rs, qs, h) = {}
BY DEF HourPoint

LEMMA HoursComputed ==
    ASSUME NEW ps, NEW rs, NEW qs, NEW from \in Int, NEW to \in Int
    PROVE  LET hours == ComputeHours(ps, rs, qs, from, to) IN
           /\ \A h : h \in DOMAIN hours <=> h \in from..to /\ DOMAIN HourPoint(ps, rs, qs, h) # {}
           /\ \A h \in DOMAIN hours : hours[h] = HourPoint(ps, rs, qs, h)
           /\ hours = [h \in DOMAIN hours |-> hours[h]]
BY DEF ComputeHours

\* New pools without rows leave the liquidity as it was.
LEMMA LiquidityKept ==
    ASSUME NEW ps \in SUBSET Pool, NEW qs \in SUBSET Pool, ps \subseteq qs, NEW rs, NEW prices,
           \A p \in qs \ ps : rs[p] = {}, NEW t,
           \A h : HourPoint(ps, rs, prices, h) = HourPoint(qs, rs, prices, h)
    PROVE  SummarizeLiquidity(ps, rs, prices, t, Windows)
             = SummarizeLiquidity(qs, rs, prices, t, Windows)
<1>1. ASSUME NEW since PROVE Swaps(ps, rs, prices, since) = Swaps(qs, rs, prices, since)
  <2> DEFINE S(p) == {<<p, r.id>> : r \in {s \in rs[p] :
                        /\ s.ts >= since
                        /\ Earlier(rs[p], s) # {}
                        /\ IsSwap(LastRow(Earlier(rs[p], s)), s)
                        /\ QuoteKnown(QuoteOf[p], prices, s.ts)}}
  <2>1. \A p \in Priced(qs) : p \in Priced(ps) \/ S(p) = {}
    BY DEF Priced
  <2>2. Priced(ps) \subseteq Priced(qs)
    BY DEF Priced
  <2>3. Swaps(ps, rs, prices, since) = UNION {S(p) : p \in Priced(ps)}
        /\ Swaps(qs, rs, prices, since) = UNION {S(p) : p \in Priced(qs)}
    BY DEF Swaps
  <2> HIDE DEF S
  <2>4. UNION {S(p) : p \in Priced(ps)} = UNION {S(p) : p \in Priced(qs)}
    BY <2>1, <2>2
  <2> QED
    BY <2>3, <2>4
<1>2. ComputeHours(ps, rs, prices, t - Max(Windows), t)
        = ComputeHours(qs, rs, prices, t - Max(Windows), t)
  BY DEF ComputeHours
<1> QED
  BY <1>1, <1>2 DEF SummarizeLiquidity

\* The series that replaces another from the first recomputed hour on.
LEMMA MergedHas ==
    ASSUME NEW hs \in SUBSET Nat, NEW prev \in Series(hs), NEW updated \in Series(hs)
    PROVE  /\ MergeSnapshot(prev, updated) \in Series(hs)
           /\ updated = NoHours => MergeSnapshot(prev, updated) = prev
           /\ updated # NoHours =>
                 \E first \in DOMAIN updated :
                    /\ \A h \in DOMAIN updated : first <= h
                    /\ DOMAIN MergeSnapshot(prev, updated)
                          = {h \in DOMAIN prev : h < first} \cup DOMAIN updated
                    /\ \A h \in DOMAIN prev : h < first => MergeSnapshot(prev, updated)[h] = prev[h]
                    /\ \A h \in DOMAIN updated : MergeSnapshot(prev, updated)[h] = updated[h]
<1>1. PICK P \in SUBSET hs : prev \in [P -> Points]
  BY DEF Series
<1>2. PICK U \in SUBSET hs : updated \in [U -> Points]
  BY DEF Series
<1>3. CASE updated = NoHours
  BY <1>3 DEF MergeSnapshot, NoHours
<1>4. CASE updated # NoHours
  <2>1. U # {}
    <3>1. ASSUME U = {} PROVE FALSE
      BY <1>2, <1>4, <3>1 DEF NoHours
    <3> QED
      BY <3>1
  <2>2. PICK first \in U : \A h \in U : first <= h
    BY <1>2, <2>1, LeastNatural
  <2>3. Min(U) = first
    <3>1. \A h \in U : h \in Nat
      BY <1>2
    <3>2. PICK least : least = Min(U)
      OBVIOUS
    <3>3. least \in U /\ \A h \in U : least <= h
      BY <2>2, <3>2 DEF Min
    <3>4. least \in Nat /\ first \in Nat /\ least <= first /\ first <= least
      BY <2>2, <3>1, <3>3
    <3>5. least = first
      BY <3>4
    <3> QED
      BY <3>2, <3>5
  <2>4. PICK kept : kept = {h \in P : h < first}
    OBVIOUS
  <2>5. PICK merged : merged = MergeSnapshot(prev, updated)
    OBVIOUS
  <2>6. merged = [h \in kept \cup U |-> IF h \in kept THEN prev[h] ELSE updated[h]]
    BY <1>1, <1>2, <1>4, <2>3, <2>4, <2>5 DEF MergeSnapshot, NoHours
  <2>7. \A h \in U : h \notin kept
    <3>1. \A h \in U : h \in Nat
      BY <1>2
    <3> QED
      BY <2>2, <2>4, <3>1
  <2>8. merged \in [kept \cup U -> Points]
    BY <1>1, <1>2, <2>4, <2>6
  <2>9. merged \in Series(hs)
    BY <1>1, <1>2, <2>4, <2>8 DEF Series
  <2> QED
    BY <1>1, <1>2, <1>4, <2>2, <2>4, <2>5, <2>6, <2>7, <2>9
<1> QED
  BY <1>1, <1>3, <1>4

\* What the tables say depends on the pools, their rows, the quotes and the clock.
LEMMA TablesStay ==
    ASSUME UNCHANGED <<pools, chain, reserves, quotes>>
    PROVE  /\ Active' = Active /\ Rows' = Rows /\ Touched' = Touched
           /\ \A h : Point(h)' = Point(h)
<1>1. Active' = Active
  BY DEF Active
<1>2. Rows' = Rows
  BY DEF Rows, Row
<1>3. Touched' = Touched
  BY <1>1, <1>2 DEF Touched
<1>4. \A h : Point(h)' = Point(h)
  BY <1>1, <1>2 DEF Point
<1> QED
  BY <1>1, <1>2, <1>3, <1>4

\* All that is right stays right, up to an hour from which on the tables change.
LEMMA UntilKept ==
    ASSUME NEW since \in Hours, NEW until \in Hours, RightUntil(since), now \in Nat,
           UNCHANGED <<now, hourly, snapshot, liquidity>>,
           since # None => until # None /\ until <= since,
           \A h \in 0..now : until = None \/ h < until =>
                Point(h)' = Point(h) /\ (h \in Touched' => h \in Touched),
           until = None => LiquidityNow' = LiquidityNow
    PROVE  RightUntil(until)'
<1>0. None \notin Nat
  BY PriceAssumption
<1>1. ASSUME NEW h \in 0..now, until = None \/ h < until PROVE since = None \/ h < since
  BY <1>0, <1>1 DEF Hours
<1>2. ASSUME NEW h \in 0..now, until = None \/ h < until
      PROVE  RightAt(hourly, h)' /\ RightAt(Served, h)'
  <2>1. RightAt(hourly, h) /\ RightAt(Served, h)
    BY <1>1, <1>2 DEF RightUntil
  <2>2. Point(h)' = Point(h) /\ (h \in Touched' => h \in Touched)
    BY <1>2
  <2>3. Served' = Served
    BY DEF Served
  <2> QED
    BY <2>1, <2>2, <2>3 DEF RightAt
<1>3. until = None => LiquidityTrue'
  BY DEF RightUntil, LiquidityTrue, LiquidityFresh
<1> QED
  BY <1>2, <1>3 DEF RightUntil

LEMMA RightStays ==
    ASSUME UNCHANGED <<now, pools, chain, reserves, quotes, products>>
    PROVE  /\ \A since : RightUntil(since)' <=> RightUntil(since)
           /\ \A series : Right(series)' <=> Right(series)
           /\ LiquidityTrue' <=> LiquidityTrue
           /\ Served' = Served
<1>1. /\ Active' = Active /\ Rows' = Rows /\ Touched' = Touched
      /\ \A h : Point(h)' = Point(h)
  BY TablesStay
<1>2. \A series, h : RightAt(series, h)' <=> RightAt(series, h)
  BY <1>1 DEF RightAt
<1>3. LiquidityTrue' <=> LiquidityTrue
  BY <1>1 DEF LiquidityTrue, LiquidityFresh, LiquidityNow, products
<1>4. Served' = Served /\ hourly' = hourly
  BY DEF Served, products
<1>5. ASSUME NEW since PROVE RightUntil(since)' <=> RightUntil(since)
  <2>1. ASSUME NEW h PROVE /\ RightAt(hourly, h)' <=> RightAt(hourly, h)
                           /\ RightAt(Served, h)' <=> RightAt(Served, h)
    BY <1>1, <1>4 DEF RightAt
  <2> QED
    BY <1>3, <2>1 DEF RightUntil
<1>6. ASSUME NEW series PROVE Right(series)' <=> Right(series)
  BY <1>2 DEF Right
<1> QED
  BY <1>3, <1>4, <1>5, <1>6

\* At the beginning of a turn nothing else is relied on.
LEMMA TurnsRight ==
    ASSUME NEW m, NEW since, Turns(m, Active, since), RightUntil(since), ~settled
    PROVE  RunRight(m)
BY DEF Turns, RunRight, Early

LEMMA TurnsRightNext ==
    ASSUME NEW m, NEW since, Turns(m, Active', since), RightUntil(since)', ~settled'
    PROVE  RunRight(m)'
BY DEF Turns, RunRight, Early

\* One run goes on: the others are idle.
LEMMA CurrentRunMoves ==
    ASSUME CurrentInv, QuoteInv', UNCHANGED <<now, chain, mishaps>>,
           NEW r \in Run, run[r].pc # "idle", NEW m, Reset(r, m),
           mishaps = {} => TablesRight' /\ ProductsRight' /\ RunRight(m)',
           mishaps = {} /\ m.pc = "idle" => RightUntil(None)'
    PROVE  CurrentInv'
<1>1. DOMAIN run = Run
  BY DEF CurrentInv, QuoteInv, ReserveInv
<1>2. run'[r] = m /\ \A s \in Run \ {r} : run'[s] = run[s]
  BY <1>1 DEF Reset
<1>3. ChainOrdered'
  BY DEF CurrentInv, ChainOrdered
<1>4. ASSUME mishaps' = {}
      PROVE  /\ TablesRight' /\ ProductsRight'
             /\ \A s \in Run : RunRight(run[s])'
             /\ (\A s \in Run : run'[s].pc = "idle") => RightUntil(None)'
  <2>1. mishaps = {} /\ Alone
    BY <1>4 DEF CurrentInv, QuoteInv
  <2>2. \A s \in Run \ {r} : run'[s].pc = "idle"
    BY <1>2, <2>1 DEF Alone
  <2>3. ASSUME NEW s \in Run PROVE RunRight(run[s])'
    <3>1. CASE s = r
      BY <1>2, <2>1, <3>1
    <3>2. CASE s # r
      BY <2>2, <3>2 DEF RunRight
    <3> QED
      BY <3>1, <3>2
  <2> QED
    BY <1>2, <2>1, <2>3
<1> QED
  BY <1>3, <1>4 DEF CurrentInv

\* A run that stores nothing.
LEMMA CurrentMemoryMoves ==
    ASSUME CurrentInv, QuoteInv', NEW r \in Run, run[r].pc # "idle", NEW m, Reset(r, m),
           UNCHANGED <<world, pools, reserves, quotes, products, history>>,
           m.pc # "idle", mishaps = {} => RunRight(m)
    PROVE  CurrentInv'
<1>1. UNCHANGED <<now, registered, chain, mishaps, settled, hourly, snapshot, liquidity>>
  BY DEF world, products, history
<1>2. ASSUME mishaps = {} PROVE TablesRight' /\ ProductsRight' /\ RunRight(m)'
  <2>1. TablesRight /\ ProductsRight /\ RunRight(m)
    BY <1>2 DEF CurrentInv
  <2>2. Active' = Active
    BY TablesStay, <1>1
  <2>3. TablesRight'
    BY <1>1, <2>1, <2>2 DEF TablesRight
  <2>4. ProductsRight'
    BY <1>1, <2>1, <2>2 DEF ProductsRight, Served
  <2>5. /\ \A since : RightUntil(since)' <=> RightUntil(since)
        /\ \A series : Right(series)' <=> Right(series)
        /\ LiquidityTrue' <=> LiquidityTrue
        /\ Served' = Served
    BY <1>1, RightStays
  <2>6. Right(hourly)' <=> Right(hourly)
    BY <1>1, TablesStay DEF Right, RightAt
  <2>7. Right(Served)' <=> Right(Served)
    <3>1. \A h : RightAt(Served, h)' <=> RightAt(Served, h)
      BY <1>1, <2>5, TablesStay DEF RightAt
    <3> QED
      BY <1>1, <3>1 DEF Right
  <2>8. RunRight(m)'
    <3>1. /\ ~settled /\ m.changed \in Hours /\ m.fresh \in Hours
          /\ m.pc \in {"reserves", "poolCursor"} => m.todo \subseteq Active
          /\ m.pc \in {"quotes", "storeQuotes"} => m.todo \subseteq {QuoteOf[p] : p \in Active}
          /\ m.pc = "storeQuotes" => m.page \in [DOMAIN m.page -> Nat]
          /\ m.pc = "price" => m.fresh = None
      BY <2>1 DEF RunRight
    <3>2. m.pc \in Early => RightUntil(Least(m.changed, m.fresh))'
      BY <2>1, <2>5 DEF RunRight
    <3>3. m.pc \in {"snapshot", "liquidity"} =>
              Right(hourly)' /\ (m.changed = None => LiquidityTrue')
      BY <2>1, <2>5, <2>6 DEF RunRight
    <3>4. m.pc = "snapshot" => Merged(m) \in Series(0..now') /\ Right(Merged(m))'
      BY <1>1, <2>1, <2>5 DEF RunRight
    <3>5. m.pc = "liquidity" => Right(Served)'
      BY <2>1, <2>7 DEF RunRight
    <3> QED
      BY <1>1, <2>2, <3>1, <3>2, <3>3, <3>4, <3>5 DEF RunRight
  <2> QED
    BY <2>3, <2>4, <2>8
<1> QED
  BY <1>1, <1>2, CurrentRunMoves

LEMMA ToQuotesGoesOn ==
    ASSUME NEW m, DOMAIN m = MemoryFields
    PROVE  ToQuotes(m).pc # "idle"
BY ToQuotesLeaves

LEMMA ToReservesGoesOn ==
    ASSUME NEW active, NEW m, DOMAIN m = MemoryFields
    PROVE  ToReserves(active, m).pc # "idle"
<1>1. CASE m.todo # {}
  BY <1>1 DEF ToReserves, MemoryFields
<1>2. CASE m.todo = {}
  BY <1>2, AtQuotesIs, ToQuotesLeaves DEF ToReserves
<1> QED
  BY <1>1, <1>2

\* What a run has in the steps before the price.
LEMMA RunIs ==
    ASSUME CurrentInv, NEW r \in Run, mishaps = {}
    PROVE  /\ RunRight(run[r]) /\ DOMAIN run[r] = MemoryFields /\ TypeOK /\ now \in Nat
           /\ TablesRight /\ ProductsRight /\ ChainOrdered
           /\ \A q \in Quote : QuotesFit(q)
<1>1. QuoteInv /\ ReserveInv /\ TypeOK
  BY DEF CurrentInv, QuoteInv, ReserveInv
<1>2. DOMAIN run[r] = MemoryFields
  BY <1>1 DEF ReserveInv, ReserveMemory
<1>3. now \in Nat
  BY <1>1, PriceAssumption DEF TypeOK, Hour
<1>4. \A q \in Quote : QuotesFit(q)
  BY <1>1 DEF QuoteInv
<1> QED
  BY <1>1, <1>2, <1>3, <1>4 DEF CurrentInv

LEMMA CurrentMovePoolCursor ==
    ASSUME CurrentInv, QuoteInv', NEW r \in Run, MovePoolCursor(r)
    PROVE  CurrentInv'
<1>1. UNCHANGED <<world, pools, reserves, quotes, products, history>> /\ run[r].pc = "poolCursor"
  BY DEF MovePoolCursor
<1>2. PICK old : old = run[r]
  OBVIOUS
<1>3. DOMAIN old = MemoryFields
  BY <1>2 DEF CurrentInv, QuoteInv, ReserveInv, ReserveMemory
<1> DEFINE p == Turn(run[r].todo)
           more == run[r].pages < PoolPages
<1>4. PICK n : n = [old EXCEPT !.todo = @ \ {p}, !.at = None, !.pages = 0]
  OBVIOUS
<1>5. PICK m : m = IF more THEN [old EXCEPT !.pc = "reserves"] ELSE ToReserves(Active, n)
  OBVIOUS
<1>6. Reset(r, m)
  BY <1>2, <1>4, <1>5 DEF MovePoolCursor
<1> HIDE DEF p, more
<1>7. DOMAIN n = MemoryFields /\ n.changed = old.changed /\ n.fresh = old.fresh
      /\ n.todo = old.todo \ {p}
  BY <1>3, <1>4 DEF MemoryFields
<1>8. m.pc # "idle"
  <2>1. CASE more
    BY <1>3, <1>5, <2>1 DEF MemoryFields
  <2>2. CASE ~more
    BY <1>5, <1>7, <2>2, ToReservesGoesOn
  <2> QED
    BY <2>1, <2>2
<1>9. ASSUME mishaps = {} PROVE RunRight(m)
  <2>1. RunRight(old)
    BY <1>2, <1>9 DEF CurrentInv
  <2>2. /\ ~settled /\ old.changed \in Hours /\ old.fresh \in Hours /\ old.todo \subseteq Active
        /\ RightUntil(Least(old.changed, old.fresh))
    BY <1>1, <1>2, <2>1 DEF RunRight, Early
  <2>3. Turns(m, Active, Least(old.changed, old.fresh))
    <3>1. CASE more
      <4>1. m = [old EXCEPT !.pc = "reserves"]
        BY <1>5, <3>1
      <4> QED
        BY <1>3, <2>2, <4>1 DEF Turns, MemoryFields
    <3>2. CASE ~more
      <4>1. Turns(ToReserves(Active, n), Active, Least(n.changed, n.fresh))
        BY <1>7, <2>2, ToReservesTurns
      <4> QED
        BY <1>5, <1>7, <3>2, <4>1
    <3> QED
      BY <3>1, <3>2
  <2> QED
    BY <2>2, <2>3, TurnsRight
<1> QED
  BY <1>1, <1>6, <1>8, <1>9, CurrentMemoryMoves

LEMMA CurrentFetchQuotes ==
    ASSUME CurrentInv, QuoteInv', NEW r \in Run, FetchQuotes(r)
    PROVE  CurrentInv'
<1>1. UNCHANGED <<world, pools, reserves, quotes, products, history>> /\ run[r].pc = "quotes"
  BY DEF FetchQuotes, sources
<1>2. PICK old : old = run[r]
  OBVIOUS
<1>3. DOMAIN old = MemoryFields
  BY <1>2 DEF CurrentInv, QuoteInv, ReserveInv, ReserveMemory
<1> DEFINE q    == Turn(run[r].todo)
           from == IF run[r].pages = 0 THEN QuoteStart(q) ELSE run[r].at
           page == MarketPage(q, from, run[r].upTo)
           left == run[r].todo \ {q}
<1>4. PICK n : n = [old EXCEPT !.todo = left, !.at = None, !.pages = 0]
  OBVIOUS
<1>5. PICK m : m = IF NothingToAsk(from, run[r].upTo) THEN ToQuotes(n)
                   ELSE [old EXCEPT !.pc = "storeQuotes", !.page = page]
  OBVIOUS
<1>6. Reset(r, m)
  BY <1>2, <1>4, <1>5 DEF FetchQuotes
<1>7. left = old.todo \ {q} /\ q = Turn(old.todo)
  BY <1>2
<1>8. page = MarketPage(q, from, old.upTo)
  BY <1>2
<1>9. from = IF old.pages = 0 THEN QuoteStart(q) ELSE old.at
  BY <1>2
<1> HIDE DEF q, from, page, left
<1>10. DOMAIN n = MemoryFields /\ n.changed = old.changed /\ n.fresh = old.fresh
       /\ n.todo = left
  BY <1>3, <1>4 DEF MemoryFields
<1>11. m.pc # "idle"
  <2>1. CASE NothingToAsk(from, run[r].upTo)
    BY <1>5, <1>10, <2>1, ToQuotesGoesOn
  <2>2. CASE ~NothingToAsk(from, run[r].upTo)
    BY <1>3, <1>5, <2>2 DEF MemoryFields
  <2> QED
    BY <2>1, <2>2
<1>12. ASSUME mishaps = {} PROVE RunRight(m)
  <2>1. RunRight(old) /\ TypeOK /\ QuoteInv /\ now \in Nat /\ \A x \in Quote : QuotesFit(x)
    BY <1>2, <1>12, RunIs DEF CurrentInv
  <2>2. /\ ~settled /\ old.changed \in Hours /\ old.fresh \in Hours
        /\ old.todo \subseteq {QuoteOf[p] : p \in Active}
        /\ RightUntil(Least(old.changed, old.fresh))
    BY <1>1, <1>2, <2>1 DEF RunRight, Early
  <2>3. CASE NothingToAsk(from, run[r].upTo)
    <3>1. Turns(ToQuotes(n), Active, Least(n.changed, n.fresh))
      BY <1>7, <1>10, <2>2, ToQuotesTurns
    <3> QED
      BY <1>5, <1>10, <2>2, <2>3, <3>1, TurnsRight
  <2>4. CASE ~NothingToAsk(from, run[r].upTo)
    <3>1. m = [old EXCEPT !.pc = "storeQuotes", !.page = page]
      BY <1>5, <2>4
    <3>2. /\ m.pc = "storeQuotes" /\ m.page = page /\ m.todo = old.todo
          /\ m.changed = old.changed /\ m.fresh = old.fresh
      BY <1>3, <3>1 DEF MemoryFields
    <3>3. /\ old.todo # {} /\ old.todo \subseteq Quote /\ old.upTo \in Nat /\ old.upTo <= now
          /\ old.pages \in Nat
      BY <1>1, <1>2, <2>1 DEF QuoteInv, QuoteMemory
    <3>4. q \in Quote
      BY <1>7, <3>3, TurnIs
    <3>5. from \in Nat
      <4>1. CASE old.pages = 0
        <5>1. QuoteStart(q) # None
          BY <1>9, <2>4, <4>1 DEF NothingToAsk
        <5>2. GoesOn(q, QuoteStart(q), old.upTo)
          BY <2>1, <3>3, <3>4, <5>1, QuoteStartGoesOn
        <5> QED
          BY <1>9, <4>1, <5>2 DEF GoesOn
      <4>2. CASE old.pages # 0
        <5>1. Resumes(old)
          BY <1>2, <1>12, <2>1 DEF QuoteInv
        <5>2. GoesOn(Turn(old.todo), old.at, old.upTo)
          BY <1>1, <1>2, <4>2, <5>1 DEF Resumes
        <5> QED
          BY <1>9, <4>2, <5>2 DEF GoesOn
      <4> QED
        BY <4>1, <4>2
    <3>6. page \in [DOMAIN page -> Nat]
      <4>1. \A h \in from..old.upTo : market[q][h] \in Nat
        <5>1. now \in Hour /\ market[q] \in [Hour -> 0..MaxTrades]
          BY <2>1, <3>4 DEF TypeOK
        <5>2. MaxTime \in Nat /\ MaxTrades \in Nat /\ now <= MaxTime
          BY <5>1, PriceAssumption DEF Hour
        <5>3. \A h \in from..old.upTo : h \in Hour
          BY <2>1, <3>3, <3>5, <5>2 DEF Hour
        <5>4. \A h \in Hour : market[q][h] \in 0..MaxTrades
          BY <5>1
        <5> QED
          BY <5>2, <5>3, <5>4
      <4> DEFINE traded == {h \in from..old.upTo : market[q][h] > 0}
                 D == {k \in traded : Cardinality({j \in traded : j < k}) < QuoteLimit}
      <4>2. page = [h \in D |-> market[q][h]]
        BY <1>8 DEF MarketPage
      <4>3. D \subseteq from..old.upTo
        OBVIOUS
      <4> HIDE DEF D
      <4> QED
        BY <4>1, <4>2, <4>3
    <3> QED
      BY <2>2, <3>2, <3>6 DEF RunRight, Early
  <2> QED
    BY <2>3, <2>4
<1> QED
  BY <1>1, <1>6, <1>11, <1>12, CurrentMemoryMoves

\* An hour that both tables see the same way has the same point.
LEMMA HourStays ==
    ASSUME NEW h, now \in Nat, UNCHANGED pools, \A q \in Quote : QuotesFit(q),
           \A p \in Pool : RowsUpTo(Rows[p], h) = RowsUpTo(Rows'[p], h),
           \A q \in Quote : /\ HoursUpTo(quotes[q], h) = HoursUpTo(quotes'[q], h)
                            /\ \A k \in HoursUpTo(quotes[q], h) : quotes[q][k] = quotes'[q][k]
    PROVE  Point(h)' = Point(h) /\ (h \in Nat /\ h \in Touched' => h \in Touched)
<1>1. Active' = Active /\ Active \subseteq Pool
  BY DEF Active
<1>2. \A q \in Quote : DOMAIN quotes[q] \subseteq 0..now
  BY DEF QuotesFit
<1>3. HourPoint(Active, Rows, quotes, h) = HourPoint(Active, Rows', quotes', h)
  <2>1. PICK rs, ss, old, new : rs = Rows /\ ss = Rows' /\ old = quotes /\ new = quotes'
    OBVIOUS
  <2>2. PICK ps \in SUBSET Pool : ps = Active
    BY <1>1
  <2>3. PICK n \in Nat : n = now
    OBVIOUS
  <2>4. \A p \in ps : RowsUpTo(rs[p], h) = RowsUpTo(ss[p], h)
    BY <2>1
  <2>5. \A q \in Quote : /\ DOMAIN old[q] \subseteq 0..n
                         /\ HoursUpTo(old[q], h) = HoursUpTo(new[q], h)
                         /\ \A k \in HoursUpTo(old[q], h) : old[q][k] = new[q][k]
    BY <1>2, <2>1, <2>3
  <2>6. HourPoint(ps, rs, old, h) = HourPoint(ps, ss, new, h)
    BY <2>4, <2>5, PointKept
  <2> QED
    BY <2>1, <2>2, <2>6
<1>4. ASSUME h \in Nat, h \in Touched' PROVE h \in Touched
  <2>1. CASE \E p \in Active : \E row \in Rows'[p] : row.ts = h
    <3>1. PICK p \in Active : \E row \in Rows'[p] : row.ts = h
      BY <2>1
    <3>2. PICK row \in Rows'[p] : row.ts = h
      BY <3>1
    <3>3. row \in RowsUpTo(Rows'[p], h)
      BY <1>4, <3>2 DEF RowsUpTo
    <3>4. row \in Rows[p]
      BY <1>1, <3>3 DEF RowsUpTo
    <3> QED
      BY <3>2, <3>4 DEF Touched
  <2>2. CASE \E p \in Active : QuoteOf[p] \in Quote /\ h \in DOMAIN quotes'[QuoteOf[p]]
    <3>1. PICK p \in Active : QuoteOf[p] \in Quote /\ h \in DOMAIN quotes'[QuoteOf[p]]
      BY <2>2
    <3>2. PICK q \in Quote : q = QuoteOf[p]
      BY <3>1
    <3>3. h \in HoursUpTo(quotes'[q], h)
      BY <1>4, <3>1, <3>2 DEF HoursUpTo
    <3>4. h \in DOMAIN quotes[q]
      BY <3>3 DEF HoursUpTo
    <3> QED
      BY <3>1, <3>2, <3>4 DEF Touched
  <2> QED
    BY <1>1, <1>4, <2>1, <2>2 DEF Touched
<1> QED
  BY <1>1, <1>3, <1>4 DEF Point

\* What a page adds is known from its earliest hour on.
LEMMA LeastOfThree ==
    ASSUME NEW a \in Hours, NEW b \in Hours, NEW c \in Hours,
           NEW since, since = Least(a, b), NEW until, until = Least(a, Least(b, c))
    PROVE  /\ since \in Hours /\ until \in Hours /\ Least(b, c) \in Hours
           /\ since # None => until # None /\ until <= since
           /\ until = None => c = None
           /\ \A h \in Nat : until = None \/ h < until => c = None \/ h < c
<1>0. None \notin Nat
  BY PriceAssumption
<1>1. \A x, y \in Hours : Least(x, y) \in {x, y}
  <2>1. SUFFICES ASSUME NEW x \in Hours, NEW y \in Hours PROVE Least(x, y) \in {x, y}
    OBVIOUS
  <2>2. CASE x = None \/ y = None
    BY <2>2 DEF Least
  <2>3. CASE x # None /\ y # None
    <3>1. x \in Nat /\ y \in Nat
      BY <2>3 DEF Hours
    <3>2. Min({x, y}) \in {x, y}
      BY <3>1, LesserOfTwo
    <3> QED
      BY <2>3, <3>2 DEF Least
  <2> QED
    BY <2>2, <2>3
<1>2. PICK d : d = Least(b, c)
  OBVIOUS
<1>3. d \in Hours /\ (d = None <=> b = None /\ c = None)
      /\ \A h \in Nat : d = None \/ h < d => (b = None \/ h < b) /\ (c = None \/ h < c)
  BY <1>2, LeastIs
<1>4. until \in Hours /\ (until = None <=> a = None /\ d = None)
      /\ \A h \in Nat : until = None \/ h < until => (a = None \/ h < a) /\ (d = None \/ h < d)
  BY <1>2, <1>3, LeastIs
<1>5. since \in {a, b}
  BY <1>1
<1>6. since # None => until # None
  BY <1>3, <1>4, <1>5
<1>7. ASSUME since # None, ~(until <= since) PROVE FALSE
  <2>1. since \in Nat /\ until \in Nat /\ since < until
    BY <1>4, <1>5, <1>6, <1>7 DEF Hours
  <2>2. (a = None \/ since < a) /\ (d = None \/ since < d)
    BY <1>4, <2>1
  <2>3. b = None \/ since < b
    BY <1>3, <2>1, <2>2
  <2> QED
    BY <1>0, <1>5, <2>1, <2>2, <2>3 DEF Hours
<1>8. ASSUME NEW h \in Nat, until = None \/ h < until PROVE c = None \/ h < c
  BY <1>3, <1>4, <1>8
<1> QED
  BY <1>2, <1>3, <1>4, <1>5, <1>6, <1>7, <1>8

\* Rows come in the order of time: no hour before the earliest new one sees them.
LEMMA RowsAdded ==
    ASSUME ChainOrdered, now \in Nat, NEW p \in Pool, NEW ids \in SUBSET Nat,
           ids \subseteq DOMAIN chain[p], DOMAIN reserves = Pool, UNCHANGED chain,
           reserves' = [reserves EXCEPT ![p] = @ \cup ids],
           NEW soon, soon = EarliestHour(ids, p)
    PROVE  /\ soon \in Hours
           /\ soon = None => Rows' = Rows
           /\ \A h \in Nat : soon = None \/ h < soon =>
                 \A x \in Pool : RowsUpTo(Rows[x], h) = RowsUpTo(Rows'[x], h)
<1>0. None \notin Nat
  BY PriceAssumption
<1>1. \A x, i : Row(x, i)' = Row(x, i)
  BY DEF Row
<1>2. \A x \in Pool : Rows[x] = {Row(x, i) : i \in reserves[x]}
                      /\ Rows'[x] = {Row(x, i) : i \in reserves'[x]}
  BY <1>1 DEF Rows
<1>3. reserves'[p] = reserves[p] \cup ids /\ \A x \in Pool \ {p} : reserves'[x] = reserves[x]
  OBVIOUS
<1>4. CASE ids = {}
  <2>1. soon = None
    BY <1>4 DEF EarliestHour
  <2>2. \A x \in Pool : reserves'[x] = reserves[x]
    BY <1>3, <1>4
  <2>3. \A x \in Pool : Rows'[x] = Rows[x]
    BY <1>2, <2>2
  <2>4. Rows' = Rows
    BY <1>1, <2>2 DEF Rows
  <2> QED
    BY <2>1, <2>3, <2>4 DEF Hours
<1>5. CASE ids # {}
  <2>1. PICK first \in ids : \A i \in ids : first <= i
    BY <1>5, LeastNatural
  <2>2. PICK least : least = Min(ids)
    OBVIOUS
  <2>3. least \in ids /\ \A i \in ids : least <= i
    BY <2>1, <2>2 DEF Min
  <2>4. soon = chain[p][least]
    BY <1>5, <2>2 DEF EarliestHour
  <2>5. \A i \in ids : chain[p][i] \in 0..now /\ soon <= chain[p][i]
    BY <2>3, <2>4 DEF ChainOrdered
  <2>6. soon \in Nat
    BY <2>3, <2>4, <2>5
  <2>7. ASSUME NEW h \in Nat, h < soon, NEW x \in Pool
        PROVE  RowsUpTo(Rows[x], h) = RowsUpTo(Rows'[x], h)
    <3>1. CASE x # p
      BY <1>2, <1>3, <3>1
    <3>2. CASE x = p
      <4>1. Rows'[p] = Rows[p] \cup {Row(p, i) : i \in ids}
        <5>1. Rows[p] = {Row(p, i) : i \in reserves[p]}
          BY <1>2
        <5>2. Rows'[p] = {Row(p, i) : i \in reserves'[p]}
          BY <1>2
        <5>3. reserves'[p] = reserves[p] \cup ids
          BY <1>3
        <5>4. {Row(p, i) : i \in reserves[p] \cup ids}
                = {Row(p, i) : i \in reserves[p]} \cup {Row(p, i) : i \in ids}
          OBVIOUS
        <5> QED
          BY <5>1, <5>2, <5>3, <5>4
      <4>2. \A i \in ids : ~(Row(p, i).ts <= h)
        <5>1. \A i : Row(p, i).ts = chain[p][i]
          BY DEF Row
        <5>2. SUFFICES ASSUME NEW i \in ids PROVE ~(chain[p][i] <= h)
          BY <5>1
        <5>3. chain[p][i] \in 0..now /\ soon <= chain[p][i]
          BY <2>5
        <5> QED
          BY <2>6, <2>7, <5>3
      <4> QED
        BY <3>2, <4>1, <4>2 DEF RowsUpTo
    <3> QED
      BY <3>1, <3>2
  <2> QED
    BY <1>0, <2>6, <2>7 DEF Hours
<1> QED
  BY <1>4, <1>5

LEMMA CurrentFetchReserves ==
    ASSUME CurrentInv, QuoteInv', NEW r \in Run, FetchReserves(r)
    PROVE  CurrentInv'
<1> DEFINE p    == Turn(run[r].todo)
           from == IF run[r].pages = 0 THEN cursor[p] ELSE run[r].at
           last == Min({Len(chain[p]), from + PoolLimit})
           ids  == (from + 1)..last
<1>1. /\ UNCHANGED <<now, registered, chain, pools, quotes, products, mishaps, settled>>
      /\ run[r].pc = "reserves" /\ run[r].todo # {}
      /\ reserves' = [reserves EXCEPT ![p] = @ \cup ids]
      /\ Reset(r, [run[r] EXCEPT
                     !.pc = "poolCursor", !.at = last,
                     !.pages = IF Cardinality(ids) = PoolLimit THEN @ + 1 ELSE PoolPages,
                     !.fresh = Least(@, EarliestHour(ids, p))])
  BY DEF FetchReserves, world, history
<1>2. PICK old : old = run[r]
  OBVIOUS
<1>3. /\ DOMAIN old = MemoryFields /\ ReserveMemory(old) /\ TypeOK /\ now \in Nat
      /\ DOMAIN reserves = Pool /\ ChainOrdered
  <2>1. QuoteInv /\ ReserveInv /\ TypeOK /\ ChainOrdered
    BY DEF CurrentInv, QuoteInv, ReserveInv
  <2>2. ReserveMemory(old) /\ DOMAIN reserves = Pool
    BY <1>2, <2>1 DEF ReserveInv
  <2>3. now \in Nat
    BY <2>1, PriceAssumption DEF TypeOK, Hour
  <2> QED
    BY <2>1, <2>2, <2>3 DEF ReserveMemory
<1>4. p \in Pool /\ p = Turn(old.todo) /\ p \in old.todo
  BY <1>1, <1>2, <1>3, TurnIs DEF ReserveMemory
<1>5. from = IF old.pages = 0 THEN cursor[p] ELSE old.at
  BY <1>2
<1>6. from \in Nat
  <2>1. cursor[p] \in Nat
    BY <1>3, <1>4 DEF TypeOK
  <2>2. old.pages # 0 => old.at \in Nat
    BY <1>1, <1>2, <1>3 DEF ReserveMemory, StoredTo
  <2> HIDE DEF p, from
  <2> QED
    BY <1>5, <2>1, <2>2
<1> HIDE DEF p, from
<1>7. last \in Int /\ last <= Len(chain[p]) /\ Len(chain[p]) \in Nat
      /\ DOMAIN chain[p] = 1..Len(chain[p])
  <2>1. chain[p] \in Seq(Hour)
    BY <1>3, <1>4 DEF TypeOK
  <2>2. PICK n : n = Len(chain[p])
    OBVIOUS
  <2>3. n \in Nat /\ DOMAIN chain[p] = 1..n
    BY <2>1, <2>2
  <2>4. PICK k : k = from + PoolLimit
    OBVIOUS
  <2>5. k \in Int
    BY <1>6, <2>4, PriceAssumption
  <2>7. last = Min({n, k})
    BY <2>2, <2>4
  <2> HIDE DEF last
  <2>6. Min({n, k}) \in {n, k} /\ Min({n, k}) <= n
    <3>1. n \in Int
      BY <2>3
    <3> HIDE DEF ids
    <3> QED
      BY <2>5, <3>1, LesserOfTwo
  <2> QED
    BY <2>2, <2>3, <2>5, <2>6, <2>7
<1> HIDE DEF last
<1>8. ids \in SUBSET Nat /\ ids \subseteq DOMAIN chain[p]
  <2>1. \A i \in ids : i \in Nat /\ i \in 1..Len(chain[p])
    BY <1>6, <1>7
  <2> HIDE DEF ids
  <2> QED
    BY <1>7, <2>1
<1> HIDE DEF ids
<1>9. PICK soon : soon = EarliestHour(ids, p)
  OBVIOUS
<1>10. /\ soon \in Hours
       /\ soon = None => Rows' = Rows
       /\ \A h \in Nat : soon = None \/ h < soon =>
             \A x \in Pool : RowsUpTo(Rows[x], h) = RowsUpTo(Rows'[x], h)
  BY <1>1, <1>3, <1>4, <1>8, <1>9, RowsAdded
<1>11. PICK count : count = IF Cardinality(ids) = PoolLimit THEN old.pages + 1 ELSE PoolPages
  OBVIOUS
<1>12. PICK m : m = [old EXCEPT !.pc = "poolCursor", !.at = last, !.pages = count,
                                !.fresh = Least(old.fresh, soon)]
  OBVIOUS
<1>13. Reset(r, m)
  BY <1>1, <1>2, <1>9, <1>11, <1>12
<1>14. /\ m.pc = "poolCursor" /\ m.todo = old.todo /\ m.changed = old.changed
       /\ m.fresh = Least(old.fresh, soon)
  BY <1>3, <1>12 DEF MemoryFields
<1>15. ASSUME mishaps = {} PROVE TablesRight' /\ ProductsRight' /\ RunRight(m)'
  <2>1. RunRight(old) /\ TablesRight /\ ProductsRight /\ \A q \in Quote : QuotesFit(q)
    BY <1>2, <1>15, RunIs
  <2>2. /\ ~settled /\ old.changed \in Hours /\ old.fresh \in Hours /\ old.todo \subseteq Active
        /\ RightUntil(Least(old.changed, old.fresh))
    BY <1>1, <1>2, <2>1 DEF RunRight, Early
  <2>3. Active' = Active
    BY <1>1 DEF Active
  <2>4. TablesRight'
    <3>1. \A x \in Pool : \/ (pools'[x] = "active" /\ x \in registered')
                          \/ (pools'[x] = "absent" /\ reserves'[x] = {})
      <4>1. SUFFICES ASSUME NEW x \in Pool
                     PROVE  \/ (pools[x] = "active" /\ x \in registered)
                            \/ (pools[x] = "absent" /\ reserves'[x] = {})
        BY <1>1
      <4>2. CASE x = p
        <5>1. pools[p] = "active"
          BY <1>4, <2>2 DEF Active
        <5> QED
          BY <1>4, <2>1, <4>2, <5>1 DEF TablesRight
      <4>3. CASE x # p
        <5>1. reserves'[x] = reserves[x]
          BY <1>1, <1>3, <4>3
        <5> QED
          BY <2>1, <5>1 DEF TablesRight
      <4> QED
        BY <4>2, <4>3
    <3> QED
      BY <1>1, <2>1, <2>3, <3>1 DEF TablesRight
  <2>5. ProductsRight'
    BY <1>1, <2>1, <2>3 DEF ProductsRight, Served, products
  <2>6. PICK since : since = Least(old.changed, old.fresh)
    OBVIOUS
  <2>7. PICK until : until = Least(old.changed, Least(old.fresh, soon))
    OBVIOUS
  <2>8. /\ since \in Hours /\ until \in Hours /\ Least(old.fresh, soon) \in Hours
        /\ since # None => until # None /\ until <= since
        /\ until = None => soon = None
        /\ \A h \in Nat : until = None \/ h < until => soon = None \/ h < soon
    BY <1>10, <2>2, <2>6, <2>7, LeastOfThree
  <2>9. ASSUME NEW h \in 0..now, until = None \/ h < until
        PROVE  Point(h)' = Point(h) /\ (h \in Touched' => h \in Touched)
    <3>1. h \in Nat /\ (soon = None \/ h < soon)
      BY <1>3, <2>8, <2>9
    <3>2. \A x \in Pool : RowsUpTo(Rows[x], h) = RowsUpTo(Rows'[x], h)
      BY <1>10, <3>1
    <3> QED
      BY <1>1, <1>3, <2>1, <3>1, <3>2, HourStays
  <2>10. until = None => LiquidityNow' = LiquidityNow
    BY <1>1, <1>10, <2>3, <2>8 DEF LiquidityNow
  <2>11. RightUntil(until)'
    <3>1. UNCHANGED <<now, hourly, snapshot, liquidity>>
      BY <1>1 DEF products
    <3> QED
      BY <1>3, <2>2, <2>6, <2>8, <2>9, <2>10, <3>1, UntilKept
  <2>12. RunRight(m)'
    <3>1. ~settled' /\ m.changed \in Hours /\ m.fresh \in Hours /\ m.todo \subseteq Active'
      BY <1>1, <1>14, <2>2, <2>3, <2>8
    <3>2. Least(m.changed, m.fresh) = until
      BY <1>14, <2>7
    <3> QED
      BY <1>14, <2>11, <3>1, <3>2 DEF RunRight, Early
  <2> QED
    BY <2>4, <2>5, <2>12
<1>16. m.pc # "idle"
  BY <1>14
<1> QED
  BY <1>1, <1>13, <1>15, <1>16, CurrentRunMoves

\* A page from the market: no hour before its first one sees it.
LEMMA PageAdded ==
    ASSUME TypeOK, now \in Nat, NEW q \in Quote, DOMAIN quotes = Quote, QuotesFit(q),
           quotes = [x \in Quote |-> quotes[x]],
           NEW from \in Nat, NEW upTo, NEW page, page \in [DOMAIN page -> Nat],
           PageFits(q, page, from, upTo), upTo \in Nat,
           quotes' = [quotes EXCEPT ![q] = InsertOrReplace(@, page)],
           NEW soon, soon = (IF page = NoHours THEN None ELSE Min(DOMAIN page))
    PROVE  /\ soon \in Hours
           /\ soon = None => quotes' = quotes
           /\ \A h \in Nat : soon = None \/ h < soon =>
                 \A x \in Quote :
                    /\ HoursUpTo(quotes[x], h) = HoursUpTo(quotes'[x], h)
                    /\ \A k \in HoursUpTo(quotes[x], h) : quotes[x][k] = quotes'[x][k]
<1>0. None \notin Nat
  BY PriceAssumption
<1>1. \A x \in Quote \ {q} : quotes'[x] = quotes[x]
  OBVIOUS
<1>2. PICK D : D = DOMAIN page
  OBVIOUS
<1>3. PICK old, new : old = quotes[q] /\ new = InsertOrReplace(old, page)
  OBVIOUS
<1>4. quotes'[q] = new /\ old = [h \in DOMAIN old |-> old[h]]
  BY <1>3 DEF QuotesFit
<1>5. new = [h \in D \cup DOMAIN old |-> IF h \in D THEN page[h] ELSE old[h]]
  BY <1>2, <1>3 DEF InsertOrReplace
<1>6. D \in SUBSET Nat
  <2>1. \A h \in from..upTo : h \in Nat
    OBVIOUS
  <2> QED
    BY <1>2, <2>1 DEF PageFits
<1>7. CASE page = NoHours
  <2>1. D = {}
    BY <1>2, <1>7 DEF NoHours
  <2>2. new = old
    BY <1>4, <1>5, <2>1
  <2>3. quotes' = quotes
    BY <1>3, <1>4, <2>2
  <2> QED
    BY <1>7, <2>3 DEF Hours
<1>8. CASE page # NoHours
  <2>1. D # {}
    <3>1. ASSUME D = {} PROVE page = NoHours
      BY <1>2, <3>1 DEF NoHours
    <3> QED
      BY <1>8, <3>1
  <2>2. PICK first \in D : \A h \in D : first <= h
    BY <1>6, <2>1, LeastNatural
  <2>3. soon \in D /\ \A h \in D : soon <= h
    BY <1>2, <1>8, <2>2 DEF Min
  <2>4. soon \in Nat
    BY <1>6, <2>3
  <2>5. ASSUME NEW h \in Nat, h < soon
        PROVE  /\ HoursUpTo(old, h) = HoursUpTo(new, h)
               /\ \A k \in HoursUpTo(old, h) : old[k] = new[k]
    <3>1. \A k \in D : ~(k <= h)
      BY <1>6, <2>3, <2>4, <2>5
    <3> QED
      BY <1>5, <3>1 DEF HoursUpTo
  <2>6. ASSUME NEW h \in Nat, h < soon, NEW x \in Quote
        PROVE  /\ HoursUpTo(quotes[x], h) = HoursUpTo(quotes'[x], h)
               /\ \A k \in HoursUpTo(quotes[x], h) : quotes[x][k] = quotes'[x][k]
    BY <1>1, <1>3, <1>4, <2>5, <2>6
  <2> QED
    BY <1>0, <2>4, <2>6 DEF Hours
<1> QED
  BY <1>7, <1>8

LEMMA CurrentStoreQuotes ==
    ASSUME CurrentInv, QuoteInv', NEW r \in Run, StoreQuotes(r)
    PROVE  CurrentInv'
<1>1. /\ UNCHANGED <<now, registered, chain, pools, reserves, products, mishaps, settled>>
      /\ run[r].pc = "storeQuotes"
  BY DEF StoreQuotes, world, history
<1>2. PICK old : old = run[r]
  OBVIOUS
<1>3. /\ DOMAIN old = MemoryFields /\ TypeOK /\ now \in Nat /\ DOMAIN quotes = Quote
      /\ old.todo # {} /\ old.todo \subseteq Quote /\ old.upTo \in Nat
  <2>1. QuoteInv /\ ReserveInv /\ TypeOK /\ DOMAIN quotes = Quote
    BY DEF CurrentInv, QuoteInv, ReserveInv
  <2>2. ReserveMemory(old)
    BY <1>2, <2>1 DEF ReserveInv
  <2>3. now \in Nat
    BY <2>1, PriceAssumption DEF TypeOK, Hour
  <2>4. QuoteMemory(old)
    BY <1>2, <2>1 DEF QuoteInv
  <2> QED
    BY <1>1, <1>2, <2>1, <2>2, <2>3, <2>4 DEF ReserveMemory, QuoteMemory
<1>4. PICK q : q = Turn(old.todo)
  OBVIOUS
<1>5. PICK page : page = old.page
  OBVIOUS
<1> DEFINE more == Cardinality(DOMAIN page) = QuoteLimit /\ old.pages + 1 < QuotePages
           last == Max(DOMAIN page)
<1>6. PICK kept : kept = [old EXCEPT !.page = NoHours,
                            !.fresh = IF page = NoHours THEN old.fresh
                                      ELSE Least(old.fresh, Min(DOMAIN page))]
  OBVIOUS
<1>7. PICK n : n = [kept EXCEPT !.todo = @ \ {q}, !.at = None, !.pages = 0]
  OBVIOUS
<1>8. PICK m : m = IF more THEN [kept EXCEPT !.pc = "quotes", !.at = last + 1, !.pages = @ + 1]
                   ELSE ToQuotes(n)
  OBVIOUS
<1>9. Reset(r, m) /\ quotes' = [quotes EXCEPT ![q] = InsertOrReplace(@, page)]
  BY <1>2, <1>4, <1>5, <1>6, <1>7, <1>8 DEF StoreQuotes
<1>10. q \in Quote /\ q \in old.todo
  BY <1>3, <1>4, TurnIs
<1> HIDE DEF more, last
<1>11. PICK soon : soon = (IF page = NoHours THEN None ELSE Min(DOMAIN page))
  OBVIOUS
<1>12. ASSUME old.fresh \in Hours
       PROVE  kept.fresh = Least(old.fresh, soon)
  <2>1. Least(old.fresh, None) = old.fresh
    BY <1>12, LeastIs DEF Hours
  <2> QED
    BY <1>3, <1>6, <1>11, <2>1 DEF MemoryFields
<1>13. DOMAIN kept = MemoryFields /\ kept.todo = old.todo /\ kept.changed = old.changed
  BY <1>3, <1>6 DEF MemoryFields
<1>14. DOMAIN n = MemoryFields /\ n.todo = old.todo \ {q} /\ n.changed = old.changed
       /\ n.fresh = kept.fresh
  BY <1>7, <1>13 DEF MemoryFields
<1>15. more => m.pc = "quotes" /\ m.todo = old.todo /\ m.changed = old.changed
               /\ m.fresh = kept.fresh
  BY <1>8, <1>13 DEF MemoryFields
<1>16. m.pc # "idle"
  <2>1. CASE more
    BY <1>15, <2>1
  <2>2. CASE ~more
    BY <1>8, <1>14, <2>2, ToQuotesGoesOn
  <2> QED
    BY <2>1, <2>2
<1>17. ASSUME mishaps = {} PROVE TablesRight' /\ ProductsRight' /\ RunRight(m)'
  <2>1. RunRight(old) /\ TablesRight /\ ProductsRight /\ QuoteInv
        /\ \A x \in Quote : QuotesFit(x)
    BY <1>2, <1>17, RunIs DEF CurrentInv
  <2>2. /\ ~settled /\ old.changed \in Hours /\ old.fresh \in Hours
        /\ old.todo \subseteq {QuoteOf[p] : p \in Active}
        /\ RightUntil(Least(old.changed, old.fresh))
        /\ page \in [DOMAIN page -> Nat]
    BY <1>1, <1>2, <1>5, <2>1 DEF RunRight, Early
  <2>3. Active' = Active
    BY <1>1 DEF Active
  <2>4. PICK from \in Nat : PageFits(q, page, from, old.upTo)
    <3>1. Resumes(old)
      BY <1>2, <1>17, <2>1 DEF QuoteInv
    <3> QED
      BY <1>1, <1>2, <1>4, <1>5, <3>1 DEF Resumes, GoesOn
  <2>5. quotes = [x \in Quote |-> quotes[x]]
    BY <2>1 DEF TablesRight
  <2>6. /\ soon \in Hours
        /\ soon = None => quotes' = quotes
        /\ \A h \in Nat : soon = None \/ h < soon =>
              \A x \in Quote :
                 /\ HoursUpTo(quotes[x], h) = HoursUpTo(quotes'[x], h)
                 /\ \A k \in HoursUpTo(quotes[x], h) : quotes[x][k] = quotes'[x][k]
    BY <1>3, <1>9, <1>10, <1>11, <2>1, <2>2, <2>4, <2>5, PageAdded
  <2>7. TablesRight'
    <3>1. quotes' = [x \in Quote |-> quotes'[x]]
      BY <1>3, <1>9, <2>5
    <3>2. ASSUME NEW x \in Quote, NEW h \in DOMAIN quotes'[x]
          PROVE  quotes'[x][h] \in Nat /\ \E p \in Active : QuoteOf[p] = x
      <4>1. CASE x # q
        <5>1. quotes'[x] = quotes[x]
          BY <1>9, <2>5, <4>1
        <5> QED
          BY <2>1, <3>2, <5>1 DEF TablesRight
      <4>2. CASE x = q
        <5>1. PICK was : was = quotes[q]
          OBVIOUS
        <5>2. quotes'[q] = [k \in DOMAIN page \cup DOMAIN was |->
                               IF k \in DOMAIN page THEN page[k] ELSE was[k]]
          BY <1>3, <1>9, <1>10, <5>1 DEF InsertOrReplace
        <5>3. \A k \in DOMAIN was : was[k] \in Nat
          BY <1>10, <2>1, <5>1 DEF TablesRight
        <5>4. \E p \in Active : QuoteOf[p] = q
          BY <1>10, <2>2
        <5> QED
          BY <2>2, <3>2, <4>2, <5>2, <5>3, <5>4
      <4> QED
        BY <4>1, <4>2
    <3> QED
      BY <1>1, <2>1, <2>3, <3>1, <3>2 DEF TablesRight
  <2>8. ProductsRight'
    BY <1>1, <2>1, <2>3 DEF ProductsRight, Served, products
  <2>9. PICK since : since = Least(old.changed, old.fresh)
    OBVIOUS
  <2>10. PICK until : until = Least(old.changed, Least(old.fresh, soon))
    OBVIOUS
  <2>11. /\ since \in Hours /\ until \in Hours /\ Least(old.fresh, soon) \in Hours
         /\ since # None => until # None /\ until <= since
         /\ until = None => soon = None
         /\ \A h \in Nat : until = None \/ h < until => soon = None \/ h < soon
    BY <2>2, <2>6, <2>9, <2>10, LeastOfThree
  <2>12. Rows' = Rows
    BY <1>1 DEF Rows, Row
  <2>13. ASSUME NEW h \in 0..now, until = None \/ h < until
         PROVE  Point(h)' = Point(h) /\ (h \in Touched' => h \in Touched)
    <3>1. h \in Nat /\ (soon = None \/ h < soon)
      BY <1>3, <2>11, <2>13
    <3>2. \A x \in Quote :
             /\ HoursUpTo(quotes[x], h) = HoursUpTo(quotes'[x], h)
             /\ \A k \in HoursUpTo(quotes[x], h) : quotes[x][k] = quotes'[x][k]
      BY <2>6, <3>1
    <3>3. \A x \in Pool : RowsUpTo(Rows[x], h) = RowsUpTo(Rows'[x], h)
      BY <2>12
    <3> QED
      BY <1>1, <1>3, <2>1, <3>1, <3>2, <3>3, HourStays
  <2>14. until = None => LiquidityNow' = LiquidityNow
    BY <1>1, <2>3, <2>6, <2>11, <2>12 DEF LiquidityNow
  <2>15. RightUntil(until)'
    <3>1. UNCHANGED <<now, hourly, snapshot, liquidity>>
      BY <1>1 DEF products
    <3> QED
      BY <1>3, <2>2, <2>9, <2>11, <2>13, <2>14, <3>1, UntilKept
  <2>16. kept.fresh = Least(old.fresh, soon)
    BY <1>12, <2>2
  <2>17. Turns(m, Active', until)
    <3>1. CASE more
      BY <1>15, <2>2, <2>3, <2>10, <2>11, <2>16, <3>1 DEF Turns
    <3>2. CASE ~more
      <4>1. Turns(ToQuotes(n), Active, Least(n.changed, n.fresh))
        BY <1>14, <2>2, <2>11, <2>16, ToQuotesTurns
      <4> QED
        BY <1>8, <1>14, <2>3, <2>10, <2>16, <3>2, <4>1
    <3> QED
      BY <3>1, <3>2
  <2>18. RunRight(m)'
    BY <1>1, <2>2, <2>15, <2>17, TurnsRightNext
  <2> QED
    BY <2>7, <2>8, <2>18
<1> QED
  BY <1>1, <1>9, <1>16, <1>17, CurrentRunMoves

\* No hour before the first stored row has a point.
LEMMA NoneBeforeTheFirst ==
    ASSUME TypeOK, NEW h \in Nat,
           FirstReserveHour(Pool) = None \/ h < FirstReserveHour(Pool)
    PROVE  DOMAIN Point(h) = {}
<1> DEFINE hours == UNION {{chain[p][i] : i \in reserves[p]} : p \in Pool}
<1>0. None \notin Nat
  BY PriceAssumption
<1>1. hours \in SUBSET Nat
  <2>1. SUFFICES ASSUME NEW p \in Pool, NEW i \in reserves[p] PROVE chain[p][i] \in Nat
    OBVIOUS
  <2>2. chain[p] \in Seq(Hour) /\ i \in DOMAIN chain[p]
    BY DEF TypeOK
  <2>3. Hour \subseteq Nat
    BY PriceAssumption DEF Hour
  <2>4. chain[p][i] \in Hour
    BY <2>2
  <2> QED
    BY <2>3, <2>4
<1>2. \A p \in Pool : \A i \in reserves[p] : chain[p][i] \in hours
  OBVIOUS
<1>3. FirstReserveHour(Pool) = IF hours = {} THEN None ELSE Min(hours)
  BY DEF FirstReserveHour
<1> HIDE DEF hours
<1>4. \A t \in hours : ~(t <= h)
  <2>1. SUFFICES ASSUME NEW t \in hours PROVE ~(t <= h)
    OBVIOUS
  <2>2. PICK x \in hours : \A y \in hours : x <= y
    BY <1>1, <2>1, LeastNatural
  <2>3. PICK first : first = Min(hours)
    OBVIOUS
  <2>4. first \in hours /\ first <= t
    BY <2>1, <2>2, <2>3 DEF Min
  <2>5. first \in Nat /\ t \in Nat
    BY <1>1, <2>4
  <2>6. h < first
    BY <1>0, <1>3, <2>1, <2>3, <2>5
  <2> QED
    BY <2>4, <2>5, <2>6
<1>5. \A p \in Active : RowsUpTo(Rows[p], h) = {}
  <2>1. SUFFICES ASSUME NEW p \in Active, NEW row \in RowsUpTo(Rows[p], h) PROVE FALSE
    OBVIOUS
  <2>2. p \in Pool
    BY DEF Active
  <2>3. row \in Rows[p] /\ row.ts <= h
    BY <2>1 DEF RowsUpTo
  <2>4. PICK i \in reserves[p] : row = Row(p, i)
    BY <2>2, <2>3 DEF Rows
  <2>5. row.ts = chain[p][i]
    BY <2>4 DEF Row
  <2> QED
    BY <1>2, <1>4, <2>2, <2>3, <2>5
<1>6. Active \in SUBSET Pool
  BY DEF Active
<1> QED
  BY <1>5, <1>6, NoRowsNoPoint DEF Point

\* The last row up to an hour is one of them: rows are numbered and finitely many.
LEMMA LastRowIs ==
    ASSUME TypeOK, NEW p \in Pool, NEW h, RowsUpTo(Rows[p], h) # {}
    PROVE  LastRow(RowsUpTo(Rows[p], h)) \in RowsUpTo(Rows[p], h)
<1> DEFINE up == RowsUpTo(Rows[p], h)
           I == {i \in reserves[p] : Row(p, i) \in up}
<1>1. \A i : Row(p, i).id = i
  BY DEF Row
<1>2. \A row \in up : \E i \in reserves[p] : row = Row(p, i)
  BY DEF RowsUpTo, Rows
<1>3. up # {}
  OBVIOUS
<1> HIDE DEF up
<1>4. I # {} /\ I \subseteq DOMAIN chain[p]
  BY <1>2, <1>3 DEF TypeOK
<1>5. PICK n \in Nat : DOMAIN chain[p] = 1..n
  <2>1. chain[p] \in Seq(Hour)
    BY DEF TypeOK
  <2> QED
    BY <2>1
<1>6. IsFiniteSet(I) /\ I \in SUBSET Int
  <2>1. IsFiniteSet(1..n) /\ 1..n \subseteq Int
    BY FS_Interval
  <2> QED
    BY <1>4, <1>5, <2>1, FS_Subset
<1>7. \A i \in I : Row(p, i) \in up
  OBVIOUS
<1>8. \A row \in up : row.id \in I
  BY <1>1, <1>2
<1> HIDE DEF I
<1>9. Max(I) \in I /\ \A i \in I : i <= Max(I)
  BY <1>4, <1>6, MaxOfFinite
<1>10. PICK last \in up : \A row \in up : row.id <= last.id
  <2>1. PICK k : k = Max(I)
    OBVIOUS
  <2>2. Row(p, k) \in up /\ Row(p, k).id = k
    BY <1>1, <1>7, <1>9, <2>1
  <2>3. \A row \in up : row.id <= k
    BY <1>8, <1>9, <2>1
  <2> QED
    BY <2>2, <2>3
<1>11. LastRow(up) \in up
  BY <1>10 DEF LastRow
<1> QED
  BY <1>11 DEF up

LEMMA PointTyped ==
    ASSUME TypeOK, TablesRight, \A q \in Quote : QuotesFit(q), now \in Nat, NEW h \in Int
    PROVE  Point(h) \in Points
<1> DEFINE D == {p \in Priced(Active) : Counts(p, Rows, quotes, h)}
<1>1. D \in SUBSET Pool
  BY DEF Priced, Active
<1>2. ASSUME NEW p \in D
      PROVE  <<LastRow(RowsUpTo(Rows[p], h)).id, QuoteUsdAt(QuoteOf[p], quotes, h)>> \in Nat \X Nat
  <2>1. p \in Pool /\ RowsUpTo(Rows[p], h) # {} /\ QuoteKnown(QuoteOf[p], quotes, h)
        /\ QuoteOf[p] \in Quote \cup {Usd}
    BY PriceAssumption DEF Counts, Priced, Active
  <2>2. PICK row : row = LastRow(RowsUpTo(Rows[p], h))
    OBVIOUS
  <2>3. row \in Rows[p]
    BY <2>1, <2>2, LastRowIs DEF RowsUpTo
  <2>4. PICK i \in reserves[p] : row = Row(p, i)
    BY <2>1, <2>3 DEF Rows
  <2>5. row.id = i
    BY <2>4 DEF Row
  <2>6. i \in Nat
    <3>1. chain[p] \in Seq(Hour) /\ i \in DOMAIN chain[p]
      BY <2>1 DEF TypeOK
    <3> QED
      BY <3>1
  <2>7. QuoteUsdAt(QuoteOf[p], quotes, h) \in Nat
    <3>1. PICK q : q = QuoteOf[p]
      OBVIOUS
    <3>2. CASE q = Usd
      BY <3>1, <3>2 DEF QuoteUsdAt
    <3>3. CASE q # Usd
      <4>1. q \in Quote
        BY <2>1, <3>1, <3>3
      <4>2. PICK S : S = HoursUpTo(quotes[q], h)
        OBVIOUS
      <4>3. S # {}
        BY <2>1, <3>1, <3>3, <4>2 DEF QuoteKnown
      <4>4. S \subseteq 0..now /\ S \subseteq DOMAIN quotes[q]
        BY <4>1, <4>2 DEF HoursUpTo, QuotesFit
      <4>5. IsFiniteSet(S) /\ S \in SUBSET Int
        <5>1. IsFiniteSet(0..now) /\ 0..now \subseteq Int
          BY FS_Interval
        <5> QED
          BY <4>4, <5>1, FS_Subset
      <4>6. Max(S) \in S
        BY <4>3, <4>5, MaxOfFinite
      <4>7. quotes[q][Max(S)] \in Nat
        BY <4>1, <4>4, <4>6 DEF TablesRight
      <4> QED
        BY <3>1, <3>3, <4>2, <4>7 DEF QuoteUsdAt
    <3> QED
      BY <3>2, <3>3
  <2> QED
    BY <2>2, <2>5, <2>6, <2>7
<1>3. Point(h) = [p \in D |-> <<LastRow(RowsUpTo(Rows[p], h)).id, QuoteUsdAt(QuoteOf[p], quotes, h)>>]
  BY DEF Point, HourPoint
<1> HIDE DEF D
<1>4. Point(h) \in [D -> Nat \X Nat]
  BY <1>2, <1>3
<1> QED
  BY <1>1, <1>4 DEF Points

\* The hours recomputed from one on: those with a point.
LEMMA Recomputed ==
    ASSUME TypeOK, TablesRight, \A q \in Quote : QuotesFit(q), now \in Nat, NEW from \in Nat,
           NEW hours, hours = ComputeHours(Active, Rows, quotes, from, now)
    PROVE  /\ hours \in Series(0..now)
           /\ \A h : h \in DOMAIN hours <=> h \in from..now /\ DOMAIN Point(h) # {}
           /\ \A h \in DOMAIN hours : hours[h] = Point(h)
<1>1. /\ \A h : h \in DOMAIN hours <=> h \in from..now /\ DOMAIN Point(h) # {}
      /\ \A h \in DOMAIN hours : hours[h] = Point(h)
      /\ hours = [h \in DOMAIN hours |-> hours[h]]
  BY HoursComputed DEF Point
<1>2. DOMAIN hours \in SUBSET (0..now)
  BY <1>1
<1>3. \A h \in DOMAIN hours : hours[h] \in Points
  BY <1>1, <1>2, PointTyped
<1>4. hours \in [DOMAIN hours -> Points]
  BY <1>1, <1>3
<1> QED
  BY <1>1, <1>2, <1>4 DEF Series

\* Where nothing is recomputed everything is right; elsewhere the hours before are.
LEMMA RebuildFromIs ==
    ASSUME TypeOK, now \in Nat, NEW r \in Run, run[r].changed \in Hours,
           RightUntil(run[r].changed)
    PROVE  /\ RebuildFrom(r) \in Hours
           /\ \A h \in 0..now : RebuildFrom(r) = None \/ h < RebuildFrom(r) =>
                 RightAt(hourly, h) /\ RightAt(Served, h)
           /\ run[r].changed = None => LiquidityTrue
<1>0. None \notin Nat
  BY PriceAssumption
<1>1. CASE snapshot = None
  <2>1. RebuildFrom(r) = FirstReserveHour(Pool)
    BY <1>1 DEF RebuildFrom
  <2>2. RebuildFrom(r) \in Hours
    BY <2>1, FirstHourIs DEF Hours
  <2>3. ASSUME NEW h \in 0..now, RebuildFrom(r) = None \/ h < RebuildFrom(r)
        PROVE  RightAt(hourly, h) /\ RightAt(Served, h)
    <3>1. DOMAIN Point(h) = {}
      BY <2>1, <2>3, NoneBeforeTheFirst
    <3> QED
      BY <3>1 DEF RightAt
  <2> QED
    BY <2>2, <2>3 DEF RightUntil
<1>2. CASE snapshot # None
  BY <1>2 DEF RebuildFrom, RightUntil
<1> QED
  BY <1>1, <1>2

LEMMA CurrentSkipPrice ==
    ASSUME CurrentInv, QuoteInv', NEW r \in Run, StoreHours(r), SkipPrice(r)
    PROVE  CurrentInv'
<1>1. PICK old : old = run[r]
  OBVIOUS
<1>2. PICK m : m = [old EXCEPT !.pc = "liquidity"]
  OBVIOUS
<1>3. /\ UNCHANGED <<world, pools, reserves, quotes, products, history>> /\ old.pc = "price"
      /\ Reset(r, m)
  BY <1>1, <1>2 DEF StoreHours, sources, products
<1>4. DOMAIN old = MemoryFields
  BY <1>1 DEF CurrentInv, QuoteInv, ReserveInv, ReserveMemory
<1>5. m.pc = "liquidity" /\ m.changed = old.changed /\ m.fresh = old.fresh
  BY <1>2, <1>4 DEF MemoryFields
<1>6. ASSUME mishaps = {} PROVE RunRight(m)
  <2>1. RunRight(old) /\ TypeOK /\ now \in Nat
    BY <1>1, <1>6, RunIs
  <2>2. /\ ~settled /\ old.changed \in Hours /\ old.fresh = None
        /\ RightUntil(Least(old.changed, old.fresh))
    BY <1>3, <2>1 DEF RunRight, Early
  <2>3. RightUntil(old.changed)
    <3>1. PICK a : a = old.changed
      OBVIOUS
    <3>2. Least(a, None) = a
      BY <2>2, <3>1, LeastIs DEF Hours
    <3> QED
      BY <2>2, <3>1, <3>2
  <2>4. /\ \A h \in 0..now : RebuildFrom(r) = None \/ h < RebuildFrom(r) =>
              RightAt(hourly, h) /\ RightAt(Served, h)
        /\ old.changed = None => LiquidityTrue
    BY <1>1, <2>1, <2>2, <2>3, RebuildFromIs
  <2>5. \A h \in 0..now : RightAt(hourly, h) /\ RightAt(Served, h)
    <3>1. CASE RebuildFrom(r) = None
      BY <2>4, <3>1
    <3>2. CASE Priced(Active) = {}
      <4>1. \A h : DOMAIN Point(h) = {}
        BY <3>2, UnpricedNoPoint DEF Point
      <4> QED
        BY <4>1 DEF RightAt
    <3> QED
      BY <3>1, <3>2 DEF SkipPrice
  <2>6. Right(hourly) /\ Right(Served)
    BY <2>5 DEF Right
  <2> QED
    BY <1>5, <2>2, <2>4, <2>6 DEF RunRight, Early, Hours
<1> QED
  BY <1>1, <1>3, <1>5, <1>6, CurrentMemoryMoves

LEMMA CurrentStoreHours ==
    ASSUME CurrentInv, QuoteInv', NEW r \in Run, StoreHours(r), ~SkipPrice(r)
    PROVE  CurrentInv'
<1>1. PICK old : old = run[r]
  OBVIOUS
<1>2. PICK from : from = RebuildFrom(r)
  OBVIOUS
<1>3. PICK hours : hours = ComputeHours(Active, Rows, quotes, from, now)
  OBVIOUS
<1>4. PICK m : m = [old EXCEPT !.pc = "snapshot", !.page = hours, !.prev = Served]
  OBVIOUS
<1>5. /\ UNCHANGED <<now, registered, chain, pools, reserves, quotes, snapshot, liquidity,
                     mishaps, settled>>
      /\ old.pc = "price" /\ from # None
      /\ hourly' = InsertOrReplace(hourly, hours)
      /\ Reset(r, m)
  BY <1>1, <1>2, <1>3, <1>4 DEF StoreHours, world, sources, history, Served, SkipPrice
<1>6. DOMAIN old = MemoryFields
  BY <1>1 DEF CurrentInv, QuoteInv, ReserveInv, ReserveMemory
<1>7. /\ m.pc = "snapshot" /\ m.changed = old.changed /\ m.fresh = old.fresh
      /\ m.page = hours /\ m.prev = Served
  BY <1>4, <1>6 DEF MemoryFields
<1>8. ASSUME mishaps = {} PROVE TablesRight' /\ ProductsRight' /\ RunRight(m)'
  <2>1. /\ RunRight(old) /\ TypeOK /\ now \in Nat /\ TablesRight /\ ProductsRight
        /\ \A x \in Quote : QuotesFit(x)
    BY <1>1, <1>8, RunIs
  <2>2. /\ ~settled /\ old.changed \in Hours /\ old.fresh = None
        /\ RightUntil(Least(old.changed, old.fresh))
    BY <1>5, <2>1 DEF RunRight, Early
  <2>3. RightUntil(old.changed)
    <3>1. PICK a : a = old.changed
      OBVIOUS
    <3>2. Least(a, None) = a
      BY <2>2, <3>1, LeastIs DEF Hours
    <3> QED
      BY <2>2, <3>1, <3>2
  <2>4. /\ from \in Nat
        /\ \A h \in 0..now : h < from => RightAt(hourly, h) /\ RightAt(Served, h)
        /\ old.changed = None => LiquidityTrue
    BY <1>1, <1>2, <1>5, <2>1, <2>2, <2>3, RebuildFromIs DEF Hours
  <2>5. /\ hours \in Series(0..now)
        /\ \A h : h \in DOMAIN hours <=> h \in from..now /\ DOMAIN Point(h) # {}
        /\ \A h \in DOMAIN hours : hours[h] = Point(h)
    BY <1>3, <2>1, <2>4, Recomputed
  <2>6. PICK table : table = hourly
    OBVIOUS
  <2>7. hourly' = [h \in DOMAIN hours \cup DOMAIN table |->
                      IF h \in DOMAIN hours THEN hours[h] ELSE table[h]]
    BY <1>5, <2>6 DEF InsertOrReplace
  <2>8. hourly' \in Series(0..now)
    <3>1. PICK A \in SUBSET (0..now) : table \in [A -> Points]
      BY <2>1, <2>6 DEF ProductsRight, Series
    <3>2. PICK B \in SUBSET (0..now) : hours \in [B -> Points]
      BY <2>5 DEF Series
    <3>3. hourly' \in [B \cup A -> Points]
      BY <2>7, <3>1, <3>2
    <3> QED
      BY <3>1, <3>2, <3>3 DEF Series
  <2>9. /\ Active' = Active /\ Touched' = Touched /\ \A h : Point(h)' = Point(h)
        /\ Rows' = Rows
    BY <1>5, TablesStay
  <2>10. ASSUME NEW h \in 0..now, DOMAIN Point(h) # {}
         PROVE  /\ h \in Touched => h \in DOMAIN hourly'
                /\ h \in DOMAIN hourly' => hourly'[h] = Point(h)
    <3>1. CASE h < from
      <4>1. RightAt(table, h)
        BY <2>4, <2>6, <3>1
      <4>2. h \notin DOMAIN hours
        <5>1. h \notin from..now
          BY <2>1, <2>4, <3>1
        <5> QED
          BY <2>5, <5>1
      <4> QED
        BY <2>7, <2>10, <4>1, <4>2 DEF RightAt
    <3>2. CASE ~(h < from)
      <4>1. h \in from..now
        BY <2>1, <2>4, <3>2
      <4>2. h \in DOMAIN hours /\ hours[h] = Point(h)
        BY <2>5, <2>10, <4>1
      <4> QED
        BY <2>7, <4>2
    <3> QED
      BY <3>1, <3>2
  <2>11. Right(hourly)'
    BY <1>5, <2>9, <2>10 DEF Right, RightAt
  <2>12. PICK series : series = Merged(m)
    OBVIOUS
  <2>13. PICK shown : shown = Served
    OBVIOUS
  <2>14. /\ series \in Series(0..now)
         /\ hours = NoHours => series = shown
         /\ hours # NoHours =>
              \E first \in DOMAIN hours :
                 /\ \A h \in DOMAIN hours : first <= h
                 /\ DOMAIN series = {h \in DOMAIN shown : h < first} \cup DOMAIN hours
                 /\ \A h \in DOMAIN shown : h < first => series[h] = shown[h]
                 /\ \A h \in DOMAIN hours : series[h] = hours[h]
    <3>1. shown \in Series(0..now) /\ 0..now \in SUBSET Nat
      BY <2>1, <2>13 DEF ProductsRight
    <3>2. series = MergeSnapshot(shown, hours)
      BY <1>7, <2>12, <2>13 DEF Merged
    <3>3. PICK hs \in SUBSET Nat : hs = 0..now
      BY <3>1
    <3>4. shown \in Series(hs) /\ hours \in Series(hs)
      BY <2>5, <3>1, <3>3
    <3>5. /\ MergeSnapshot(shown, hours) \in Series(hs)
          /\ hours = NoHours => MergeSnapshot(shown, hours) = shown
          /\ hours # NoHours =>
               \E first \in DOMAIN hours :
                  /\ \A h \in DOMAIN hours : first <= h
                  /\ DOMAIN MergeSnapshot(shown, hours)
                        = {h \in DOMAIN shown : h < first} \cup DOMAIN hours
                  /\ \A h \in DOMAIN shown : h < first => MergeSnapshot(shown, hours)[h] = shown[h]
                  /\ \A h \in DOMAIN hours : MergeSnapshot(shown, hours)[h] = hours[h]
      BY <3>4, MergedHas
    <3> QED
      BY <3>2, <3>3, <3>5
  <2>15. ASSUME NEW h \in 0..now, DOMAIN Point(h) # {}
         PROVE  /\ h \in Touched => h \in DOMAIN series
                /\ h \in DOMAIN series => series[h] = Point(h)
    <3>1. h < from => RightAt(shown, h) /\ h \notin DOMAIN hours
      <4>1. h < from => h \notin from..now
        BY <2>1, <2>4
      <4> QED
        BY <2>4, <2>5, <2>13, <4>1
    <3>2. ~(h < from) => h \in DOMAIN hours /\ hours[h] = Point(h)
      <4>1. ~(h < from) => h \in from..now
        BY <2>1, <2>4
      <4> QED
        BY <2>5, <2>15, <4>1
    <3>3. CASE hours = NoHours
      <4>1. DOMAIN hours = {}
        BY <3>3 DEF NoHours
      <4> QED
        BY <2>14, <2>15, <3>1, <3>2, <3>3, <4>1 DEF RightAt
    <3>4. CASE hours # NoHours
      <4>1. PICK first \in DOMAIN hours :
                 /\ DOMAIN series = {k \in DOMAIN shown : k < first} \cup DOMAIN hours
                 /\ \A k \in DOMAIN shown : k < first => series[k] = shown[k]
                 /\ \A k \in DOMAIN hours : series[k] = hours[k]
        BY <2>14, <3>4
      <4>2. first \in from..now
        BY <2>5
      <4>3. h < from => h < first
        BY <2>1, <2>4, <4>2
      <4> QED
        BY <2>15, <3>1, <3>2, <4>1, <4>3 DEF RightAt
    <3> QED
      BY <3>3, <3>4
  <2>16. Right(series)'
    BY <1>5, <2>9, <2>15 DEF Right, RightAt
  <2>17. TablesRight'
    BY <1>5, <2>1, <2>9 DEF TablesRight
  <2>18. ProductsRight'
    BY <1>5, <2>1, <2>8, <2>9 DEF ProductsRight, Served
  <2>19. old.changed = None => LiquidityTrue'
    BY <1>5, <2>4, <2>9 DEF LiquidityTrue, LiquidityFresh, LiquidityNow
  <2>20. RunRight(m)'
    <3>1. ~settled' /\ m.changed \in Hours /\ m.fresh \in Hours
      BY <1>5, <1>7, <2>2 DEF Hours
    <3>2. Merged(m) \in Series(0..now') /\ Right(Merged(m))'
      BY <1>5, <2>12, <2>14, <2>16
    <3> QED
      BY <1>7, <2>11, <2>19, <3>1, <3>2 DEF RunRight, Early
  <2> QED
    BY <2>17, <2>18, <2>20
<1> QED
  BY <1>1, <1>5, <1>7, <1>8, CurrentRunMoves

\* A series of hours so far is none of null.
LEMMA SeriesIsNotNull ==
    ASSUME now \in Hour, NEW series, series \in Series(0..now)
    PROVE  series # None
<1>1. PICK hs \in SUBSET (0..now) : series \in [hs -> Points]
  BY DEF Series
<1>2. hs \in SUBSET Hour
  <2>1. MaxTime \in Nat /\ now \in Nat /\ now <= MaxTime
    BY PriceAssumption DEF Hour
  <2>2. 0..now \subseteq Hour
    BY <2>1 DEF Hour
  <2> QED
    BY <2>2
<1> QED
  BY <1>1, <1>2, NoneIsNoSeries

LEMMA CurrentStoreSnapshot ==
    ASSUME CurrentInv, QuoteInv', NEW r \in Run, StoreSnapshot(r)
    PROVE  CurrentInv'
<1>1. PICK old : old = run[r]
  OBVIOUS
<1>2. PICK m : m = AtStep("liquidity", old.changed, old.clean)
  OBVIOUS
<1>3. /\ UNCHANGED <<now, registered, chain, pools, reserves, quotes, hourly, liquidity,
                     mishaps, settled>>
      /\ old.pc = "snapshot" /\ snapshot' = Merged(old) /\ Reset(r, m)
  BY <1>1, <1>2 DEF StoreSnapshot, world, sources, history, Merged
<1>4. m.pc = "liquidity" /\ m.changed = old.changed /\ m.fresh = None
  BY <1>2, AtStepIs
<1>5. ASSUME mishaps = {} PROVE TablesRight' /\ ProductsRight' /\ RunRight(m)'
  <2>1. RunRight(old) /\ TypeOK /\ now \in Nat /\ TablesRight /\ ProductsRight
    BY <1>1, <1>5, RunIs
  <2>2. PICK series : series = Merged(old)
    OBVIOUS
  <2>3. /\ ~settled /\ old.changed \in Hours /\ Right(hourly)
        /\ old.changed = None => LiquidityTrue
        /\ series \in Series(0..now) /\ Right(series)
    BY <1>3, <2>1, <2>2 DEF RunRight
  <2>4. snapshot' = series /\ series # None
    BY <1>3, <2>1, <2>2, <2>3, SeriesIsNotNull DEF TypeOK
  <2>5. Served' = series
    BY <2>4 DEF Served
  <2>6. /\ Active' = Active /\ Touched' = Touched /\ \A h : Point(h)' = Point(h)
        /\ Rows' = Rows
    BY <1>3, TablesStay
  <2>7. Right(Served)'
    <3>1. \A h \in 0..now : RightAt(series, h)
      BY <2>3 DEF Right
    <3>2. \A h \in 0..now : RightAt(Served, h)'
      BY <2>5, <2>6, <3>1 DEF RightAt
    <3> QED
      BY <1>3, <3>2 DEF Right
  <2>8. Right(hourly)'
    BY <1>3, <2>3, <2>6 DEF Right, RightAt
  <2>9. TablesRight'
    BY <1>3, <2>1, <2>6 DEF TablesRight
  <2>10. ProductsRight'
    BY <1>3, <2>1, <2>3, <2>5, <2>6 DEF ProductsRight
  <2>11. old.changed = None => LiquidityTrue'
    BY <1>3, <2>3, <2>6 DEF LiquidityTrue, LiquidityFresh, LiquidityNow
  <2>12. RunRight(m)'
    BY <1>3, <1>4, <2>3, <2>7, <2>8, <2>11 DEF RunRight, Early, Hours
  <2> QED
    BY <2>9, <2>10, <2>12
<1> QED
  BY <1>1, <1>3, <1>4, <1>5, CurrentRunMoves

LEMMA CurrentRebuildLiquidity ==
    ASSUME CurrentInv, QuoteInv', NEW r \in Run, RebuildLiquidity(r)
    PROVE  CurrentInv'
<1>1. PICK old : old = run[r]
  OBVIOUS
<1>2. PICK m : m = AtStep("idle", None, TRUE)
  OBVIOUS
<1>3. /\ UNCHANGED <<now, registered, chain, pools, reserves, quotes, hourly, snapshot, mishaps>>
      /\ old.pc = "liquidity" /\ Reset(r, m)
      /\ liquidity' = IF (old.changed = None /\ LiquidityFresh) \/ Priced(Active) = {}
                      THEN liquidity ELSE LiquidityNow
  BY <1>1, <1>2 DEF RebuildLiquidity, world, sources
<1>4. m.pc = "idle"
  BY <1>2 DEF AtStep
<1>5. ASSUME mishaps = {} PROVE TablesRight' /\ ProductsRight' /\ RunRight(m)' /\ RightUntil(None)'
  <2>1. RunRight(old) /\ now \in Nat /\ TablesRight /\ ProductsRight
    BY <1>1, <1>5, RunIs
  <2>2. Right(hourly) /\ Right(Served) /\ (old.changed = None => LiquidityTrue)
    BY <1>3, <2>1 DEF RunRight
  <2>3. /\ Active' = Active /\ Touched' = Touched /\ \A h : Point(h)' = Point(h)
        /\ Rows' = Rows /\ Served' = Served
    BY <1>3, TablesStay DEF Served
  <2>4. LiquidityNow' = LiquidityNow
    BY <1>3, <2>3 DEF LiquidityNow
  <2>5. LiquidityTrue' /\ ProductsRight'
    <3>1. CASE liquidity' = LiquidityNow /\ Priced(Active) # {}
      <4>1. LiquidityTrue'
        BY <2>4, <3>1 DEF LiquidityTrue
      <4>2. LiquidityNow.asOf = now
        BY DEF LiquidityNow, SummarizeLiquidity
      <4>3. liquidity'.asOf \in 0..now
        BY <2>1, <3>1, <4>2
      <4>4. hourly' \in Series(0..now') /\ Served' \in Series(0..now')
        BY <1>3, <2>1, <2>3 DEF ProductsRight
      <4>5. (Priced(Active) = {} => liquidity = None)'
        BY <2>3, <3>1
      <4> QED
        BY <1>3, <4>1, <4>3, <4>4, <4>5 DEF ProductsRight
    <3>2. CASE liquidity' = liquidity
      <4>1. LiquidityFresh => old.changed = None \/ liquidity' = LiquidityNow
        BY <1>3, <2>1, <3>2 DEF ProductsRight, LiquidityFresh
      <4>2. LiquidityTrue'
        BY <1>3, <2>2, <2>4, <3>2, <4>1 DEF LiquidityTrue, LiquidityFresh
      <4>3. ProductsRight'
        BY <1>3, <2>1, <2>3, <3>2 DEF ProductsRight
      <4> QED
        BY <4>2, <4>3
    <3> QED
      BY <1>3, <3>1, <3>2
  <2>6. TablesRight'
    BY <1>3, <2>1, <2>3 DEF TablesRight
  <2>7. RunRight(m)'
    BY <1>4 DEF RunRight
  <2>8. RightUntil(None)'
    <3>1. \A h \in 0..now : RightAt(hourly, h) /\ RightAt(Served, h)
      BY <2>2 DEF Right
    <3>2. \A h \in 0..now : RightAt(hourly, h)' /\ RightAt(Served, h)'
      BY <1>3, <2>3, <3>1 DEF RightAt
    <3> QED
      BY <1>3, <2>5, <3>2 DEF RightUntil
  <2> QED
    BY <2>5, <2>6, <2>7, <2>8
<1> QED
  BY <1>1, <1>3, <1>4, <1>5, CurrentRunMoves

\* A failed or removed step is remembered.
LEMMA CurrentMishap ==
    ASSUME CurrentInv, QuoteInv', UNCHANGED <<now, chain>>, mishaps' # {}
    PROVE  CurrentInv'
BY DEF CurrentInv, ChainOrdered

\* The pools a clean start makes active are new, and have no rows.
LEMMA CurrentStartRun ==
    ASSUME CurrentInv, QuoteInv', NEW r \in Run, StartRun(r)
    PROVE  CurrentInv'
<1> DEFINE AllIdle == \A q \in Run : run[q].pc = "idle"
           M == [AtStep("reserves", None, AllIdle) EXCEPT !.todo = Active']
           N == ToReserves(Active', M)
<1>1. /\ UNCHANGED <<now, registered, chain, reserves, quotes, hourly, snapshot, liquidity>>
      /\ settled' = FALSE /\ mishaps' = IF AllIdle THEN mishaps ELSE mishaps \cup {"overlap"}
  BY DEF StartRun, world, products
<1>2. run' = [q \in Run |-> IF q = r THEN N ELSE [run[q] EXCEPT !.clean = FALSE]]
  BY Zenon DEF StartRun
<1>3. PICK missed \in SUBSET {p \in registered : pools[p] = "absent"} :
          pools' = [p \in Pool |->
                IF p \in registered \ missed THEN "active"
                ELSE IF pools[p] = "absent" THEN "absent" ELSE "inactive"]
  BY DEF StartRun
<1>4. DOMAIN M = MemoryFields /\ M.todo = Active' /\ M.changed = None /\ M.fresh = None
  BY DEF AtStep, MemoryFields
<1> HIDE DEF M
<1>5. N.pc # "idle"
  BY <1>4, ToReservesGoesOn
<1>6. Turns(N, Active', None)
  <2>1. Least(None, None) = None
    BY DEF Least
  <2>2. Turns(ToReserves(Active', M), Active', Least(M.changed, M.fresh))
    BY <1>4, ToReservesTurns DEF Hours
  <2> QED
    BY <1>4, <2>1, <2>2
<1> HIDE DEF N
<1>7. ChainOrdered'
  BY <1>1 DEF CurrentInv, ChainOrdered
<1>8. ASSUME mishaps' = {}
      PROVE  /\ TablesRight' /\ ProductsRight'
             /\ \A s \in Run : RunRight(run[s])'
             /\ (\A s \in Run : run'[s].pc = "idle") => RightUntil(None)'
  <2>1. AllIdle /\ mishaps = {}
    BY <1>1, <1>8
  <2>2. /\ TablesRight /\ ProductsRight /\ RightUntil(None) /\ now \in Nat
        /\ \A q \in Quote : QuotesFit(q)
    BY <2>1, RunIs DEF CurrentInv
  <2>3. DOMAIN run = Run /\ \A q \in Run : DOMAIN run[q] = MemoryFields
    BY DEF CurrentInv, QuoteInv, ReserveInv, ReserveMemory
  <2>4. \A p \in Pool : \/ (pools[p] = "active" /\ pools'[p] = "active" /\ p \in registered)
                        \/ (pools[p] = "absent" /\ reserves[p] = {}
                            /\ (pools'[p] = "absent" \/ (pools'[p] = "active" /\ p \in registered)))
    BY <1>3, <2>2 DEF TablesRight
  <2>5. Active \subseteq Active' /\ \A p \in Active' \ Active : reserves[p] = {}
    BY <2>4 DEF Active
  <2>6. Rows' = Rows /\ \A p \in Active' \ Active : Rows[p] = {}
    <3>1. Rows' = Rows
      BY <1>1 DEF Rows, Row
    <3>2. Active' \subseteq Pool
      BY DEF Active
    <3> QED
      BY <2>5, <3>1, <3>2 DEF Rows
  <2>7. PICK ps \in SUBSET Pool : ps = Active
    BY DEF Active
  <2>8. PICK qs \in SUBSET Pool : qs = Active'
    BY DEF Active
  <2>9. PICK rs, prices : rs = Rows /\ prices = quotes
    OBVIOUS
  <2>10. PICK n \in Nat : n = now
    BY <2>2
  <2>11. ps \subseteq qs /\ \A p \in qs \ ps : rs[p] = {}
    BY <2>5, <2>6, <2>7, <2>8, <2>9
  <2>12. ASSUME NEW h PROVE HourPoint(ps, rs, prices, h) = HourPoint(qs, rs, prices, h)
    <3>1. \A p \in qs \ ps : RowsUpTo(rs[p], h) = {}
      BY <2>11 DEF RowsUpTo
    <3>2. \A q \in Quote : DOMAIN prices[q] \subseteq 0..n
      BY <2>2, <2>9, <2>10 DEF QuotesFit
    <3> QED
      BY <2>11, <3>1, <3>2, PointKept
  <2>13. \A h : Point(h)' = Point(h)
    BY <1>1, <2>6, <2>7, <2>8, <2>9, <2>12 DEF Point
  <2>14. LiquidityNow' = LiquidityNow
    <3>1. SummarizeLiquidity(ps, rs, prices, n, Windows) = SummarizeLiquidity(qs, rs, prices, n, Windows)
      BY <2>11, <2>12, LiquidityKept
    <3> QED
      BY <1>1, <2>6, <2>7, <2>8, <2>9, <2>10, <3>1 DEF LiquidityNow
  <2>15. ASSUME NEW h, h \in Touched' PROVE h \in Touched
    <3>1. CASE \E p \in Active' : \E row \in Rows[p] : row.ts = h
      <4>1. PICK p \in Active' : \E row \in Rows[p] : row.ts = h
        BY <3>1
      <4>2. p \in Active
        BY <2>6, <4>1
      <4> QED
        BY <4>1, <4>2 DEF Touched
    <3>2. CASE \E p \in Active' : QuoteOf[p] \in Quote /\ h \in DOMAIN quotes[QuoteOf[p]]
      <4>1. PICK p \in Active' : QuoteOf[p] \in Quote /\ h \in DOMAIN quotes[QuoteOf[p]]
        BY <3>2
      <4>2. PICK q \in Quote : q = QuoteOf[p]
        BY <4>1
      <4>3. PICK x \in Active : QuoteOf[x] = q
        BY <2>2, <4>1, <4>2 DEF TablesRight
      <4> QED
        BY <4>1, <4>2, <4>3 DEF Touched
    <3> QED
      BY <1>1, <2>6, <2>15, <3>1, <3>2 DEF Touched
  <2>16. RightUntil(None)'
    <3>1. None \in Hours
      BY DEF Hours
    <3> QED
      BY <1>1, <2>2, <2>13, <2>14, <2>15, <3>1, UntilKept
  <2>17. TablesRight'
    <3>1. \A p \in Pool : \/ (pools'[p] = "active" /\ p \in registered')
                          \/ (pools'[p] = "absent" /\ reserves'[p] = {})
      BY <1>1, <2>4
    <3> QED
      BY <1>1, <2>2, <2>5, <3>1 DEF TablesRight
  <2>18. ProductsRight'
    <3>1. Priced(Active') = {} => Priced(Active) = {}
      BY <2>5 DEF Priced
    <3>2. Served' = Served
      BY <1>1 DEF Served
    <3> QED
      BY <1>1, <2>2, <3>1, <3>2 DEF ProductsRight
  <2>19. PICK m : m = N
    OBVIOUS
  <2>20. run'[r] = m /\ m.pc # "idle" /\ RunRight(m)'
    <3>1. ~settled' /\ Turns(m, Active', None)
      BY <1>1, <1>6, <2>19
    <3>2. RunRight(m)'
      BY <2>16, <3>1, TurnsRightNext
    <3> QED
      BY <1>2, <1>5, <2>19, <3>2
  <2>21. ASSUME NEW s \in Run, s # r PROVE RunRight(run[s])'
    <3>1. PICK was : was = run[s]
      OBVIOUS
    <3>2. was.pc = "idle" /\ DOMAIN was = MemoryFields
      BY <2>1, <2>3, <3>1
    <3>3. PICK gone : gone = [was EXCEPT !.clean = FALSE]
      OBVIOUS
    <3>4. gone.pc = "idle" /\ run'[s] = gone
      BY <1>2, <2>21, <3>1, <3>2, <3>3 DEF MemoryFields
    <3> QED
      BY <3>4 DEF RunRight
  <2>22. \A s \in Run : RunRight(run[s])'
    <3>1. RunRight(run[r])'
      BY <2>20
    <3> QED
      BY <2>21, <3>1
  <2> QED
    BY <2>16, <2>17, <2>18, <2>22
<1> QED
  BY <1>7, <1>8 DEF CurrentInv

LEMMA SeriesOf ==
    ASSUME NEW hs, NEW series, series \in Series(hs), NEW ks, hs \subseteq ks
    PROVE  DOMAIN series \subseteq hs /\ series \in Series(ks)
<1>1. PICK S \in SUBSET hs : series \in [S -> Points]
  BY DEF Series
<1> QED
  BY <1>1 DEF Series

LEMMA TouchedSoFar ==
    ASSUME ChainOrdered, TypeOK, \A q \in Quote : QuotesFit(q)
    PROVE  Touched \subseteq 0..now
<1>1. SUFFICES ASSUME NEW h \in Touched PROVE h \in 0..now
  OBVIOUS
<1>2. CASE \E p \in Active : \E row \in Rows[p] : row.ts = h
  <2>1. PICK p \in Active : \E row \in Rows[p] : row.ts = h
    BY <1>2
  <2>2. p \in Pool
    BY DEF Active
  <2>3. PICK i \in reserves[p] : Row(p, i).ts = h
    BY <2>1, <2>2 DEF Rows
  <2>4. h = chain[p][i] /\ i \in DOMAIN chain[p]
    BY <2>2, <2>3 DEF Row, TypeOK
  <2> QED
    BY <2>2, <2>4 DEF ChainOrdered
<1>3. CASE \E p \in Active : QuoteOf[p] \in Quote /\ h \in DOMAIN quotes[QuoteOf[p]]
  BY <1>3 DEF QuotesFit
<1> QED
  BY <1>1, <1>2, <1>3 DEF Touched

\* An hour that has just begun is in no series, and nothing has touched it.
LEMMA CurrentWorldMoves ==
    ASSUME CurrentInv, QuoteInv', ChainOrdered', Rows' = Rows, registered \subseteq registered',
           UNCHANGED <<pools, reserves, quotes, products, run, settled, mishaps>>,
           now' = now \/ now' = now + 1
    PROVE  CurrentInv'
<1>1. ASSUME mishaps = {}
      PROVE  /\ TablesRight' /\ ProductsRight'
             /\ \A s \in Run : RunRight(run[s])'
             /\ (\A s \in Run : run'[s].pc = "idle") => RightUntil(None)'
  <2>1. /\ TablesRight /\ ProductsRight /\ \A s \in Run : RunRight(run[s])
        /\ (\A s \in Run : run[s].pc = "idle") => RightUntil(None)
        /\ QuoteInv /\ ReserveInv /\ TypeOK /\ ChainOrdered
        /\ \A q \in Quote : QuotesFit(q)
    BY <1>1 DEF CurrentInv, QuoteInv, ReserveInv
  <2>2. now \in Nat /\ now' \in Nat
    BY <2>1, PriceAssumption DEF TypeOK, Hour
  <2>3. Active' = Active /\ Served' = Served
    BY DEF Active, Served, products
  <2>4. Touched' = Touched /\ \A h : Point(h)' = Point(h)
    BY <2>3 DEF Touched, Point
  <2>5. 0..now \subseteq 0..now'
        /\ \A h \in 0..now' : h \in 0..now \/ (h = now' /\ now' = now + 1 /\ h \notin 0..now)
    BY <2>2
  <2>6. Touched \subseteq 0..now
    BY <2>1, TouchedSoFar
  <2>7. ASSUME NEW series, series \in Series(0..now)
        PROVE  /\ series \in Series(0..now')
               /\ \A h \in 0..now' : h \notin 0..now => RightAt(series, h)'
               /\ \A h : RightAt(series, h) => RightAt(series, h)'
    <3>1. series \in Series(0..now') /\ DOMAIN series \subseteq 0..now
      BY <2>5, <2>7, SeriesOf
    <3>2. \A h : h \notin 0..now => RightAt(series, h)'
      BY <2>4, <2>6, <3>1 DEF RightAt
    <3> QED
      BY <2>4, <3>1, <3>2 DEF RightAt
  <2>8. ASSUME NEW series, series \in Series(0..now), Right(series) PROVE Right(series)'
    BY <2>5, <2>7, <2>8 DEF Right
  <2>9. PICK table, shown : table = hourly /\ shown = Served
    OBVIOUS
  <2>10. /\ table \in Series(0..now) /\ shown \in Series(0..now)
         /\ hourly' = table /\ Served' = shown
    BY <2>1, <2>3, <2>9 DEF ProductsRight, products
  <2>11. LiquidityTrue => LiquidityTrue'
    <3>1. CASE now' = now
      BY <2>3, <3>1 DEF LiquidityTrue, LiquidityFresh, LiquidityNow, products
    <3>2. CASE now' = now + 1
      <4>1. liquidity # None => liquidity.asOf \in 0..now
        BY <2>1 DEF ProductsRight
      <4>2. ~LiquidityFresh'
        BY <2>2, <3>2, <4>1 DEF LiquidityFresh, products
      <4> QED
        BY <4>2 DEF LiquidityTrue
    <3> QED
      BY <3>1, <3>2
  <2>12. ASSUME NEW since, RightUntil(since) PROVE RightUntil(since)'
    <3>1. \A h \in 0..now : since = None \/ h < since => RightAt(table, h) /\ RightAt(shown, h)
      BY <2>9, <2>12 DEF RightUntil
    <3>2. \A h \in 0..now' : since = None \/ h < since => RightAt(table, h)' /\ RightAt(shown, h)'
      BY <2>5, <2>7, <2>10, <3>1
    <3>3. \A h \in 0..now' : since = None \/ h < since => RightAt(hourly, h)' /\ RightAt(Served, h)'
      BY <2>10, <3>2 DEF RightAt
    <3> QED
      BY <2>11, <2>12, <3>3 DEF RightUntil
  <2>13. /\ Right(hourly) => Right(hourly)'
         /\ Right(Served) => Right(Served)'
    <3>1. /\ Right(hourly) <=> Right(table)
          /\ Right(Served) <=> Right(shown)
      BY <2>9
    <3>2. /\ Right(hourly)' <=> Right(table)'
          /\ Right(Served)' <=> Right(shown)'
      BY <2>10 DEF Right, RightAt
    <3> QED
      BY <2>8, <2>10, <3>1, <3>2
  <2>14. TablesRight'
    BY <2>1, <2>3 DEF TablesRight
  <2>15. ProductsRight'
    <3>1. hourly' \in Series(0..now') /\ Served' \in Series(0..now')
      BY <2>7, <2>10
    <3>2. liquidity' # None => liquidity'.asOf \in 0..now'
      BY <2>1, <2>5 DEF ProductsRight, products
    <3> QED
      BY <2>1, <2>3, <3>1, <3>2 DEF ProductsRight, products
  <2>16. ASSUME NEW s \in Run PROVE RunRight(run[s])'
    <3>1. PICK m : m = run[s]
      OBVIOUS
    <3>2. run'[s] = m /\ RunRight(m)
      BY <2>1, <3>1
    <3>3. ASSUME m.pc # "idle" PROVE RunRight(m)'
      <4>1. /\ ~settled' /\ m.changed \in Hours /\ m.fresh \in Hours
            /\ m.pc \in {"reserves", "poolCursor"} => m.todo \subseteq Active'
            /\ m.pc \in {"quotes", "storeQuotes"} => m.todo \subseteq {QuoteOf[p] : p \in Active'}
            /\ m.pc = "storeQuotes" => m.page \in [DOMAIN m.page -> Nat]
            /\ m.pc = "price" => m.fresh = None
        BY <2>3, <3>2, <3>3 DEF RunRight
      <4>2. m.pc \in Early => RightUntil(Least(m.changed, m.fresh))'
        BY <2>12, <3>2, <3>3 DEF RunRight
      <4>3. m.pc \in {"snapshot", "liquidity"} =>
                Right(hourly)' /\ (m.changed = None => LiquidityTrue')
        BY <2>11, <2>13, <3>2, <3>3 DEF RunRight
      <4>4. m.pc = "snapshot" => Merged(m) \in Series(0..now') /\ Right(Merged(m))'
        BY <2>7, <2>8, <3>2, <3>3 DEF RunRight
      <4>5. m.pc = "liquidity" => Right(Served)'
        BY <2>13, <3>2, <3>3 DEF RunRight
      <4> QED
        BY <4>1, <4>2, <4>3, <4>4, <4>5 DEF RunRight
    <3>4. m.pc = "idle" => RunRight(m)'
      BY DEF RunRight
    <3>5. RunRight(m)'
      BY <3>3, <3>4
    <3> QED
      BY <3>2, <3>5 DEF RunRight
  <2>17. (\A s \in Run : run'[s].pc = "idle") => RightUntil(None)'
    BY <2>1, <2>12
  <2> QED
    BY <2>14, <2>15, <2>16, <2>17
<1> QED
  BY <1>1 DEF CurrentInv

LEMMA CurrentUpdateReserves ==
    ASSUME CurrentInv, QuoteInv', NEW p \in Pool, UpdateReserves(p)
    PROVE  CurrentInv'
<1>1. /\ UNCHANGED <<now, registered, pools, reserves, quotes, products, run, settled, mishaps>>
      /\ chain' = [chain EXCEPT ![p] = Append(@, now)]
  BY DEF UpdateReserves, sources, history
<1>2. TypeOK /\ ChainOrdered /\ now \in Nat
  BY PriceAssumption DEF CurrentInv, QuoteInv, ReserveInv, TypeOK, Hour
<1>3. PICK old : old = chain[p]
  OBVIOUS
<1>4. PICK new : new = Append(old, now)
  OBVIOUS
<1>5. old \in Seq(Hour) /\ now \in Hour /\ DOMAIN chain = Pool
  BY <1>2, <1>3 DEF TypeOK
<1>6. chain'[p] = new /\ \A x \in Pool \ {p} : chain'[x] = chain[x]
  BY <1>1, <1>3, <1>4, <1>5
<1>7. /\ DOMAIN new = DOMAIN old \cup {Len(old) + 1} /\ new[Len(old) + 1] = now
      /\ \A i \in DOMAIN old : new[i] = old[i] /\ i \in 1..Len(old)
      /\ Len(old) \in Nat
  BY <1>4, <1>5
<1>8. ChainOrdered'
  <2>1. ASSUME NEW x \in Pool, NEW i \in DOMAIN chain'[x], NEW j \in DOMAIN chain'[x]
        PROVE  chain'[x][i] \in 0..now /\ (i <= j => chain'[x][i] <= chain'[x][j])
    <3>1. CASE x # p
      BY <1>2, <1>6, <2>1, <3>1 DEF ChainOrdered
    <3>2. CASE x = p
      <4>1. i \in DOMAIN new /\ j \in DOMAIN new
        BY <1>6, <2>1, <3>2
      <4>2. \A k, l \in DOMAIN old : old[k] \in 0..now /\ (k <= l => old[k] <= old[l])
        BY <1>2, <1>3 DEF ChainOrdered
      <4>3. new[i] \in 0..now /\ new[j] \in 0..now
        BY <1>2, <1>7, <4>1, <4>2
      <4>4. ASSUME i <= j PROVE new[i] <= new[j]
        <5>1. CASE j = Len(old) + 1
          BY <1>2, <1>7, <4>3, <5>1
        <5>2. CASE j # Len(old) + 1
          <6>1. j \in DOMAIN old /\ j \in 1..Len(old)
            BY <1>7, <4>1, <5>2
          <6>2. i # Len(old) + 1
            BY <1>7, <4>4, <6>1
          <6>3. i \in DOMAIN old
            BY <1>7, <4>1, <6>2
          <6> QED
            BY <1>7, <4>2, <4>4, <6>1, <6>3
        <5> QED
          BY <5>1, <5>2
      <4> QED
        BY <1>6, <3>2, <4>3, <4>4
    <3> QED
      BY <3>1, <3>2
  <2> QED
    BY <1>1, <2>1 DEF ChainOrdered
<1>9. Rows' = Rows
  <2>1. ASSUME NEW x \in Pool, NEW i \in reserves[x] PROVE chain'[x][i] = chain[x][i]
    <3>1. i \in DOMAIN chain[x]
      BY <1>2, <2>1 DEF TypeOK
    <3> QED
      BY <1>3, <1>6, <1>7, <3>1
  <2>2. ASSUME NEW x \in Pool, NEW i \in reserves[x] PROVE Row(x, i)' = Row(x, i)
    BY <2>1 DEF Row
  <2>3. \A x \in Pool : {Row(x, i)' : i \in reserves[x]} = {Row(x, i) : i \in reserves[x]}
    BY <2>2
  <2>4. Rows' = [x \in Pool |-> {Row(x, i)' : i \in reserves[x]}]
    BY <1>1 DEF Rows
  <2> QED
    BY <2>3, <2>4 DEF Rows
<1> QED
  BY <1>1, <1>8, <1>9, CurrentWorldMoves

LEMMA CurrentStarts == Init => CurrentInv
<1> SUFFICES ASSUME Init PROVE CurrentInv
  OBVIOUS
<1>1. QuoteInv
  BY QuoteStarts
<1>2. /\ now = 0 /\ chain = [p \in Pool |-> <<>>] /\ pools = [p \in Pool |-> "absent"]
      /\ reserves = [p \in Pool |-> {}] /\ quotes = [q \in Quote |-> NoHours]
      /\ hourly = NoHours /\ snapshot = None /\ liquidity = None
      /\ run = [r \in Run |-> AtStep("idle", None, TRUE)]
  BY DEF Init
<1> HIDE DEF Init
<1>3. ChainOrdered
  BY <1>2 DEF ChainOrdered
<1>4. TablesRight
  <2>1. \A q \in Quote : DOMAIN quotes[q] = {}
    BY <1>2 DEF NoHours
  <2> QED
    BY <1>2, <2>1 DEF TablesRight
<1>5. NoHours \in Series(0..now)
  <2>1. NoHours \in [{} -> Points]
    BY DEF NoHours
  <2> QED
    BY <2>1 DEF Series
<1>6. Served = NoHours
  BY <1>2 DEF Served
<1>7. ProductsRight
  BY <1>2, <1>5, <1>6 DEF ProductsRight
<1>8. \A r \in Run : RunRight(run[r])
  <2>1. \A r \in Run : run[r].pc = "idle"
    BY <1>2 DEF AtStep
  <2> QED
    BY <2>1 DEF RunRight
<1>9. RightUntil(None)
  <2>1. Active = {}
    BY <1>2 DEF Active
  <2>2. \A h : DOMAIN Point(h) = {}
    BY <2>1 DEF Point, HourPoint, Priced
  <2>3. LiquidityTrue
    BY <1>2 DEF LiquidityTrue, LiquidityFresh
  <2> QED
    BY <2>2, <2>3 DEF RightUntil, RightAt
<1> QED
  BY <1>1, <1>3, <1>4, <1>7, <1>8, <1>9 DEF CurrentInv

LEMMA CurrentStep == ASSUME CurrentInv, [Next]_vars PROVE CurrentInv'
<1>1. QuoteInv'
  BY QuoteStep DEF CurrentInv
<1>2. ASSUME NEW r \in Run, Ingest(r) PROVE CurrentInv'
  <2>1. CASE StartRun(r) \/ FetchReserves(r) \/ MovePoolCursor(r) \/ FetchQuotes(r) \/ StoreQuotes(r)
    BY <1>1, <2>1, CurrentStartRun, CurrentFetchReserves, CurrentMovePoolCursor,
       CurrentFetchQuotes, CurrentStoreQuotes
  <2>2. CASE StoreHours(r)
    BY <1>1, <2>2, CurrentSkipPrice, CurrentStoreHours
  <2>3. CASE StoreSnapshot(r) \/ RebuildLiquidity(r)
    BY <1>1, <2>3, CurrentStoreSnapshot, CurrentRebuildLiquidity
  <2> QED
    BY <1>2, <2>1, <2>2, <2>3 DEF Ingest
<1>3. ASSUME NEW r \in Run, Fail(r) PROVE CurrentInv'
  <2>1. UNCHANGED <<now, chain>> /\ mishaps' # {}
    BY <1>3 DEF Fail, world
  <2> QED
    BY <1>1, <2>1, CurrentMishap
<1>4. ASSUME NEW p \in Pool, Unregister(p) PROVE CurrentInv'
  <2>1. UNCHANGED <<now, chain>> /\ mishaps' # {}
    BY <1>4 DEF Unregister
  <2> QED
    BY <1>1, <2>1, CurrentMishap
<1>5. ASSUME \/ UNCHANGED vars \/ Tick \/ (\E p \in Pool : Register(p)) \/ (\E q \in Quote : Trade(q))
      PROVE  CurrentInv'
  <2>1. /\ UNCHANGED <<chain, pools, reserves, quotes, products, run, settled, mishaps>>
        /\ registered \subseteq registered' /\ (now' = now \/ now' = now + 1)
    BY <1>5 DEF vars, world, sources, history, Tick, Register, Trade
  <2>2. Rows' = Rows
    BY <2>1 DEF Rows, Row
  <2>3. ChainOrdered'
    <3>1. ChainOrdered /\ now \in Nat
      BY PriceAssumption DEF CurrentInv, QuoteInv, ReserveInv, TypeOK, Hour
    <3>2. 0..now \subseteq 0..now'
      BY <2>1, <3>1
    <3> QED
      BY <2>1, <3>1, <3>2 DEF ChainOrdered
  <2> QED
    BY <1>1, <2>1, <2>2, <2>3, CurrentWorldMoves
<1>6. ASSUME NEW p \in Pool, UpdateReserves(p) PROVE CurrentInv'
  BY <1>1, <1>6, CurrentUpdateReserves
<1> QED
  BY <1>2, <1>3, <1>4, <1>5, <1>6 DEF Next

\* ingest.ts:72-86, 484-527.  As long as no run has failed or overlapped another
\* and no pool has been removed, recomputing from the earliest changed hour
\* leaves what a computation from scratch would, for any pools, pages and trades.
THEOREM CleanRunsAlwaysCurrent == Spec => []CleanRunsAreCurrent
<1>1. CurrentInv => CleanRunsAreCurrent
  <2>1. SUFFICES ASSUME CurrentInv, settled, mishaps = {} PROVE Current
    BY DEF CleanRunsAreCurrent
  <2>2. now \in Nat
    BY <2>1, PriceAssumption DEF CurrentInv, QuoteInv, ReserveInv, TypeOK, Hour
  <2>3. RightUntil(None)
    BY <2>1 DEF CurrentInv, RunRight
  <2>4. /\ \A h : h \in DOMAIN Full <=> h \in 0..now /\ DOMAIN Point(h) # {}
        /\ \A h \in DOMAIN Full : Full[h] = Point(h)
    BY <2>2, HoursComputed DEF Full, Point
  <2>5. ASSUME NEW series, \A h \in 0..now : RightAt(series, h) PROVE SameAsFull(series)
    BY <2>4, <2>5 DEF SameAsFull, RightAt
  <2>6. SameAsFull(hourly) /\ SameAsFull(Served)
    BY <2>3, <2>5 DEF RightUntil
  <2>7. LiquidityFresh => liquidity = LiquidityNow
    BY <2>3 DEF RightUntil, LiquidityTrue
  <2> QED
    BY <2>6, <2>7 DEF Current, Served
<1>2. CurrentInv /\ [Next]_vars => CurrentInv'
  BY CurrentStep
<1> QED
  BY <1>1, <1>2, CurrentStarts, PTL DEF Spec

-----------------------------------------------------------------------------
(***************************************************************************)
(* The contents of a report, for any stores, envelopes and lookups that    *)
(* fail.  Some playbook fits every transaction, the one chosen is the      *)
(* first, the groups part the month's transfers and the rows its flips.    *)
(***************************************************************************)

\* A store has finitely many rows, with what rows have.
LEMMA StoreIs ==
    ASSUME journal \in Journals
    PROVE  /\ IsFiniteSet(DOMAIN journal) /\ Range(journal) = {journal[i] : i \in DOMAIN journal}
           /\ \A i \in DOMAIN journal :
                 /\ journal[i].amount \in Nat /\ journal[i].tx \in DOMAIN Envelopes
                 /\ journal[i].name = "vaulted" => journal[i].flag \in {"true", "false"}
<1>1. Range(journal) = {journal[i] : i \in DOMAIN journal}
  BY DEF Range
<1>2. Len(journal) \in Nat /\ DOMAIN journal = 1..Len(journal)
  BY ContentsAssumption
<1>3. IsFiniteSet(DOMAIN journal)
  BY <1>2, FS_Interval, 1 \in Int, Len(journal) \in Int
<1> QED
  BY <1>1, <1>3, ContentsAssumption

\* The volume of some rows is natural, and none without rows.
LEMMA VolumeIs ==
    ASSUME journal \in Journals, NEW S \in SUBSET DOMAIN journal
    PROVE  Volume(S) \in Nat /\ (Volume(S) > 0 => S # {}) /\ IsFiniteSet(S)
<1> DEFINE amounts == [i \in DOMAIN journal |-> journal[i].amount]
<1>1. IsFiniteSet(S) /\ \A i \in S : amounts[i] \in Nat
  BY StoreIs, FS_Subset
<1> HIDE DEF amounts
<1>2. SumFunctionOnSet(amounts, S) \in Nat /\ SumFunctionOnSet(amounts, {}) = 0
  BY <1>1, SumNat, SumEmpty
<1>3. Volume(S) = SumFunctionOnSet(amounts, S)
  BY DEF Volume, amounts
<1> QED
  BY <1>1, <1>2, <1>3

\* The playbook of a transaction is the first that fits it.
LEMMA FirstFits ==
    ASSUME NEW h
    PROVE  \E i \in 1..8 :
              /\ PlaybookOf(h) = Playbooks[i] /\ Matches(Playbooks[i], ClassifyTx(LegsOf(h)), h)
              /\ \A j \in 1..(i - 1) : ~ Matches(Playbooks[j], ClassifyTx(LegsOf(h)), h)
<1> DEFINE cls == ClassifyTx(LegsOf(h))
           fits(i) == Matches(Playbooks[i], cls, h)
           some == {i \in 1..8 : fits(i)}
           Is(i) == fits(i) /\ \A j \in 1..(i - 1) : ~fits(j)
<1>1. Playbooks[8] = "unmatched" /\ DOMAIN Playbooks = 1..8
  BY DEF Playbooks
<1>2. fits(8)
  BY <1>1 DEF Matches
<1> HIDE DEF fits, cls
<1>3. some # {} /\ some \in SUBSET Nat
  BY <1>2
<1>4. PICK i \in some : \A j \in some : i <= j
  BY <1>3, LeastNatural
<1>5. i \in 1..8 /\ Is(i)
  BY <1>4
<1> HIDE DEF Is
<1>6. \E k \in DOMAIN Playbooks : Is(k)
  BY <1>1, <1>5
<1> DEFINE first == CHOOSE k \in DOMAIN Playbooks : Is(k)
<1>7. first \in 1..8 /\ Is(first)
  BY <1>1, <1>6
<1>8. PlaybookOf(h) = Playbooks[first]
  BY DEF PlaybookOf, Is, fits, cls
<1> HIDE DEF first
<1> QED
  BY <1>7, <1>8 DEF Is, fits, cls

\* What the playbooks with a property of their own say of a transaction.
LEMMA Narrated ==
    ASSUME NEW h
    PROVE  LET cls == ClassifyTx(LegsOf(h)) IN
           /\ PlaybookOf(h) = "flashloan-arb" <=> \E a \in cls.addresses : KindOf(a) = "flashloan"
           /\ PlaybookOf(h) = "owner-arb" =>
                 TxSource(h) # Null /\ \E a \in cls.passThroughs : CreatorOf(a) = TxSource(h)
           /\ PlaybookOf(h) = "aggregator-third-party" =>
                 IsFeeBump(h) /\ Envelopes[h].fee # SponsorKey
           /\ PlaybookOf(h) = "aggregator-direct" => ~IsFeeBump(h)
<1> DEFINE cls == ClassifyTx(LegsOf(h))
           lent == \E a \in cls.addresses : KindOf(a) = "flashloan"
           owned == TxSource(h) # Null /\ \E a \in cls.passThroughs : CreatorOf(a) = TxSource(h)
           routed == ByRouter(cls) /\ IsFeeBump(h) /\ Envelopes[h].fee # SponsorKey
<1>1. /\ Matches("flashloan-arb", cls, h) <=> lent
      /\ Matches("owner-arb", cls, h) <=> owned
      /\ Matches("aggregator-third-party", cls, h) <=> routed
      /\ Matches("aggregator-direct", cls, h) => ~IsFeeBump(h)
  BY DEF Matches
<1>2. PICK i \in 1..8 :
         /\ PlaybookOf(h) = Playbooks[i] /\ Matches(Playbooks[i], cls, h)
         /\ \A j \in 1..(i - 1) : ~ Matches(Playbooks[j], cls, h)
  BY FirstFits
<1>3. /\ Playbooks[1] = "flashloan-arb"
      /\ \A k \in 1..8 : /\ Playbooks[k] = "flashloan-arb" => k = 1
                         /\ Playbooks[k] = "owner-arb" => k = 2
                         /\ Playbooks[k] = "aggregator-third-party" => k = 5
  BY DEF Playbooks
<1> HIDE DEF cls, lent, owned, routed
<1>4. PlaybookOf(h) = "flashloan-arb" <=> lent
  <2>1. CASE i = 1
    BY <1>1, <1>2, <1>3, <2>1
  <2>2. CASE i # 1
    <3>1. 1 \in 1..(i - 1)
      BY <2>2
    <3> QED
      BY <1>1, <1>2, <1>3, <2>2, <3>1
  <2> QED
    BY <2>1, <2>2
<1>5. PlaybookOf(h) = "owner-arb" => owned
  BY <1>1, <1>2
<1>6. PlaybookOf(h) = "aggregator-third-party" => routed
  BY <1>1, <1>2
<1>7. PlaybookOf(h) = "aggregator-direct" => ~IsFeeBump(h)
  BY <1>1, <1>2
<1> QED
  BY <1>4, <1>5, <1>6, <1>7 DEF cls, lent, owned, routed

\* What is said of a transaction's initiator is so.
LEMMA NarrationIsTrue ==
    ASSUME journal \in Journals, NEW h \in DOMAIN Envelopes
    PROVE  LET isSource(a) == a = IF Envelopes[h].inner = Null THEN Envelopes[h].source
                                  ELSE Envelopes[h].inner
           IN  /\ PlaybookOf(h) = "flashloan-arb" <=>
                     \E i \in LegsOf(h) : "flashloan" \in {KindOf(journal[i].from), KindOf(journal[i].to)}
               /\ PlaybookOf(h) = "owner-arb" =>
                     \E i \in LegsOf(h) : /\ journal[i].to \in DOMAIN Creators
                                          /\ isSource(Creators[journal[i].to])
               /\ PlaybookOf(h) = "aggregator-third-party" =>
                     Envelopes[h].inner # Null /\ Envelopes[h].fee # SponsorKey
<1> DEFINE legs == LegsOf(h)
           cls == ClassifyTx(legs)
           isSource(a) == a = IF Envelopes[h].inner = Null THEN Envelopes[h].source
                              ELSE Envelopes[h].inner
<1>1. /\ cls.addresses = Parties(legs)
      /\ \A a \in cls.passThroughs : a \in Parties(legs) /\ Received(legs, a) > 0
  BY DEF ClassifyTx
<1>2. \A a : a \in Parties(legs) <=> \E i \in legs : a \in {journal[i].from, journal[i].to}
  BY DEF Parties
<1>3. legs \in SUBSET DOMAIN journal
  BY DEF LegsOf, Transfers, ByName, Events
<1>4. ASSUME NEW a \in cls.passThroughs PROVE \E i \in legs : journal[i].to = a
  <2> DEFINE into == {i \in legs : journal[i].to = a}
  <2>1. into \in SUBSET DOMAIN journal /\ Volume(into) > 0
    BY <1>1, <1>3, <1>4 DEF Received
  <2>2. into # {}
    <3> HIDE DEF into
    <3> QED
      BY <2>1, VolumeIs
  <2> QED
    BY <2>2
<1> HIDE DEF legs, cls
<1>5. PlaybookOf(h) = "flashloan-arb" <=>
         \E i \in legs : "flashloan" \in {KindOf(journal[i].from), KindOf(journal[i].to)}
  <2>1. PlaybookOf(h) = "flashloan-arb" <=> \E a \in Parties(legs) : KindOf(a) = "flashloan"
    BY <1>1, Narrated DEF cls, legs
  <2> QED
    BY <1>2, <2>1
<1>6. ASSUME PlaybookOf(h) = "owner-arb"
      PROVE  \E i \in legs : journal[i].to \in DOMAIN Creators /\ isSource(Creators[journal[i].to])
  <2>1. TxSource(h) # Null /\ \E a \in cls.passThroughs : CreatorOf(a) = TxSource(h)
    BY <1>6, Narrated DEF cls, legs
  <2>2. PICK a \in cls.passThroughs : CreatorOf(a) = TxSource(h)
    BY <2>1
  <2>3. a \in DOMAIN Creators /\ Creators[a] = TxSource(h)
    BY <2>1, <2>2 DEF CreatorOf, IsContractAddr
  <2>4. isSource(TxSource(h))
    BY <2>1 DEF TxSource
  <2>5. PICK i \in legs : journal[i].to = a
    BY <1>4
  <2> QED
    BY <2>3, <2>4, <2>5
<1>7. PlaybookOf(h) = "aggregator-third-party" =>
         Envelopes[h].inner # Null /\ Envelopes[h].fee # SponsorKey
  BY Narrated DEF IsFeeBump
<1> QED
  BY <1>5, <1>6, <1>7 DEF legs

\* The line of a transaction in its group is what the cache knows of it.
LEMMA LineOf ==
    ASSUME NEW h \in DOMAIN Envelopes
    PROVE  LineIsTrue(PlaybookOf(h), Entry(h))
<1> DEFINE t == Entry(h)
<1>1. t.tx = h /\ t.source = TxSource(h) /\ t.mode = InitiatorMode(h)
  BY DEF Entry
<1>2. t.mode # "n/a" => txCache[h] = "known"
  BY <1>1 DEF InitiatorMode
<1>3. PlaybookOf(h) = "aggregator-direct" /\ t.mode # "n/a" => Envelopes[h].inner = Null
  BY <1>2, Narrated DEF IsFeeBump
<1> HIDE DEF t
<1>4. TxSource(h) \in {Null, IF Envelopes[h].inner # Null THEN Envelopes[h].inner
                             ELSE Envelopes[h].source}
  BY DEF TxSource
<1>5. LET ours == SponsorKey \in {Envelopes[h].source, Envelopes[h].fee}
          bumped == Envelopes[h].inner # Null
      IN  /\ InitiatorMode(h) = "gateway" => ours
          /\ InitiatorMode(h) = "3p-bump" => bumped /\ ~ours
          /\ InitiatorMode(h) = "direct wallet" => ~bumped /\ ~ours
  BY DEF InitiatorMode, IsFeeBump
<1>6. LineIsTrue(PlaybookOf(h), t)
  BY <1>1, <1>3, <1>4, <1>5 DEF LineIsTrue
<1> QED
  BY <1>6 DEF t

\* A finite set has finitely many values.
LEMMA ValuesFinite ==
    ASSUME NEW S, IsFiniteSet(S), NEW T, NEW f \in [S -> T], T = {f[x] : x \in S}
    PROVE  IsFiniteSet(T)
<1>1. f \in Surjection(S, T)
  BY DEF Surjection
<1> QED
  BY <1>1, FS_Surjection

\* Group by group, the report's totals are the month's volume.
LEMMA TotalsAddUp ==
    ASSUME journal \in Journals, NEW names, NEW book \in Surjection(TxsByHash, names),
           NEW totals, \A i \in names : totals[i] = TotalOf({h \in TxsByHash : book[h] = i})
    PROVE  SumFunctionOnSet(totals, names) = Volume(Transfers)
<1> DEFINE amounts == [i \in DOMAIN journal |-> journal[i].amount]
           volumes == [h \in TxsByHash |-> Volume(LegsOf(h))]
           key == [i \in Transfers |-> journal[i].tx]
           txs == TxsByHash
<1>1. Transfers \in SUBSET DOMAIN journal /\ IsFiniteSet(Transfers)
  <2>1. Transfers \in SUBSET DOMAIN journal
    BY DEF Transfers, ByName, Events
  <2> QED
    BY <2>1, StoreIs, FS_Subset
<1>2. key \in [Transfers -> txs] /\ txs = {key[i] : i \in Transfers}
  BY DEF TxsByHash
<1>3. \A i \in Transfers : amounts[i] \in Int
  BY <1>1, StoreIs
<1>4. \A h \in txs : volumes[h] = Volume(LegsOf(h)) /\ LegsOf(h) = {i \in Transfers : key[i] = h}
  BY DEF LegsOf
<1>5. \A legs : Volume(legs) = SumFunctionOnSet(amounts, legs)
  BY DEF Volume
<1>6. \A i \in names : totals[i] = TotalOf({h \in txs : book[h] = i})
  OBVIOUS
<1>7. book \in Surjection(txs, names) /\ book \in [txs -> names]
  BY DEF Surjection
<1> HIDE DEF amounts, volumes, key, txs
<1>8. IsFiniteSet(txs) /\ IsFiniteSet(names)
  <2>1. IsFiniteSet(txs)
    BY <1>1, <1>2, ValuesFinite
  <2> QED
    BY <1>7, <2>1, FS_Surjection
<1>9. ASSUME NEW h \in txs
      PROVE  volumes[h] = SumFunctionOnSet(amounts, {i \in Transfers : key[i] = h}) /\ volumes[h] \in Int
  <2>1. LegsOf(h) \in SUBSET DOMAIN journal
    BY <1>1 DEF LegsOf
  <2>2. Volume(LegsOf(h)) \in Nat
    BY <2>1, VolumeIs
  <2> QED
    BY <1>4, <1>5, <2>2
<1>10. SumFunctionOnSet(volumes, txs) = SumFunctionOnSet(amounts, Transfers)
  <2> DEFINE part == [h \in txs |-> {i \in Transfers : key[i] = h}]
  <2>1. \A h \in txs : /\ part[h] \in SUBSET Transfers
                       /\ \A i \in Transfers : i \in part[h] <=> key[i] = h
                       /\ volumes[h] = SumFunctionOnSet(amounts, part[h])
    BY <1>9
  <2>2. IsFiniteSet(Transfers) /\ IsFiniteSet(txs) /\ key \in [Transfers -> txs]
    BY <1>1, <1>2, <1>8
  <2> HIDE DEF part
  <2> QED
    BY <1>3, <2>1, <2>2, SumGroups
<1>11. ASSUME NEW i \in names
       PROVE  totals[i] = SumFunctionOnSet(volumes, {h \in txs : book[h] = i})
  <2> DEFINE own == {h \in txs : book[h] = i}
             per == [h \in own |-> Volume(LegsOf(h))]
  <2>1. totals[i] = SumFunctionOnSet(per, own)
    BY <1>6 DEF TotalOf
  <2>2. IsFiniteSet(own) /\ \A h \in own : h \in txs /\ per[h] = Volume(LegsOf(h))
    BY <1>8, FS_Subset
  <2> HIDE DEF own, per
  <2>3. \A h \in own : volumes[h] \in Int /\ per[h] = volumes[h]
    BY <1>4, <1>9, <2>2
  <2>4. SumFunctionOnSet(per, own) = SumFunctionOnSet(volumes, own)
    BY <2>2, <2>3, SumSame
  <2> QED
    BY <2>1, <2>4 DEF own
<1>12. SumFunctionOnSet(totals, names) = SumFunctionOnSet(volumes, txs)
  <2> DEFINE part == [i \in names |-> {h \in txs : book[h] = i}]
  <2>1. \A i \in names : /\ part[i] \in SUBSET txs
                         /\ \A h \in txs : h \in part[i] <=> book[h] = i
                         /\ totals[i] = SumFunctionOnSet(volumes, part[i])
    BY <1>11
  <2>2. \A h \in txs : volumes[h] \in Int
    BY <1>9
  <2>3. IsFiniteSet(txs) /\ IsFiniteSet(names) /\ book \in [txs -> names]
    BY <1>7, <1>8
  <2> HIDE DEF part
  <2> QED
    BY <2>1, <2>2, <2>3, SumGroups
<1> QED
  BY <1>5, <1>10, <1>12

\* Every trap and every release has its row, and no row lacks one.
LEMMA RowsAreFlips ==
    ASSUME journal \in Journals
    PROVE  /\ {r.tx : r \in VaultRows} = {e.tx : e \in VaultFlips}
           /\ \A e \in VaultFlips : \E r \in VaultRows :
                 /\ r.tx = e.tx /\ r.addr = e.from
                 /\ IF e.flag = "true" THEN r.trappedHere ELSE r.releasedHere
<1> DEFINE mine(h, a) == {i \in Vaults : journal[i].tx = h /\ journal[i].from = a}
           row(h, a) == [tx |-> h, addr |-> a, label |-> DescribeAddress(a, TxSource(h)),
                         trappedHere |-> Flagged(mine(h, a), "true") > 0,
                         releasedHere |-> Flagged(mine(h, a), "false") > 0,
                         inflow |-> Received(LegsOf(h), a), outflow |-> Sent(LegsOf(h), a)]
<1>1. VaultRows = {row(journal[i].tx, journal[i].from) : i \in Vaults}
  BY DEF VaultRows
<1>2. Vaults \in SUBSET DOMAIN journal /\ \A i \in DOMAIN journal :
         i \in Vaults <=> journal[i].name = "vaulted" /\ InWindow(journal[i])
  BY DEF Vaults, ByName, Events
<1>3. VaultFlips = {journal[i] : i \in Vaults}
  BY <1>2, StoreIs DEF VaultFlips
<1>4. \A h, a : row(h, a).tx = h /\ row(h, a).addr = a
                /\ row(h, a).trappedHere = (Flagged(mine(h, a), "true") > 0)
                /\ row(h, a).releasedHere = (Flagged(mine(h, a), "false") > 0)
  OBVIOUS
<1>5. ASSUME NEW i \in Vaults, NEW flag, journal[i].flag = flag
      PROVE  Flagged(mine(journal[i].tx, journal[i].from), flag) > 0
  <2> DEFINE M == mine(journal[i].tx, journal[i].from)
             R == {k \in M : journal[k].flag = flag}
  <2>1. i \in R /\ R \in SUBSET DOMAIN journal
    BY <1>2, <1>5
  <2>2. Flagged(M, flag) = Cardinality(R)
    BY DEF Flagged
  <2> HIDE DEF R, M
  <2>3. IsFiniteSet(R) /\ Cardinality(R) \in Nat
    BY <2>1, StoreIs, FS_Subset, FS_CardinalityType
  <2>4. Cardinality(R) # 0
    BY <2>1, <2>3, FS_EmptySet
  <2>5. Flagged(M, flag) > 0
    BY <2>2, <2>3, <2>4
  <2> QED
    BY <2>5 DEF M
<1> HIDE DEF row, mine
<1>6. {r.tx : r \in VaultRows} = {e.tx : e \in VaultFlips}
  BY <1>1, <1>3, <1>4
<1>7. ASSUME NEW e \in VaultFlips
      PROVE  \E r \in VaultRows : /\ r.tx = e.tx /\ r.addr = e.from
                                  /\ IF e.flag = "true" THEN r.trappedHere ELSE r.releasedHere
  <2>1. PICK i \in Vaults : e = journal[i]
    BY <1>3, <1>7
  <2> DEFINE r == row(journal[i].tx, journal[i].from)
  <2>2. r \in VaultRows /\ r.tx = e.tx /\ r.addr = e.from
    BY <1>1, <1>4, <2>1
  <2>3. /\ r.trappedHere = (Flagged(mine(journal[i].tx, journal[i].from), "true") > 0)
        /\ r.releasedHere = (Flagged(mine(journal[i].tx, journal[i].from), "false") > 0)
    BY <1>4
  <2>4. e.flag \in {"true", "false"}
    BY <1>2, <2>1, StoreIs
  <2> HIDE DEF r
  <2>5. CASE e.flag = "true"
    BY <1>5, <2>1, <2>2, <2>3, <2>5
  <2>6. CASE e.flag = "false"
    BY <1>5, <2>1, <2>2, <2>3, <2>6
  <2> QED
    BY <2>4, <2>5, <2>6
<1> QED
  BY <1>6, <1>7

\* The report that is written is complete.
LEMMA WrittenIsComplete == ASSUME journal \in Journals, WriteReport PROVE ReportIsComplete'
<1> DEFINE book == [h \in TxsByHash |-> PlaybookOf(h)]
           names == {book[h] : h \in TxsByHash}
           group == [i \in names |-> {h \in TxsByHash : book[h] = i}]
           groups == contents'.groups
<1>1. /\ journal' = journal /\ groups = [i \in names |-> {Entry(h) : h \in group[i]}]
      /\ contents'.totals = [i \in names |-> TotalOf(group[i])]
      /\ contents'.summary = Summary /\ contents'.rows = VaultRows
  <2>1. \E first \in [DOMAIN group -> TxsByHash] :
           /\ \A i \in DOMAIN group : first[i] \in Latest(group[i])
           /\ contents' =
                 [written  |-> TRUE,
                  groups   |-> [i \in DOMAIN group |-> {Entry(h) : h \in group[i]}],
                  totals   |-> [i \in DOMAIN group |-> TotalOf(group[i])],
                  examples |-> [i \in DOMAIN group |-> Example(first[i])],
                  summary  |-> Summary, rows |-> VaultRows]
    BY DEF WriteReport
  <2>2. DOMAIN group = names /\ journal' = journal
    BY DEF WriteReport
  <2> HIDE DEF group, names
  <2> QED
    BY <2>1, <2>2
<1>2. /\ DOMAIN groups = names /\ \A h \in TxsByHash : PlaybookOf(h) \in names
      /\ \A i \in names : \A h : h \in group[i] <=> h \in TxsByHash /\ PlaybookOf(h) = i
  <2>1. \A i \in names : \A h : h \in group[i] <=> h \in TxsByHash /\ PlaybookOf(h) = i
    OBVIOUS
  <2>2. \A h \in TxsByHash : PlaybookOf(h) \in names
    OBVIOUS
  <2> HIDE DEF group, names
  <2> QED
    BY <1>1, <2>1, <2>2
<1>3. Moving' = Moving /\ VaultFlips' = VaultFlips
  BY <1>1 DEF Moving, VaultFlips, InWindow
<1>4. Moving = {journal[i] : i \in Transfers}
  <2>1. \A i : i \in Transfers <=> i \in DOMAIN journal /\ journal[i] \in Moving
    BY StoreIs DEF Transfers, ByName, Events, Moving
  <2> QED
    BY <2>1, StoreIs DEF Moving
<1>5. \A h : h \in TxsByHash <=> \E e \in Moving : e.tx = h
  BY <1>4 DEF TxsByHash
<1>6. TotalsAreVolume'
  <2>1. book \in Surjection(TxsByHash, names)
    BY DEF Surjection
  <2>2. \A i \in names : contents'.totals[i] = TotalOf({h \in TxsByHash : book[h] = i})
    BY <1>1
  <2>3. contents'.summary.volume = Volume(Transfers)
    BY <1>1 DEF Summary
  <2> HIDE DEF book, names, group
  <2>4. SumFunctionOnSet(contents'.totals, names) = Volume(Transfers)
    BY <2>1, <2>2, TotalsAddUp
  <2> QED
    BY <1>2, <2>3, <2>4 DEF TotalsAreVolume
<1> HIDE DEF book, names, group
<1>7. ASSUME NEW h PROVE ListedIn(h)' = IF h \in TxsByHash THEN {PlaybookOf(h)} ELSE {}
  <2>1. ListedIn(h)' = {i \in names : \E t \in groups[i] : t.tx = h}
    BY <1>2 DEF ListedIn
  <2>2. ASSUME NEW i \in names
        PROVE  (\E t \in groups[i] : t.tx = h) <=> h \in TxsByHash /\ PlaybookOf(h) = i
    <3>1. groups[i] = {Entry(g) : g \in group[i]}
      BY <1>1
    <3>2. \A g : Entry(g).tx = g
      BY DEF Entry
    <3> HIDE DEF groups
    <3> QED
      BY <1>2, <3>1, <3>2
  <2> HIDE DEF groups
  <2> QED
    BY <1>2, <2>1, <2>2
<1>8. EachIsListedOnce'
  <2>1. ASSUME NEW h \in DOMAIN Envelopes
        PROVE  Cardinality(ListedIn(h)') = IF \E e \in Moving : e.tx = h THEN 1 ELSE 0
    BY <1>5, <1>7, FS_EmptySet, FS_Singleton
  <2> QED
    BY <1>3, <2>1 DEF EachIsListedOnce
<1>9. HeadingsAreTrue'
  <2> DEFINE lent(h) == \E e \in Moving : e.tx = h /\ "flashloan" \in {KindOf(e.from), KindOf(e.to)}
             isSource(a, h) == a = IF Envelopes[h].inner = Null THEN Envelopes[h].source
                                   ELSE Envelopes[h].inner
  <2>1. ASSUME NEW h \in DOMAIN Envelopes
        PROVE  /\ lent(h) <=> ListedIn(h)' = {"flashloan-arb"}
               /\ ListedIn(h)' = {"owner-arb"} =>
                     \E e \in Moving : /\ e.tx = h /\ e.to \in DOMAIN Creators
                                       /\ isSource(Creators[e.to], h)
               /\ ListedIn(h)' = {"aggregator-third-party"} =>
                     Envelopes[h].inner # Null /\ Envelopes[h].fee # SponsorKey
    <3>1. \A i \in LegsOf(h) : journal[i] \in Moving /\ journal[i].tx = h
      BY <1>4 DEF LegsOf
    <3>2. \A e \in Moving : e.tx = h => \E i \in LegsOf(h) : e = journal[i]
      BY <1>4 DEF LegsOf
    <3>3. \A id : ListedIn(h)' = {id} => PlaybookOf(h) = id
      BY <1>7
    <3>4. (\E e \in Moving : e.tx = h) => ListedIn(h)' = {PlaybookOf(h)}
      BY <1>5, <1>7
    <3>5. lent(h) <=> ListedIn(h)' = {"flashloan-arb"}
      <4>1. lent(h) <=> PlaybookOf(h) = "flashloan-arb"
        BY <3>1, <3>2, NarrationIsTrue
      <4>2. lent(h) => \E e \in Moving : e.tx = h
        OBVIOUS
      <4> HIDE DEF lent
      <4> QED
        BY <3>3, <3>4, <4>1, <4>2
    <3>6. ASSUME ListedIn(h)' = {"owner-arb"}
          PROVE  \E e \in Moving : /\ e.tx = h /\ e.to \in DOMAIN Creators
                                   /\ isSource(Creators[e.to], h)
      <4>1. PICK i \in LegsOf(h) :
               journal[i].to \in DOMAIN Creators /\ isSource(Creators[journal[i].to], h)
        BY <3>3, <3>6, NarrationIsTrue
      <4> QED
        BY <3>1, <4>1
    <3>7. ListedIn(h)' = {"aggregator-third-party"} =>
             Envelopes[h].inner # Null /\ Envelopes[h].fee # SponsorKey
      BY <3>3, NarrationIsTrue
    <3> QED
      BY <3>5, <3>6, <3>7
  <2> QED
    BY <1>3, <2>1 DEF HeadingsAreTrue, KindOf
<1>10. LinesAreTrue'
  <2>1. ASSUME NEW i \in names, NEW t \in groups[i] PROVE LineIsTrue(i, t)
    <3>1. groups[i] = {Entry(h) : h \in group[i]}
      BY <1>1
    <3> HIDE DEF groups
    <3>2. PICK h \in group[i] : t = Entry(h)
      BY <2>1, <3>1
    <3>3. h \in DOMAIN Envelopes /\ PlaybookOf(h) = i
      BY <1>2, StoreIs DEF TxsByHash, Transfers, ByName, Events
    <3> QED
      BY <3>2, <3>3, LineOf
  <2> HIDE DEF groups
  <2>2. \A i, t : LineIsTrue(i, t)' <=> LineIsTrue(i, t)
    BY DEF LineIsTrue
  <2> QED
    BY <1>2, <2>1, <2>2 DEF LinesAreTrue, groups
<1>11. FlipsHaveRows'
  BY <1>1, <1>3, RowsAreFlips DEF FlipsHaveRows
<1> QED
  BY <1>6, <1>8, <1>9, <1>10, <1>11 DEF ReportIsComplete

\* contract-report.mjs:705-709, 862-864.  Every transaction that moved HITZ is
\* narrated once, the groups add up to the month and every flip has its row, for
\* any stores, caches, envelopes and lookups that fail.  What is said of an
\* initiator is so, but for the heading of routed swaps without an envelope.
THEOREM ReportAlwaysComplete == ContentsSpec => []ReportIsComplete
<1> DEFINE Inv == journal \in Journals /\ ReportIsComplete
<1>1. ContentsInit => Inv
  BY DEF ContentsInit, Unwritten, ReportIsComplete
<1>2. Inv /\ [ContentsNext]_contentsVars => Inv'
  <2> SUFFICES ASSUME Inv, [ContentsNext]_contentsVars PROVE Inv'
    OBVIOUS
  <2>1. ASSUME UNCHANGED <<journal, contents>> PROVE Inv'
    <3>1. Moving' = Moving /\ VaultFlips' = VaultFlips /\ \A h : ListedIn(h)' = ListedIn(h)
      BY <2>1 DEF Moving, VaultFlips, InWindow, ListedIn
    <3>2. EachIsListedOnce' = EachIsListedOnce /\ TotalsAreVolume' = TotalsAreVolume
      BY <2>1, <3>1 DEF EachIsListedOnce, TotalsAreVolume
    <3>3. HeadingsAreTrue' = HeadingsAreTrue
      BY <3>1 DEF HeadingsAreTrue, KindOf
    <3>4. LinesAreTrue' = LinesAreTrue
      BY <2>1 DEF LinesAreTrue, LineIsTrue
    <3>5. FlipsHaveRows' = FlipsHaveRows
      BY <2>1, <3>1 DEF FlipsHaveRows
    <3> QED
      BY <2>1, <3>2, <3>3, <3>4, <3>5 DEF ReportIsComplete
  <2>2. CASE WriteReport
    <3>1. journal' = journal
      BY <2>2 DEF WriteReport
    <3> QED
      BY <2>2, <3>1, WrittenIsComplete
  <2>3. CASE ~WriteReport
    BY <2>1, <2>3 DEF ContentsNext, FetchContractInfo, FetchTxInfo, contentsVars
  <2> QED
    BY <2>2, <2>3
<1> QED
  BY <1>1, <1>2, PTL DEF ContentsSpec
=============================================================================
