--------------------------- MODULE EventIngestProofs ---------------------------
(***************************************************************************)
(* What both cursors of the ingestion promise, for every history, every    *)
(* page, scan and lookup budget and any number of overlapping runs.  The   *)
(* invariant tells what a run may rely on while it holds a page (all       *)
(* before the page is stored or lost) or a plan (all before it is          *)
(* enriched, and what it needs is known or still in the plan).             *)
(***************************************************************************)
EXTENDS EventIngest, SumTheorems

\* All up to n is stored, or was forgotten before anybody asked.
Kept(n) == 1..n \subseteq events \cup lost

TablesOK ==
    /\ now \in Nat /\ tip \in 0..Len(Log) /\ floor \in 0..tip
    /\ events \in SUBSET EventId /\ lost \in SUBSET (1..floor)
    /\ info \in SUBSET NeedsOf(EventId)
    /\ cursor \in Cursor /\ enriched \in 0..Len(Log)
    /\ faults \in 0..MaxFaults
    /\ enriched = 0 \/ \E i \in events : enriched <= i

KeptOK ==
    /\ Kept(floor)
    /\ cursor # None => Kept(cursor)
    /\ \A i \in events : Kept(i)

\* A run's memory, and what its page stands for.
PageOK(m) ==
    /\ m.pc \in Step /\ m.at \in Cursor /\ m.page \in 0..tip
    /\ m.pages \in 0..EventPages /\ m.more \in BOOLEAN
    /\ m.pc = "fetch" /\ m.at # None => Kept(m.at)
    /\ m.pc = "store" => m.at # None /\ floor <= m.at /\ Kept(m.at)
    /\ m.pc = "move" => Kept(m.page)

\* And its plan.
PlanOK(m) ==
    /\ m.ids \in SUBSET events /\ m.plan \in SUBSET NeedsOf(EventId)
    /\ NeedsOf(m.ids) \subseteq info \cup m.plan
    /\ \A i \in m.ids, j \in events :
          j < i => j \in m.ids \/ Needs(j) \subseteq info

RunsOK ==
    /\ DOMAIN run = Run
    /\ \A r \in Run :
          /\ DOMAIN run[r] = {"pc", "at", "pages", "page", "more", "ids", "plan"}
          /\ PageOK(run[r]) /\ PlanOK(run[r])

IngestInv == TablesOK /\ KeptOK /\ EnrichedBehindCursor /\ RunsOK

-----------------------------------------------------------------------------
(* Finite sets.                                                            *)

\* Every event has a time.
LEMMA TimesOK == \A i \in EventId : Log[i].ts \in Nat
<1> DEFINE T == Seq(UNION {Range(e.topics) : e \in Range(Log)})
           R == [ts : Nat, tx : {e.tx : e \in Range(Log)},
                 name : {e.name : e \in Range(Log)}, topics : T]
<1>1. Log \in Seq(R)
  BY EventAssumption
<1> HIDE DEF T
<1>2. \A e \in R : e.ts \in Nat
  OBVIOUS
<1> HIDE DEF R
<1>3. \A i \in EventId : Log[i] \in R
  BY <1>1 DEF EventId
<1> QED
  BY <1>2, <1>3

\* An event needs finitely many lookups, and so do finitely many events.
LEMMA NeedsFinite ==
    ASSUME NEW S \in SUBSET EventId
    PROVE  IsFiniteSet(S) /\ IsFiniteSet(NeedsOf(S))
<1>1. IsFiniteSet(S)
  <2>1. Len(Log) \in Nat
    BY EventAssumption
  <2>2. IsFiniteSet(1..Len(Log))
    BY <2>1, FS_Interval
  <2> QED
    BY <2>2, FS_Subset DEF EventId
<1>2. ASSUME NEW i \in EventId, NEW n PROVE IsFiniteSet(Mentioned(Log[i], n))
  <2> DEFINE e == Log[i]
             D == {j \in DOMAIN e.topics : j <= n /\ e.topics[j] \in Contract}
             f == [j \in D |-> ContractLookup(e.topics[j])]
             T == {ContractLookup(e.topics[j]) : j \in D}
  <2>1. IsFiniteSet(D)
    <3>1. DOMAIN e.topics = 1..Len(e.topics) /\ Len(e.topics) \in Nat
      BY EventAssumption DEF EventId
    <3>2. D \in SUBSET (1..Len(e.topics))
      BY <3>1
    <3>3. IsFiniteSet(1..Len(e.topics))
      BY <3>1, FS_Interval
    <3> HIDE DEF D, e
    <3> QED
      BY <3>2, <3>3, FS_Subset
  <2>2. f \in Surjection(D, T)
    BY DEF Surjection
  <2>3. IsFiniteSet(T)
    BY <2>1, <2>2, FS_Surjection
  <2> QED
    BY <2>3 DEF Mentioned
<1>3. ASSUME NEW i \in EventId PROVE IsFiniteSet(Needs(i))
  <2>1. IsFiniteSet({TxLookup(Log[i].tx)} \cup Mentioned(Log[i], 2))
    BY <1>2, FS_Singleton, FS_Union
  <2> QED
    BY <1>2, <2>1, FS_EmptySet DEF Needs
<1>4. IsFiniteSet(NeedsOf(S))
  <2> DEFINE f == [i \in S |-> Needs(i)]
             T == {Needs(i) : i \in S}
  <2>1. f \in Surjection(S, T)
    BY DEF Surjection
  <2>2. IsFiniteSet(T)
    BY <1>1, <2>1, FS_Surjection
  <2>3. \A x \in T : IsFiniteSet(x)
    BY <1>3
  <2> HIDE DEF T
  <2>4. IsFiniteSet(UNION T)
    BY <2>2, <2>3, FS_UNION
  <2> QED
    BY <2>4 DEF T, NeedsOf
<1> QED
  BY <1>1, <1>4

\* A budget that holds all lookups holds fewer.
LEMMA BudgetMonotone ==
    ASSUME NEW B, IsFiniteSet(B), NEW A \in SUBSET B, WithinBudget(B)
    PROVE  WithinBudget(A)
<1>1. ASSUME NEW kind
      PROVE  /\ Cardinality(OfKind(A, kind)) \in Nat /\ Cardinality(OfKind(B, kind)) \in Nat
             /\ Cardinality(OfKind(A, kind)) <= Cardinality(OfKind(B, kind))
  <2>1. OfKind(B, kind) \in SUBSET B /\ OfKind(A, kind) \in SUBSET OfKind(B, kind)
    BY DEF OfKind
  <2>2. IsFiniteSet(OfKind(B, kind)) /\ IsFiniteSet(OfKind(A, kind))
    BY <2>1, FS_Subset
  <2> QED
    BY <2>1, <2>2, FS_Subset, FS_CardinalityType
<1>2. TxLookups \in Nat /\ ContractLookups \in Nat
  BY EventAssumption
<1> QED
  BY <1>1, <1>2 DEF WithinBudget

\* What a plan covers is an initial part of the events not yet enriched.
LEMMA CoveredIsInitial ==
    ASSUME NEW i \in Covered(Scanned), NEW j \in events, j < i, j > enriched,
           events \in SUBSET EventId, enriched \in Nat
    PROVE  j \in Covered(Scanned)
<1> DEFINE left == {k \in events : k > enriched}
           Earlier(k) == {l \in left : l < k}
<1>1. /\ i \in Scanned /\ i \in left /\ j \in left
      /\ Cardinality(Earlier(i)) < EnrichScan
  BY DEF Covered, Scanned, Oldest
<1>2. i \in Nat /\ j \in Nat /\ \A k \in events : k \in Nat
  BY <1>1 DEF EventId
<1>3. Cardinality(Earlier(j)) < EnrichScan
  <2>1. Earlier(j) \in SUBSET Earlier(i) /\ Earlier(i) \in SUBSET EventId
    <3>1. \A k \in left : k \in Nat /\ (k < j => k < i)
      BY <1>2
    <3> QED
      BY <3>1
  <2> HIDE DEF Earlier
  <2>2. IsFiniteSet(Earlier(i)) /\ IsFiniteSet(Earlier(j))
    BY <2>1, NeedsFinite, FS_Subset
  <2>3. /\ Cardinality(Earlier(j)) <= Cardinality(Earlier(i))
        /\ Cardinality(Earlier(j)) \in Nat /\ Cardinality(Earlier(i)) \in Nat
    BY <2>1, <2>2, FS_Subset, FS_CardinalityType
  <2> QED
    BY <1>1, <2>3, EventAssumption
<1>4. j \in Scanned
  BY <1>1, <1>3 DEF Scanned, Oldest
<1>5. WithinBudget(NeedsOf(UpTo(Scanned, j)) \ info)
  <2>1. UpTo(Scanned, j) \subseteq UpTo(Scanned, i) /\ UpTo(Scanned, i) \in SUBSET EventId
    <3>1. \A k \in Scanned : k \in EventId /\ k \in Nat /\ (k <= j => k <= i)
      BY <1>2 DEF Scanned, Oldest
    <3> QED
      BY <3>1 DEF UpTo
  <2>2. NeedsOf(UpTo(Scanned, j)) \ info \in SUBSET (NeedsOf(UpTo(Scanned, i)) \ info)
    BY <2>1 DEF NeedsOf
  <2>3. IsFiniteSet(NeedsOf(UpTo(Scanned, i)) \ info)
    BY <2>1, NeedsFinite, FS_Subset
  <2>4. WithinBudget(NeedsOf(UpTo(Scanned, i)) \ info)
    BY DEF Covered
  <2> QED
    BY <2>2, <2>3, <2>4, BudgetMonotone
<1> QED
  BY <1>4, <1>5 DEF Covered

-----------------------------------------------------------------------------
(* What the predicates depend on, and what only lets them grow.            *)

\* A page in memory stays sound while tables, losses and the chain grow.
LEMMA PageStays ==
    ASSUME NEW m, TablesOK, PageOK(m), events \subseteq events', lost \subseteq lost',
           tip' \in Nat, tip <= tip', m.pc = "store" => floor' <= m.at
    PROVE  PageOK(m)'
BY DEF TablesOK, PageOK, Kept

\* And a plan, when new events come behind all others.
LEMMA PlanStays ==
    ASSUME NEW m, PlanOK(m), events \subseteq events', info \subseteq info',
           events' \in SUBSET EventId, events \in SUBSET EventId,
           \A i \in events, j \in events' \ events : i < j
    PROVE  PlanOK(m)'
<1>1. \A i \in m.ids, j \in events' : j < i => j \in events
  <2>1. \A i \in events' : i \in Nat
    BY EventAssumption DEF EventId
  <2>2. \A i \in m.ids : i \in events
    BY DEF PlanOK
  <2> QED
    BY <2>1, <2>2
<1>2. NeedsOf(m.ids)' = NeedsOf(m.ids) /\ NeedsOf(EventId)' = NeedsOf(EventId)
  BY DEF NeedsOf
<1> QED
  BY <1>1, <1>2 DEF PlanOK

\* An empty memory is sound wherever it is.
LEMMA FreshIsSound ==
    ASSUME TablesOK, NEW pc \in Step \ {"store", "move"}
    PROVE  /\ DOMAIN Fresh(pc) = {"pc", "at", "pages", "page", "more", "ids", "plan"}
           /\ PageOK(Fresh(pc)) /\ PlanOK(Fresh(pc))
           /\ Fresh(pc).pc = pc
BY EventAssumption DEF Fresh, PageOK, PlanOK, NeedsOf, Cursor, TablesOK

\* A step of one run that stores no event.
LEMMA RunMoves ==
    ASSUME IngestInv, UNCHANGED <<tip, floor, events, lost>>, info \subseteq info',
           TablesOK', KeptOK', EnrichedBehindCursor', NEW r \in Run, NEW m,
           DOMAIN m = {"pc", "at", "pages", "page", "more", "ids", "plan"},
           PageOK(m), PlanOK(m)', run' = [run EXCEPT ![r] = m]
    PROVE  IngestInv'
<1>1. TablesOK /\ events \in SUBSET EventId
  BY DEF IngestInv, TablesOK
<1>2. ASSUME NEW n, PageOK(n) PROVE PageOK(n)'
  BY <1>2 DEF PageOK, Kept
<1>3. ASSUME NEW n, PlanOK(n) PROVE PlanOK(n)'
  BY <1>1, <1>3, PlanStays
<1>4. ASSUME NEW q \in Run, NEW n, n = run'[q]
      PROVE  /\ DOMAIN n = {"pc", "at", "pages", "page", "more", "ids", "plan"}
             /\ PageOK(n)' /\ PlanOK(n)'
  <2>1. CASE q = r
    <3>1. n = m
      BY <1>4, <2>1 DEF IngestInv, RunsOK
    <3> QED
      BY <1>2, <3>1
  <2>2. CASE q # r
    <3>1. n = run[q]
      BY <1>4, <2>2 DEF IngestInv, RunsOK
    <3> QED
      BY <1>2, <1>3, <3>1 DEF IngestInv, RunsOK
  <2> QED
    BY <2>1, <2>2
<1>5. RunsOK'
  BY <1>4 DEF IngestInv, RunsOK
<1> QED
  BY <1>5 DEF IngestInv

\* And one that leaves the tables alone.
LEMMA OneRunMoves ==
    ASSUME IngestInv, UNCHANGED <<now, tip, floor, events, info, cursor, enriched, lost>>,
           faults' \in 0..MaxFaults, NEW r \in Run, NEW m,
           DOMAIN m = {"pc", "at", "pages", "page", "more", "ids", "plan"},
           PageOK(m), PlanOK(m), run' = [run EXCEPT ![r] = m]
    PROVE  IngestInv'
<1>1. TablesOK' /\ KeptOK' /\ EnrichedBehindCursor'
  BY DEF IngestInv, TablesOK, KeptOK, Kept, EnrichedBehindCursor
<1>2. PlanOK(m)'
  BY DEF PlanOK
<1> QED
  BY <1>1, <1>2, RunMoves

-----------------------------------------------------------------------------
LEMMA IngestStarts == Init => IngestInv
<1> SUFFICES ASSUME Init PROVE IngestInv
  OBVIOUS
<1>1. TablesOK /\ KeptOK /\ EnrichedBehindCursor
  BY EventAssumption DEF Init, TablesOK, KeptOK, Kept, EnrichedBehindCursor, Cursor, NeedsOf
<1>2. RunsOK
  BY <1>1, FreshIsSound DEF Init, RunsOK, Step
<1> QED
  BY <1>1, <1>2 DEF IngestInv

\* A run that leaves a step remembers nothing of it.
LEMMA LeaveStep ==
    ASSUME IngestInv, UNCHANGED <<now, tip, floor, events, info, cursor, enriched, lost>>,
           faults' \in 0..MaxFaults, NEW r \in Run, NEW pc \in Step \ {"store", "move"},
           Leave(r, pc)
    PROVE  IngestInv'
<1>1. TablesOK
  BY DEF IngestInv
<1> QED
  BY <1>1, FreshIsSound, OneRunMoves DEF Leave

\* The next page is asked for behind the last one, or the step is over.
LEMMA NextPageMemory ==
    ASSUME IngestInv, NEW r \in Run, NEW at \in Cursor, at # None => Kept(at),
           NEW more, NextPage(r, at, more)
    PROVE  \E m : /\ DOMAIN m = {"pc", "at", "pages", "page", "more", "ids", "plan"}
                  /\ PageOK(m) /\ PlanOK(m) /\ run' = [run EXCEPT ![r] = m]
<1>1. TablesOK
  BY DEF IngestInv
<1>2. CASE more /\ run[r].pages + 1 < EventPages
  <2> DEFINE m == [Fresh("fetch") EXCEPT !.at = at, !.pages = run[r].pages + 1]
  <2>1. run' = [run EXCEPT ![r] = m]
    BY <1>2 DEF NextPage
  <2>2. run[r].pages + 1 \in 0..EventPages
    BY <1>2, EventAssumption DEF IngestInv, RunsOK, PageOK
  <2>3. DOMAIN m = {"pc", "at", "pages", "page", "more", "ids", "plan"} /\ PageOK(m) /\ PlanOK(m)
    BY <1>1, <2>2, EventAssumption DEF Fresh, PageOK, PlanOK, NeedsOf, TablesOK, Step
  <2> HIDE DEF m
  <2> QED
    BY <2>1, <2>3
<1>3. CASE ~ (more /\ run[r].pages + 1 < EventPages)
  <2>1. run' = [run EXCEPT ![r] = Fresh("enrich")]
    BY <1>3 DEF NextPage, Leave
  <2> QED
    BY <1>1, <2>1, FreshIsSound DEF Step
<1> QED
  BY <1>2, <1>3

LEMMA StartRunStep == ASSUME IngestInv, NEW r \in Run, StartRun(r) PROVE IngestInv'
<1> DEFINE m == [Fresh("fetch") EXCEPT !.at = cursor]
<1>1. /\ run' = [run EXCEPT ![r] = m] /\ faults' \in 0..MaxFaults
      /\ UNCHANGED <<now, tip, floor, events, info, cursor, enriched, lost>>
  BY DEF StartRun, chain, tables, IngestInv, TablesOK
<1>2. TablesOK /\ cursor \in Cursor /\ (cursor # None => Kept(cursor))
  BY DEF IngestInv, TablesOK, KeptOK
<1>3. DOMAIN m = {"pc", "at", "pages", "page", "more", "ids", "plan"} /\ PageOK(m) /\ PlanOK(m)
  BY <1>2, EventAssumption DEF Fresh, PageOK, PlanOK, NeedsOf, TablesOK, Step
<1> HIDE DEF m
<1> QED
  BY <1>1, <1>3, OneRunMoves

LEMMA FetchStaleStep == ASSUME IngestInv, NEW r \in Run, FetchStale(r) PROVE IngestInv'
<1>1. /\ UNCHANGED <<now, tip, floor, events, info, cursor, enriched, lost, faults>>
      /\ None \in Cursor /\ NextPage(r, None, TRUE) /\ faults \in 0..MaxFaults
  BY DEF FetchStale, chain, tables, Cursor, IngestInv, TablesOK
<1> QED
  BY <1>1, NextPageMemory, OneRunMoves

LEMMA FetchPageStep == ASSUME IngestInv, NEW r \in Run, FetchPage(r) PROVE IngestInv'
<1> DEFINE from == ScanFrom(run[r].at)
<1>1. PICK last \in from..tip :
         run' = [run EXCEPT ![r].pc = "store", ![r].at = from,
                            ![r].page = last, ![r].more = last < tip]
  BY DEF FetchPage
<1>2. /\ run[r].pc = "fetch" /\ from >= floor /\ faults' \in 0..MaxFaults
      /\ UNCHANGED <<now, tip, floor, events, info, cursor, enriched, lost>>
  BY DEF FetchPage, chain, tables, IngestInv, TablesOK
<1>3. /\ from \in 0..Len(Log) /\ from # None /\ Kept(from)
  <2>1. /\ floor \in 0..Len(Log) /\ Kept(floor)
        /\ run[r].at \in Cursor /\ (run[r].at # None => Kept(run[r].at))
    BY <1>2 DEF IngestInv, TablesOK, KeptOK, RunsOK, PageOK
  <2>2. None \notin 0..Len(Log)
    BY EventAssumption
  <2> QED
    BY <2>1, <2>2 DEF ScanFrom, Cursor
<1> HIDE DEF from
<1> DEFINE old == run[r]
           m == [old EXCEPT !.pc = "store", !.at = from, !.page = last, !.more = last < tip]
<1>4. run' = [run EXCEPT ![r] = m]
  BY <1>1 DEF IngestInv, RunsOK
<1>5. /\ DOMAIN old = {"pc", "at", "pages", "page", "more", "ids", "plan"}
      /\ PageOK(old) /\ PlanOK(old)
  BY DEF IngestInv, RunsOK
<1> HIDE DEF old
<1>6. /\ DOMAIN m = DOMAIN old /\ m.pc = "store" /\ m.at = from /\ m.page = last
      /\ m.more = (last < tip) /\ m.pages = old.pages /\ m.ids = old.ids /\ m.plan = old.plan
  BY <1>5
<1> HIDE DEF m
<1>7. PageOK(m) /\ PlanOK(m)
  <2>1. last \in 0..tip
    BY <1>1, <1>3 DEF IngestInv, TablesOK
  <2> QED
    BY <1>2, <1>3, <1>5, <1>6, <2>1 DEF PageOK, PlanOK, Step, Cursor
<1> QED
  BY <1>2, <1>4, <1>5, <1>6, <1>7, OneRunMoves

\* A page is inserted: its events are stored already, or come behind all others.
LEMMA StoreEventsStep == ASSUME IngestInv, NEW r \in Run, StoreEvents(r) PROVE IngestInv'
<1>a. PICK old : old = run[r]
  OBVIOUS
<1>b. PICK m : m = [old EXCEPT !.pc = "move"]
  OBVIOUS
<1> DEFINE new == (old.at + 1)..old.page
<1>1. /\ UNCHANGED <<now, tip, floor, info, cursor, enriched, lost, faults>>
      /\ events' = events \cup new /\ old.pc = "store"
  BY <1>a DEF StoreEvents, chain
<1>2. run' = [run EXCEPT ![r] = m]
  BY <1>a, <1>b DEF StoreEvents, Goto, IngestInv, RunsOK
<1>3. /\ TablesOK /\ KeptOK /\ EnrichedBehindCursor
      /\ \A q \in Run : PageOK(run[q]) /\ PlanOK(run[q])
      /\ DOMAIN old = {"pc", "at", "pages", "page", "more", "ids", "plan"}
  BY <1>a DEF IngestInv, RunsOK
<1>4. PageOK(old) /\ PlanOK(old)
  BY <1>a, <1>3
<1>5. /\ DOMAIN m = DOMAIN old /\ m.pc = "move" /\ m.at = old.at /\ m.page = old.page
      /\ m.more = old.more /\ m.pages = old.pages /\ m.ids = old.ids /\ m.plan = old.plan
  BY <1>b, <1>3
<1>6. /\ old.at \in Nat /\ old.page \in Nat /\ floor \in Nat /\ floor <= old.at
      /\ old.page <= tip /\ tip \in Nat /\ tip <= Len(Log) /\ Kept(old.at) /\ Len(Log) \in Nat
  BY <1>1, <1>3, <1>4, EventAssumption DEF PageOK, TablesOK, Cursor
<1>7. new \in SUBSET EventId /\ events' \in SUBSET EventId /\ events \subseteq events'
  <2>1. new \in SUBSET EventId
    BY <1>6 DEF EventId
  <2> QED
    BY <1>1, <1>3, <2>1 DEF TablesOK
<1>8. \A i \in new : Kept(i)'
  <2>1. \A i \in new : 1..i \subseteq 1..old.at \cup new
    BY <1>6
  <2> QED
    BY <1>1, <1>6, <2>1 DEF Kept
<1>9. \A n : Kept(n) => Kept(n)'
  BY <1>1 DEF Kept
<1>10. \A i \in events, j \in events' \ events : i < j
  <2> SUFFICES ASSUME NEW i \in events, NEW j \in new, j \notin events PROVE i < j
    BY <1>1
  <2>1. i \in Nat /\ i >= 1 /\ j \in Nat /\ j > floor
    BY <1>3, <1>6 DEF TablesOK, EventId
  <2>2. j \notin lost
    BY <1>3, <1>6, <2>1 DEF TablesOK
  <2>3. j \notin 1..i
    BY <1>3, <2>2 DEF KeptOK, Kept
  <2> QED
    BY <1>6, <2>1, <2>3
<1>11. TablesOK'
  BY <1>1, <1>3, <1>7 DEF TablesOK, NeedsOf
<1>12. KeptOK'
  BY <1>1, <1>3, <1>8, <1>9 DEF KeptOK
<1>13. EnrichedBehindCursor'
  <2> SUFFICES ASSUME NEW j \in events', j <= enriched PROVE Needs(j) \subseteq info
    BY <1>1 DEF EnrichedBehindCursor
  <2>1. j \in events
    <3> SUFFICES ASSUME j \notin events PROVE FALSE
      OBVIOUS
    <3>1. j \in Nat /\ j >= 1 /\ enriched \in Nat /\ \A i \in events : i \in Nat /\ i < j
      BY <1>3, <1>7, <1>10 DEF TablesOK, EventId
    <3> QED
      BY <1>3, <3>1 DEF TablesOK
  <2> QED
    BY <1>3, <2>1 DEF EnrichedBehindCursor
<1>14. ASSUME NEW q \in Run, NEW mem, mem = run'[q]
       PROVE  /\ DOMAIN mem = {"pc", "at", "pages", "page", "more", "ids", "plan"}
              /\ PageOK(mem)' /\ PlanOK(mem)'
  <2>1. ASSUME NEW n, PageOK(n), PlanOK(n) PROVE PageOK(n)' /\ PlanOK(n)'
    <3>1. PageOK(n)'
      BY <1>1, <1>3, <1>6, <1>7, <2>1, PageStays DEF PageOK
    <3>2. PlanOK(n)'
      BY <1>1, <1>3, <1>7, <1>10, <2>1, PlanStays DEF TablesOK
    <3> QED
      BY <3>1, <3>2
  <2>2. CASE q = r
    <3>1. mem = m
      BY <1>2, <1>14, <2>2 DEF IngestInv, RunsOK
    <3>2. PageOK(old)' /\ PlanOK(m)'
      BY <1>4, <1>5, <2>1 DEF PlanOK
    <3>3. Kept(m.page)'
      <4>1. CASE new = {}
        <5>1. 1..old.page \subseteq 1..old.at
          BY <1>6, <4>1
        <5> QED
          BY <1>1, <1>5, <1>6, <5>1 DEF Kept
      <4>2. CASE new # {}
        <5>1. old.page \in new
          BY <1>6, <4>2
        <5> QED
          BY <1>5, <1>8, <5>1
      <4> QED
        BY <4>1, <4>2
    <3>4. PageOK(m)'
      BY <1>5, <3>2, <3>3 DEF PageOK, Step
    <3> QED
      BY <1>3, <1>5, <3>1, <3>2, <3>4
  <2>3. CASE q # r
    <3>1. mem = run[q]
      BY <1>2, <1>14, <2>3 DEF IngestInv, RunsOK
    <3> QED
      BY <2>1, <3>1 DEF IngestInv, RunsOK
  <2> QED
    BY <2>2, <2>3
<1>15. RunsOK'
  BY <1>2, <1>14 DEF IngestInv, RunsOK
<1> QED
  BY <1>11, <1>12, <1>13, <1>15 DEF IngestInv

\* Its cursor promises no more than the page holds.
LEMMA MoveEventCursorStep == ASSUME IngestInv, NEW r \in Run, MoveEventCursor(r) PROVE IngestInv'
<1>1. /\ run[r].pc = "move" /\ cursor' = run[r].page /\ NextPage(r, run[r].page, run[r].more)
      /\ UNCHANGED <<now, tip, floor, events, info, enriched, lost, faults>>
  BY DEF MoveEventCursor, chain
<1>2. run[r].page \in Cursor /\ Kept(run[r].page)
  <2>1. run[r].page \in 0..tip /\ tip \in 0..Len(Log)
    BY DEF IngestInv, RunsOK, TablesOK, PageOK
  <2>2. run[r].page \in 0..Len(Log)
    BY <2>1
  <2> QED
    BY <1>1, <2>2 DEF IngestInv, RunsOK, PageOK, Cursor
<1>3. TablesOK' /\ EnrichedBehindCursor'
  BY <1>1, <1>2 DEF IngestInv, TablesOK, EnrichedBehindCursor
<1>4. KeptOK'
  BY <1>1, <1>2 DEF IngestInv, KeptOK, Kept
<1>5. ASSUME NEW m, PlanOK(m) PROVE PlanOK(m)'
  BY <1>1, <1>5 DEF PlanOK
<1> QED
  BY <1>1, <1>2, <1>3, <1>4, <1>5, NextPageMemory, RunMoves

\* A plan is made of what is not yet enriched, oldest first.
LEMMA PlanLookupsStep == ASSUME IngestInv, NEW r \in Run, PlanLookups(r) PROVE IngestInv'
<1>1. PICK old : old = run[r]
  OBVIOUS
<1>2. /\ UNCHANGED <<now, tip, floor, events, info, cursor, enriched, lost>>
      /\ faults' \in 0..MaxFaults /\ old.pc = "enrich"
  BY <1>1 DEF PlanLookups, chain, tables, IngestInv, TablesOK
<1>3. /\ DOMAIN old = {"pc", "at", "pages", "page", "more", "ids", "plan"}
      /\ PageOK(old) /\ PlanOK(old)
  BY <1>1 DEF IngestInv, RunsOK
<1>4. CASE Scanned = {}
  <2>1. PICK m : m = [old EXCEPT !.pc = "count"]
    OBVIOUS
  <2>2. run' = [run EXCEPT ![r] = m]
    BY <1>1, <1>4, <2>1 DEF PlanLookups, Goto, IngestInv, RunsOK
  <2>3. /\ DOMAIN m = DOMAIN old /\ m.pc = "count" /\ m.at = old.at /\ m.page = old.page
        /\ m.more = old.more /\ m.pages = old.pages /\ m.ids = old.ids /\ m.plan = old.plan
    BY <1>3, <2>1
  <2>4. PageOK(m) /\ PlanOK(m)
    BY <1>3, <2>3 DEF PageOK, PlanOK, Step
  <2> QED
    BY <1>2, <1>3, <2>2, <2>3, <2>4, OneRunMoves
<1>5. CASE Scanned # {}
  <2>1. PICK ids : ids = Covered(Scanned)
    OBVIOUS
  <2>2. PICK m : m = [old EXCEPT !.pc = "lookup", !.ids = ids, !.plan = NeedsOf(ids) \ info]
    OBVIOUS
  <2>3. run' = [run EXCEPT ![r] = m]
    BY <1>1, <1>5, <2>1, <2>2 DEF PlanLookups, IngestInv, RunsOK
  <2>4. /\ DOMAIN m = DOMAIN old /\ m.pc = "lookup" /\ m.at = old.at /\ m.page = old.page
        /\ m.more = old.more /\ m.pages = old.pages /\ m.ids = ids
        /\ m.plan = NeedsOf(ids) \ info
    BY <1>3, <2>2
  <2>5. PageOK(m)
    BY <1>3, <2>4 DEF PageOK, Step
  <2>6. ids \in SUBSET events /\ events \in SUBSET EventId /\ enriched \in Nat
    BY <2>1 DEF Covered, Scanned, Oldest, IngestInv, TablesOK
  <2>7. NeedsOf(ids) \subseteq NeedsOf(EventId)
    BY <2>6 DEF NeedsOf
  <2>8. ASSUME NEW i \in ids, NEW j \in events, j < i
        PROVE  j \in ids \/ Needs(j) \subseteq info
    <3>1. CASE j <= enriched
      BY <3>1 DEF IngestInv, EnrichedBehindCursor
    <3>2. CASE j > enriched
      BY <2>1, <2>6, <2>8, <3>2, CoveredIsInitial
    <3> QED
      BY <2>6, <3>1, <3>2 DEF EventId
  <2>9. PlanOK(m)
    BY <2>4, <2>6, <2>7, <2>8 DEF PlanOK
  <2> QED
    BY <1>2, <1>3, <2>3, <2>4, <2>5, <2>9, OneRunMoves
<1> QED
  BY <1>4, <1>5

\* What was answered is known, what failed stays in the plan.
LEMMA StoreLookupsStep == ASSUME IngestInv, NEW r \in Run, StoreLookups(r) PROVE IngestInv'
<1>1. PICK old : old = run[r]
  OBVIOUS
<1>2. PICK failed \in SUBSET old.plan :
         /\ failed # {} => faults < MaxFaults
         /\ faults' = IF failed = {} THEN faults ELSE faults + 1
         /\ info' = info \cup (old.plan \ failed)
         /\ run' = [run EXCEPT ![r].pc = "advance", ![r].plan = failed]
  BY <1>1 DEF StoreLookups
<1>3. /\ UNCHANGED <<now, tip, floor, events, cursor, enriched, lost>> /\ info \subseteq info'
  BY <1>2 DEF StoreLookups, chain
<1>4. /\ DOMAIN old = {"pc", "at", "pages", "page", "more", "ids", "plan"}
      /\ PageOK(old) /\ PlanOK(old)
  BY <1>1 DEF IngestInv, RunsOK
<1>5. PICK m : m = [old EXCEPT !.pc = "advance", !.plan = failed]
  OBVIOUS
<1>6. run' = [run EXCEPT ![r] = m]
  BY <1>1, <1>2, <1>5 DEF IngestInv, RunsOK
<1>7. /\ DOMAIN m = DOMAIN old /\ m.pc = "advance" /\ m.at = old.at /\ m.page = old.page
      /\ m.more = old.more /\ m.pages = old.pages /\ m.ids = old.ids /\ m.plan = failed
  BY <1>4, <1>5
<1>8. PageOK(m)
  BY <1>4, <1>7 DEF PageOK, Step
<1>9. PlanOK(m)'
  <2>1. /\ m.ids \in SUBSET events' /\ m.plan \in SUBSET NeedsOf(EventId)
        /\ NeedsOf(m.ids) \subseteq info' \cup m.plan
    BY <1>2, <1>3, <1>4, <1>7 DEF PlanOK
  <2>2. \A i \in m.ids, j \in events' : j < i => j \in m.ids \/ Needs(j) \subseteq info'
    BY <1>3, <1>4, <1>7 DEF PlanOK
  <2> QED
    BY <2>1, <2>2 DEF PlanOK
<1>10. TablesOK'
  <2>1. info' \in SUBSET NeedsOf(EventId)
    BY <1>2, <1>4 DEF PlanOK, IngestInv, TablesOK
  <2>2. faults' \in 0..MaxFaults
    BY <1>2, EventAssumption DEF IngestInv, TablesOK
  <2> QED
    BY <1>3, <2>1, <2>2 DEF IngestInv, TablesOK
<1>11. KeptOK' /\ EnrichedBehindCursor'
  BY <1>3 DEF IngestInv, KeptOK, Kept, EnrichedBehindCursor
<1> QED
  BY <1>3, <1>4, <1>6, <1>7, <1>8, <1>9, <1>10, <1>11, RunMoves

\* All up to the last event before a failure is enriched.
LEMMA MoveEnrichCursorStep == ASSUME IngestInv, NEW r \in Run, MoveEnrichCursor(r) PROVE IngestInv'
<1>1. PICK old : old = run[r]
  OBVIOUS
<1>2. PICK done : done = BeforeFailure(old.ids, old.plan)
  OBVIOUS
<1>3. /\ enriched' = IF done = {} THEN enriched ELSE Max(done)
      /\ UNCHANGED <<now, tip, floor, events, info, cursor, lost, faults>>
      /\ run' = [run EXCEPT ![r] = Fresh("count")]
  BY <1>1, <1>2 DEF MoveEnrichCursor, chain, Leave
<1>4. PlanOK(old) /\ TablesOK /\ EnrichedBehindCursor
  BY <1>1 DEF IngestInv, RunsOK
<1>5. TablesOK' /\ EnrichedBehindCursor'
  <2>1. CASE done = {}
    BY <1>3, <1>4, <2>1 DEF TablesOK, EnrichedBehindCursor
  <2>2. CASE done # {}
    <3>1. PICK e : e = Max(done)
      OBVIOUS
    <3>2. Len(Log) \in Nat /\ done \in SUBSET (0..Len(Log)) /\ done \in SUBSET old.ids
      <4>1. Len(Log) \in Nat
        BY EventAssumption
      <4>2. done \in SUBSET old.ids /\ old.ids \in SUBSET EventId
        BY <1>2, <1>4 DEF BeforeFailure, PlanOK, TablesOK
      <4> QED
        BY <4>1, <4>2 DEF EventId
    <3>3. e \in done /\ enriched' = e
      <4>1. IsFiniteSet(done) /\ done \in SUBSET Int
        <5>1. done \in SUBSET EventId
          BY <1>4, <3>2 DEF PlanOK, TablesOK
        <5>2. IsFiniteSet(done)
          BY <5>1, NeedsFinite
        <5> QED
          BY <3>2, <5>2
      <4> QED
        BY <1>3, <2>2, <3>1, <4>1, MaxOfFinite
    <3>4. e \in events /\ e \in 0..Len(Log)
      BY <1>4, <3>2, <3>3 DEF PlanOK
    <3>5. TablesOK'
      BY <1>3, <1>4, <3>3, <3>4 DEF TablesOK
    <3>6. ASSUME NEW j \in events, j <= e PROVE Needs(j) \subseteq info
      <4>1. CASE j \in old.ids
        <5>1. Needs(j) \cap old.plan = {}
          BY <1>2, <3>3, <3>6, <4>1 DEF BeforeFailure, NeedsOf, UpTo
        <5> QED
          BY <1>4, <4>1, <5>1 DEF PlanOK, NeedsOf
      <4>2. CASE j \notin old.ids
        <5>1. j # e /\ e \in old.ids
          BY <3>2, <3>3, <4>2
        <5>2. j < e
          BY <1>4, <3>4, <3>6, <5>1 DEF TablesOK, EventId
        <5> QED
          BY <1>4, <4>2, <5>1, <5>2 DEF PlanOK
      <4> QED
        BY <4>1, <4>2
    <3>7. EnrichedBehindCursor'
      BY <1>3, <3>3, <3>6 DEF EnrichedBehindCursor
    <3> QED
      BY <3>5, <3>7
  <2> QED
    BY <2>1, <2>2
<1>6. KeptOK'
  BY <1>3 DEF IngestInv, KeptOK, Kept
<1>7. PageOK(Fresh("count")) /\ PlanOK(Fresh("count"))
  BY <1>4, FreshIsSound DEF Step
<1>8. PICK m : m = Fresh("count")
  OBVIOUS
<1>9. DOMAIN m = {"pc", "at", "pages", "page", "more", "ids", "plan"} /\ PageOK(m) /\ PlanOK(m)
  BY <1>4, <1>8, FreshIsSound DEF Step
<1>10. PlanOK(m)'
  BY <1>3, <1>9 DEF PlanOK
<1> QED
  BY <1>3, <1>5, <1>6, <1>8, <1>9, <1>10, RunMoves

LEMMA RebuildTractionStep == ASSUME IngestInv, NEW r \in Run, RebuildTraction(r) PROVE IngestInv'
<1>1. /\ UNCHANGED <<now, tip, floor, events, info, cursor, enriched, lost>>
      /\ faults' \in 0..MaxFaults /\ Leave(r, "idle") /\ TablesOK
  BY DEF RebuildTraction, chain, IngestInv, TablesOK
<1> QED
  BY <1>1, FreshIsSound, OneRunMoves DEF Leave, Step

\* A failed step leaves what it stored and forgets the rest.
LEMMA FailStep == ASSUME IngestInv, NEW r \in Run, Fail(r) PROVE IngestInv'
<1>1. /\ UNCHANGED <<now, tip, floor, events, info, cursor, enriched, lost>>
      /\ faults' \in 0..MaxFaults /\ TablesOK
  BY EventAssumption DEF Fail, chain, tables, IngestInv, TablesOK
<1>2. PICK pc \in Step \ {"store", "move"} : Leave(r, pc)
  <2>1. AfterStep(run[r].pc) \in Step \ {"store", "move"}
    BY DEF AfterStep, Step
  <2> QED
    BY <2>1 DEF Fail, Step
<1> QED
  BY <1>1, <1>2, FreshIsSound, OneRunMoves DEF Leave

LEMMA EmitStep == ASSUME IngestInv, Emit PROVE IngestInv'
<1>1. /\ tip' = tip + 1 /\ now' = Log[tip + 1].ts /\ tip < Len(Log)
      /\ UNCHANGED <<floor, events, info, cursor, enriched, run, lost, faults>>
  BY DEF Emit, tables
<1>2. now' \in Nat
  <2>1. tip + 1 \in EventId
    BY <1>1, EventAssumption DEF IngestInv, TablesOK, EventId
  <2> QED
    BY <1>1, <2>1, TimesOK
<1>3. TablesOK' /\ KeptOK' /\ EnrichedBehindCursor' /\ TablesOK
  BY <1>1, <1>2, EventAssumption
  DEF IngestInv, TablesOK, KeptOK, Kept, EnrichedBehindCursor
<1>4. ASSUME NEW m, PageOK(m), PlanOK(m) PROVE PageOK(m)' /\ PlanOK(m)'
  <2>1. PageOK(m)'
    BY <1>1, <1>3, <1>4 DEF TablesOK, PageOK, Kept
  <2>2. PlanOK(m)'
    BY <1>1, <1>4 DEF PlanOK
  <2> QED
    BY <2>1, <2>2
<1>5. RunsOK'
  BY <1>1, <1>4 DEF IngestInv, RunsOK
<1> QED
  BY <1>3, <1>5 DEF IngestInv

\* What is forgotten unread is lost, and no page in hand is.
LEMMA PruneStep == ASSUME IngestInv, Prune PROVE IngestInv'
<1>1. PICK f \in (floor + 1)..tip :
         /\ \A r \in Run : run[r].pc = "store" => f <= run[r].at
         /\ floor' = f /\ lost' = lost \cup (1..f \ events)
  BY DEF Prune
<1>2. UNCHANGED <<now, tip, events, info, cursor, enriched, run, faults>>
  BY DEF Prune, tables
<1>3. TablesOK /\ floor \in Nat /\ f \in Nat /\ floor < f /\ f <= tip /\ tip \in Nat
  BY <1>1, EventAssumption DEF IngestInv, TablesOK
<1>4. TablesOK'
  <2>1. lost' \in SUBSET (1..floor') /\ floor' \in 0..tip
    <3>1. 1..floor \subseteq 1..f /\ f \in 0..tip /\ lost \in SUBSET (1..floor)
      BY <1>3 DEF TablesOK
    <3> QED
      BY <1>1, <3>1
  <2> QED
    BY <1>2, <1>3, <2>1 DEF TablesOK
<1>5. \A n : Kept(n) => Kept(n)'
  BY <1>1, <1>2 DEF Kept
<1>6. KeptOK'
  <2>1. Kept(floor)'
    BY <1>1, <1>2 DEF Kept
  <2> QED
    BY <1>2, <1>5, <2>1 DEF IngestInv, KeptOK
<1>7. EnrichedBehindCursor'
  BY <1>2 DEF IngestInv, EnrichedBehindCursor
<1>8. ASSUME NEW m, PageOK(m), PlanOK(m), m.pc = "store" => f <= m.at
      PROVE  PageOK(m)' /\ PlanOK(m)'
  <2>1. PageOK(m)'
    BY <1>1, <1>2, <1>5, <1>8 DEF PageOK
  <2>2. PlanOK(m)'
    BY <1>2, <1>8 DEF PlanOK
  <2> QED
    BY <2>1, <2>2
<1>9. RunsOK'
  BY <1>1, <1>2, <1>8 DEF IngestInv, RunsOK
<1> QED
  BY <1>4, <1>6, <1>7, <1>9 DEF IngestInv

-----------------------------------------------------------------------------
\* The invariant holds whatever runs overlap, throw or die, and whatever the
\* RPC forgets between their pages.
LEMMA IngestInvariance == Spec => []IngestInv
<1>1. IngestInv /\ [Next]_vars => IngestInv'
  <2> SUFFICES ASSUME IngestInv, [Next]_vars PROVE IngestInv'
    OBVIOUS
  <2>1. CASE UNCHANGED vars
    <3>1. UNCHANGED <<now, tip, floor, events, info, cursor, enriched, run, lost, faults>>
      BY <2>1 DEF vars, chain, tables
    <3>2. TablesOK' /\ KeptOK' /\ EnrichedBehindCursor'
      BY <3>1 DEF IngestInv, TablesOK, KeptOK, Kept, EnrichedBehindCursor
    <3>3. ASSUME NEW m, PageOK(m), PlanOK(m) PROVE PageOK(m)' /\ PlanOK(m)'
      BY <3>1, <3>3 DEF PageOK, PlanOK, Kept
    <3>4. RunsOK'
      BY <3>1, <3>3 DEF IngestInv, RunsOK
    <3> QED
      BY <3>2, <3>4 DEF IngestInv
  <2>2. CASE Emit \/ Prune
    BY <2>2, EmitStep, PruneStep
  <2>3. ASSUME NEW r \in Run, RunStep(r) \/ Fail(r) PROVE IngestInv'
    BY <2>3, StartRunStep, FetchStaleStep, FetchPageStep, StoreEventsStep, MoveEventCursorStep,
       PlanLookupsStep, StoreLookupsStep, MoveEnrichCursorStep, RebuildTractionStep, FailStep
    DEF RunStep
  <2> QED
    BY <2>1, <2>2, <2>3 DEF Next
<1> QED
  BY <1>1, IngestStarts, PTL DEF Spec

\* ingest.ts:184-202.  Everything the `hitz-rpc` cursor covers is stored unless
\* the RPC forgot it unread, and rows appear in order, for every history, page
\* size and number of overlapping runs.
THEOREM CursorIsAPromise == Spec => []EventsBehindCursor
<1>1. IngestInv => EventsBehindCursor
  <2> SUFFICES ASSUME IngestInv PROVE EventsBehindCursor
    OBVIOUS
  <2>1. lost \in SUBSET EventId
    <3>1. lost \in SUBSET (1..floor) /\ floor \in 0..tip /\ tip \in 0..Len(Log)
      BY DEF IngestInv, TablesOK
    <3>2. 1..floor \subseteq 1..Len(Log)
      BY <3>1
    <3> QED
      BY <3>1, <3>2 DEF EventId
  <2>2. \A r \in Run :
           /\ PageOK(run[r]) /\ run[r].ids \in SUBSET EventId
           /\ run[r].plan \in SUBSET NeedsOf(EventId)
    BY DEF IngestInv, TablesOK, RunsOK, PlanOK
  <2>3. TypeOK
    BY <2>1, <2>2 DEF TypeOK, IngestInv, TablesOK, PageOK
  <2> QED
    BY <2>3 DEF EventsBehindCursor, IngestInv, KeptOK, Kept
<1> QED
  BY <1>1, IngestInvariance, PTL

\* ingest.ts:311-322.  Everything the `enrich` cursor has passed is enriched, for
\* every lookup budget and whatever lookups fail.
THEOREM EnrichIsAPromise == Spec => []EnrichedBehindCursor
<1>1. IngestInv => EnrichedBehindCursor
  BY DEF IngestInv
<1> QED
  BY <1>1, IngestInvariance, PTL

\* ingest.ts:184-202, 311-322.  Neither cursor is ever ahead of what it stands
\* for.
THEOREM CursorsArePromises == Spec => []CursorsKeepTheirPromise
<1>1. EventsBehindCursor /\ EnrichedBehindCursor => CursorsKeepTheirPromise
  BY DEF CursorsKeepTheirPromise
<1> QED
  BY <1>1, CursorIsAPromise, EnrichIsAPromise, PTL

-----------------------------------------------------------------------------
(* The traction card.                                                      *)

\* A later time is in no earlier month.
LEMMA MonthsInOrder ==
    ASSUME NEW s \in Nat, NEW t \in Nat, s <= t
    PROVE  MonthOf(s) \in Nat /\ MonthOf(t) \in Nat /\ MonthOf(s) <= MonthOf(t)
<1> DEFINE p == s \div MonthLength
           q == t \div MonthLength
<1>0. MonthLength \in Nat \ {0}
  BY EventAssumption
<1>1. p \in Nat /\ q \in Nat /\ p * MonthLength <= s /\ t < (q + 1) * MonthLength
  BY <1>0
<1> HIDE DEF p, q
<1>2. ~(q + 1 <= p)
  <2> SUFFICES ASSUME q + 1 <= p PROVE FALSE
    OBVIOUS
  <2>1. (q + 1) * MonthLength <= p * MonthLength
    BY <1>0, <1>1
  <2>2. p * MonthLength \in Nat /\ (q + 1) * MonthLength \in Nat
    BY <1>0, <1>1
  <2> QED
    BY <1>1, <2>1, <2>2
<1>3. p <= q
  BY <1>1, <1>2
<1> QED
  BY <1>1, <1>3 DEF MonthOf, p, q

\* A row of a stored transfer, and what the card counts of the rows.
RowsOK(rows, since) ==
    /\ IsFiniteSet(rows)
    /\ \A t \in rows : t.ts \in Nat /\ since <= t.ts /\ t.ts <= now

\* Everybody's first row is one of the rows.
LEMMA FirstIsARow ==
    ASSUME NEW rows, NEW since \in Nat, RowsOK(rows, since), NEW a \in People(rows)
    PROVE  /\ \E t \in rows : t.addr = a /\ t.ts = FirstSeen(rows, a)
           /\ \A t \in rows : t.addr = a => FirstSeen(rows, a) <= t.ts
           /\ FirstSeen(rows, a) \in Nat /\ since <= FirstSeen(rows, a) /\ FirstSeen(rows, a) <= now
<1> DEFINE mine == {u \in rows : u.addr = a}
           T == {t.ts : t \in mine}
           f == [t \in mine |-> t.ts]
<1>1. IsFiniteSet(mine)
  BY FS_Subset DEF RowsOK
<1>2. f \in Surjection(mine, T)
  BY DEF Surjection
<1>3. T \in SUBSET Int /\ T # {}
  BY DEF RowsOK, People
<1> HIDE DEF f
<1>4. IsFiniteSet(T)
  BY <1>1, <1>2, FS_Surjection
<1>5. FirstSeen(rows, a) = Min(T)
  BY DEF FirstSeen
<1>6. \A t \in mine : t.ts \in T
  OBVIOUS
<1> HIDE DEF T
<1>7. Min(T) \in T /\ \A x \in T : Min(T) <= x
  BY <1>3, <1>4, MinOfFinite
<1>8. PICK t \in mine : t.ts = Min(T)
  BY <1>7 DEF T
<1>9. t \in rows /\ t.addr = a
  OBVIOUS
<1> QED
  BY <1>5, <1>6, <1>7, <1>8, <1>9 DEF RowsOK

\* Finitely many rows mention finitely many people.
LEMMA PeopleFinite ==
    ASSUME NEW rows, IsFiniteSet(rows)
    PROVE  IsFiniteSet(People(rows)) /\ Cardinality(People(rows)) \in Nat
<1> DEFINE f == [t \in rows |-> t.addr]
<1>1. f \in Surjection(rows, People(rows))
  BY DEF Surjection, People
<1> QED
  BY <1>1, FS_Surjection, FS_CardinalityType

\* Everybody comes through exactly one channel.
LEMMA ChannelsAddUp ==
    ASSUME NEW rows, NEW people, IsFiniteSet(people)
    PROVE  SumFunctionOnSet(Channels(rows, people), Channel) = Cardinality(people)
<1> DEFINE g == Channels(rows, people)
           key == [a \in people |-> ChannelOf(FirstTx(rows, a))]
<1>1. IsFiniteSet(Channel)
  <2>1. Channel = (({"email"} \cup {"wallet"}) \cup {"received"}) \cup {"unknown"}
    BY DEF Channel
  <2> QED
    BY <2>1, FS_Singleton, FS_Union
<1>2. key \in [people -> Channel]
  BY DEF ChannelOf, Channel
<1>3. \A c \in Channel : g[c] = Cardinality({a \in people : key[a] = c})
  BY DEF Channels
<1> HIDE DEF g, key
<1>4. SumFunctionOnSet(g, Channel) = Cardinality(people)
  BY <1>1, <1>2, <1>3, GroupsAddUp
<1> QED
  BY <1>4 DEF g

\* Everybody is new in exactly one month between the first row and now.
LEMMA MonthsAddUp ==
    ASSUME NEW rows, NEW since \in Nat, now \in Nat, since <= now, RowsOK(rows, since)
    PROVE  LET g == [m \in MonthRange(since, now) |-> MonthSummary(rows, m).new]
           IN  SumFunctionOnSet(g, MonthRange(since, now)) = Cardinality(People(rows))
<1> DEFINE months == MonthRange(since, now)
           g == [m \in months |-> MonthSummary(rows, m).new]
           key == [a \in People(rows) |-> MonthOf(FirstSeen(rows, a))]
<1>1. IsFiniteSet(months) /\ MonthOf(since) \in Nat /\ MonthOf(now) \in Nat
  <2>1. MonthOf(since) \in Nat /\ MonthOf(now) \in Nat
    BY MonthsInOrder
  <2> QED
    BY <2>1, FS_Interval DEF MonthRange
<1>2. key \in [People(rows) -> months]
  <2>1. ASSUME NEW a \in People(rows) PROVE MonthOf(FirstSeen(rows, a)) \in months
    <3>1. /\ FirstSeen(rows, a) \in Nat /\ since <= FirstSeen(rows, a)
          /\ FirstSeen(rows, a) <= now
      BY FirstIsARow
    <3> QED
      BY <3>1, MonthsInOrder DEF MonthRange
  <2> QED
    BY <2>1
<1>3. ASSUME NEW m \in months
      PROVE  g[m] = Cardinality({a \in People(rows) : key[a] = m})
  <2> DEFINE seen == People({t \in rows : MonthOf(t.ts) = m})
  <2>1. g[m] = Cardinality({a \in seen : MonthOf(FirstSeen(rows, a)) = m})
    BY DEF MonthSummary, Split
  <2>2. {a \in seen : MonthOf(FirstSeen(rows, a)) = m} = {a \in People(rows) : key[a] = m}
    <3>1. seen \subseteq People(rows)
      BY DEF People
    <3>2. ASSUME NEW a \in People(rows), MonthOf(FirstSeen(rows, a)) = m PROVE a \in seen
      <4>1. PICK t \in rows : t.addr = a /\ t.ts = FirstSeen(rows, a)
        BY FirstIsARow
      <4> QED
        BY <3>2, <4>1 DEF People
    <3> HIDE DEF seen
    <3> QED
      BY <3>1, <3>2
  <2> QED
    BY <2>1, <2>2
<1>4. IsFiniteSet(People(rows))
  BY PeopleFinite DEF RowsOK
<1> HIDE DEF g, key, months
<1>5. SumFunctionOnSet(g, months) = Cardinality(People(rows))
  BY <1>1, <1>2, <1>3, <1>4, GroupsAddUp
<1> QED
  BY <1>5 DEF g, months

\* Who is new in the window was active in it.
LEMMA NewAreActive ==
    ASSUME NEW rows, NEW since \in Nat, now \in Nat, RowsOK(rows, since)
    PROVE  /\ WindowSummary(rows, now).new
                = Cardinality(NewSince(rows, People(rows), now - Window))
           /\ IsFiniteSet(NewSince(rows, People(rows), now - Window))
<1> DEFINE active == ActiveIn(rows, now - Window, now + 1)
           old == NewSince(rows, People(rows), now - Window)
<1>1. active \subseteq People(rows)
  BY DEF ActiveIn, People
<1>2. ASSUME NEW a \in old PROVE a \in active
  <2>1. a \in People(rows) /\ FirstSeen(rows, a) >= now - Window
    BY DEF NewSince
  <2>2. PICK t \in rows : t.addr = a /\ t.ts = FirstSeen(rows, a)
    BY <2>1, FirstIsARow
  <2>3. now - Window <= t.ts /\ t.ts < now + 1
    BY <2>1, <2>2, EventAssumption DEF RowsOK
  <2> QED
    BY <2>2, <2>3 DEF ActiveIn, People
<1>3. NewSince(rows, active, now - Window) = old
  <2>1. NewSince(rows, active, now - Window) \subseteq old
    BY <1>1 DEF NewSince
  <2>2. old \subseteq NewSince(rows, active, now - Window)
    BY <1>2 DEF NewSince
  <2> QED
    BY <2>1, <2>2
<1>4. WindowSummary(rows, now).new = Cardinality(NewSince(rows, active, now - Window))
  BY DEF WindowSummary, Split
<1>5. IsFiniteSet(old)
  <2>1. old \subseteq People(rows)
    BY DEF NewSince
  <2> HIDE DEF old
  <2> QED
    BY <2>1, PeopleFinite, FS_Subset DEF RowsOK
<1> QED
  BY <1>3, <1>4, <1>5

\* Every balance is in exactly one place.
LEMMA PlacesAddUp ==
    LET s == SupplyBy(Balance, Role, SafetyLimit)
    IN  s.amm + s.treasury + s.routers + s.contracts + s.vaultedPeople + s.people = s.total
<1> DEFINE held(U) == SumFunctionOnSet(Balance, U)
           of(r) == {a \in DOMAIN Balance : Role[a] = r}
           deep == {a \in of("person") : Balance[a] > SafetyLimit}
           rest == of("person") \ deep
           A == of("amm")
           T == of("treasury")
           R == of("router")
           C == of("contract")
           s == SupplyBy(Balance, Role, SafetyLimit)
<1>0. IsFiniteSet(DOMAIN Balance) /\ \A a \in DOMAIN Balance : Balance[a] \in Int
  BY EventAssumption
<1>1. \A a \in DOMAIN Balance : Role[a] \in {"router", "amm", "treasury", "contract", "person"}
  BY DEF Role, Address
<1>2. /\ A \cap T = {} /\ (A \cup T) \cap R = {} /\ (A \cup T \cup R) \cap C = {}
      /\ (A \cup T \cup R \cup C) \cap deep = {} /\ (A \cup T \cup R \cup C \cup deep) \cap rest = {}
      /\ A \cup T \cup R \cup C \cup deep \cup rest = DOMAIN Balance
  BY <1>1
<1>3. /\ s.amm = held(A) /\ s.treasury = held(T) /\ s.routers = held(R) /\ s.contracts = held(C)
      /\ s.vaultedPeople = held(deep) /\ s.people = held(rest) /\ s.total = held(DOMAIN Balance)
  BY DEF SupplyBy
<1>4. \A U \in {A, T, R, C, deep, rest} : U \subseteq DOMAIN Balance
  OBVIOUS
<1> HIDE DEF A, T, R, C, deep, rest, s
<1>5. ASSUME NEW U \in SUBSET (DOMAIN Balance) PROVE IsFiniteSet(U) /\ held(U) \in Int
  <2>1. IsFiniteSet(U)
    BY <1>0, FS_Subset
  <2> QED
    BY <1>0, <2>1, SumInt
<1>6. ASSUME NEW U \in SUBSET (DOMAIN Balance), NEW V \in SUBSET (DOMAIN Balance), U \cap V = {}
      PROVE  held(U \cup V) = held(U) + held(V)
  <2>1. IsFiniteSet(U) /\ IsFiniteSet(V) /\ \A x \in U \cup V : Balance[x] \in Int
    BY <1>0, <1>5
  <2> QED
    BY <1>6, <2>1, SumUnion
<1>7. /\ A \in SUBSET (DOMAIN Balance) /\ T \in SUBSET (DOMAIN Balance)
      /\ R \in SUBSET (DOMAIN Balance) /\ C \in SUBSET (DOMAIN Balance)
      /\ deep \in SUBSET (DOMAIN Balance) /\ rest \in SUBSET (DOMAIN Balance)
  BY <1>4
<1>8. /\ held(A) \in Int /\ held(T) \in Int /\ held(R) \in Int /\ held(C) \in Int
      /\ held(deep) \in Int /\ held(rest) \in Int
  <2> HIDE DEF held
  <2> QED
    BY <1>5, <1>7
<1> HIDE DEF held
<1>9. held(A \cup T) = held(A) + held(T)
  BY <1>2, <1>6, <1>7
<1>10. held(A \cup T \cup R) = held(A \cup T) + held(R)
  BY <1>2, <1>6, <1>7
<1>11. held(A \cup T \cup R \cup C) = held(A \cup T \cup R) + held(C)
  BY <1>2, <1>6, <1>7
<1>12. held(A \cup T \cup R \cup C \cup deep) = held(A \cup T \cup R \cup C) + held(deep)
  BY <1>2, <1>6, <1>7
<1>13. held(A \cup T \cup R \cup C \cup deep \cup rest)
          = held(A \cup T \cup R \cup C \cup deep) + held(rest)
  BY <1>2, <1>6, <1>7
<1>14. held(DOMAIN Balance) = held(A) + held(T) + held(R) + held(C) + held(deep) + held(rest)
  BY <1>2, <1>8, <1>9, <1>10, <1>11, <1>12, <1>13
<1>15. s.amm + s.treasury + s.routers + s.contracts + s.vaultedPeople + s.people = s.total
  BY <1>3, <1>8, <1>14
<1> QED
  BY <1>15 DEF s

\* What the chain has shown is over, and only that is stored.
Shown ==
    /\ events \in SUBSET (1..tip)
    /\ \A i \in 1..tip : Log[i].ts <= now

LEMMA ShownInvariance == Spec => []Shown
<1>1. Init => Shown
  BY DEF Init, Shown
<1>2. IngestInv /\ Shown /\ [Next]_vars => Shown'
  <2> SUFFICES ASSUME IngestInv, Shown, [Next]_vars PROVE Shown'
    OBVIOUS
  <2>0. tip \in 0..Len(Log) /\ Len(Log) \in Nat /\ tip \in Nat
    BY EventAssumption DEF IngestInv, TablesOK
  <2>1. CASE UNCHANGED <<tip, now, events>>
    BY <2>1 DEF Shown
  <2>2. CASE Emit
    <3>1. tip' = tip + 1 /\ now' = Log[tip + 1].ts /\ events' = events /\ tip + 1 \in DOMAIN Log
      BY <2>0, <2>2, EventAssumption DEF Emit, tables
    <3>2. ASSUME NEW i \in 1..(tip + 1) PROVE Log[i].ts <= Log[tip + 1].ts
      <4>1. i \in DOMAIN Log /\ Log[tip + 1].ts \in Nat
        <5>1. DOMAIN Log = 1..Len(Log)
          BY EventAssumption
        <5> QED
          BY <2>0, <3>1, <3>2, <5>1, TimesOK DEF EventId
      <4>2. CASE i = tip + 1
        BY <4>1, <4>2
      <4>3. CASE i < tip + 1
        BY <3>1, <4>1, <4>3, EventAssumption
      <4> QED
        BY <2>0, <4>2, <4>3
    <3>3. events \in SUBSET (1..(tip + 1))
      BY <2>0 DEF Shown
    <3> QED
      BY <3>1, <3>2, <3>3 DEF Shown
  <2>3. ASSUME NEW r \in Run, StoreEvents(r) PROVE Shown'
    <3>1. /\ events' = events \cup (run[r].at + 1)..run[r].page
          /\ now' = now /\ tip' = tip /\ run[r].pc = "store"
      BY <2>3 DEF StoreEvents, chain
    <3>2. run[r].page \in 0..tip /\ run[r].at \in Nat
      <4>1. PageOK(run[r]) /\ Len(Log) \in Nat
        BY EventAssumption DEF IngestInv, RunsOK
      <4> QED
        BY <3>1, <4>1 DEF PageOK, Cursor
    <3>3. (run[r].at + 1)..run[r].page \subseteq 1..tip
      BY <2>0, <3>2
    <3> QED
      BY <3>1, <3>3 DEF Shown
  <2>4. CASE Prune
    BY <2>1, <2>4 DEF Prune, tables
  <2>5. ASSUME NEW r \in Run, RunStep(r) \/ Fail(r) PROVE Shown'
    BY <2>1, <2>3, <2>5 DEF RunStep, StartRun, FetchStale, FetchPage, MoveEventCursor,
       PlanLookups, StoreLookups, MoveEnrichCursor, RebuildTraction, Fail, chain, tables
  <2> QED
    BY <2>1, <2>2, <2>4, <2>5 DEF Next, vars, chain, tables
<1> QED
  BY <1>1, <1>2, IngestInvariance, PTL DEF Spec

\* The rows the card is computed from.
LEMMA RowsAreSound ==
    ASSUME IngestInv, Shown, events # {}
    PROVE  LET since == Log[Min(events)].ts
           IN  since \in Nat /\ now \in Nat /\ since <= now /\ RowsOK(PeopleTxs, since)
<1> DEFINE since == Log[Min(events)].ts
           theirs(i) == LET e == Log[i] IN
              {PeopleRow(e, a) : a \in {e.topics[1], e.topics[2]} \ (Contract \cup Infrastructure)}
           ids == {j \in events : Log[j].name = "transfer"}
<1>1. /\ events \in SUBSET EventId /\ events \in SUBSET Int /\ IsFiniteSet(events)
      /\ now \in Nat /\ DOMAIN Log = EventId /\ events \in SUBSET (1..tip)
  <2>1. events \in SUBSET EventId /\ now \in Nat /\ Len(Log) \in Nat /\ DOMAIN Log = EventId
    BY EventAssumption DEF IngestInv, TablesOK, EventId
  <2>2. IsFiniteSet(events)
    BY <2>1, NeedsFinite
  <2> QED
    BY <2>1, <2>2 DEF EventId, Shown
<1>2. Min(events) \in events /\ \A i \in events : Min(events) <= i
  BY <1>1, MinOfFinite
<1>3. ASSUME NEW i \in events PROVE Log[i].ts \in Nat /\ since <= Log[i].ts /\ Log[i].ts <= now
  <2>1. Log[i].ts \in Nat /\ Log[i].ts <= now
    BY <1>1, TimesOK DEF Shown
  <2>2. CASE Min(events) = i
    BY <2>1, <2>2
  <2>3. CASE Min(events) < i
    BY <1>1, <1>2, <2>1, <2>3, EventAssumption
  <2>4. Min(events) = i \/ Min(events) < i
    <3>1. Min(events) \in Int /\ i \in Int /\ Min(events) <= i
      BY <1>1, <1>2
    <3> QED
      BY <3>1
  <2> QED
    BY <2>2, <2>3, <2>4
<1>4. PeopleTxs = UNION {theirs(i) : i \in ids}
  BY DEF PeopleTxs
<1>5. ASSUME NEW i \in ids PROVE IsFiniteSet(theirs(i))
  <2> DEFINE A == {Log[i].topics[1], Log[i].topics[2]} \ (Contract \cup Infrastructure)
             f == [a \in A |-> PeopleRow(Log[i], a)]
  <2>1. IsFiniteSet(A)
    <3>1. IsFiniteSet({Log[i].topics[1]} \cup {Log[i].topics[2]})
      BY FS_Singleton, FS_Union
    <3>2. A \subseteq {Log[i].topics[1]} \cup {Log[i].topics[2]}
      OBVIOUS
    <3> QED
      BY <3>1, <3>2, FS_Subset
  <2>2. f \in Surjection(A, theirs(i))
    BY DEF Surjection
  <2> QED
    BY <2>1, <2>2, FS_Surjection
<1>6. IsFiniteSet(PeopleTxs)
  <2> DEFINE T == {theirs(i) : i \in ids}
             f == [i \in ids |-> theirs(i)]
  <2>1. f \in Surjection(ids, T)
    BY DEF Surjection
  <2>2. IsFiniteSet(ids)
    BY <1>1, FS_Subset
  <2>3. \A x \in T : IsFiniteSet(x)
    BY <1>5
  <2> HIDE DEF ids, theirs
  <2>4. IsFiniteSet(T)
    BY <2>1, <2>2, FS_Surjection
  <2> HIDE DEF T
  <2>5. IsFiniteSet(UNION T)
    BY <2>3, <2>4, FS_UNION
  <2> QED
    BY <1>4, <2>5 DEF T
<1>7. \A t \in PeopleTxs : \E i \in events : t.ts = Log[i].ts
  <2>1. \A i \in ids : \A t \in theirs(i) : t.ts = Log[i].ts
    BY DEF PeopleRow
  <2>2. ids \subseteq events
    OBVIOUS
  <2> HIDE DEF ids, theirs
  <2> QED
    BY <1>4, <2>1, <2>2
<1> HIDE DEF since
<1>8. RowsOK(PeopleTxs, since)
  BY <1>3, <1>6, <1>7 DEF RowsOK
<1>9. since \in Nat /\ since <= now
  BY <1>1, <1>2, <1>3 DEF since
<1> QED
  BY <1>1, <1>8, <1>9 DEF since

\* traction-model.ts:121-248.  The card adds up, for every history, every cast
\* of contracts and pools, and whatever part of the rows is stored and enriched.
THEOREM TractionAlwaysAddsUp == Spec => []TractionAddsUp
<1>1. IngestInv /\ Shown => TractionAddsUp
  <2> SUFFICES ASSUME IngestInv, Shown, events # {} PROVE TractionAddsUp
    BY DEF TractionAddsUp
  <2> DEFINE rows == PeopleTxs
             since == Log[Min(events)].ts
             t == Summary
             newIn == [m \in DOMAIN t.months |-> t.months[m].new]
             g == [m \in MonthRange(since, now) |-> MonthSummary(rows, m).new]
  <2>1. since \in Nat /\ now \in Nat /\ since <= now /\ RowsOK(rows, since)
    BY RowsAreSound
  <2>2. /\ t.window = WindowSummary(rows, now)
        /\ t.months = [m \in MonthRange(since, now) |-> MonthSummary(rows, m)]
        /\ t.allTime = Cardinality(People(rows))
        /\ t.channels = Channels(rows, People(rows))
        /\ t.newBy = Channels(rows, NewSince(rows, People(rows), now - Window))
        /\ t.supply = SupplyBy(Balance, Role, SafetyLimit)
    BY DEF Summary, SummarizeTraction
  <2> HIDE DEF rows, since, t
  <2>3. newIn = g /\ DOMAIN newIn = MonthRange(since, now)
    BY <2>2
  <2>4. SumFunctionOnSet(newIn, DOMAIN newIn) = t.allTime
    BY <2>1, <2>2, <2>3, MonthsAddUp
  <2>5. SumFunctionOnSet(t.channels, Channel) = t.allTime
    <3>1. IsFiniteSet(People(rows))
      BY <2>1, PeopleFinite DEF RowsOK
    <3> QED
      BY <2>2, <3>1, ChannelsAddUp
  <2>6. SumFunctionOnSet(t.newBy, Channel) = t.window.new
    <3>1. /\ t.window.new = Cardinality(NewSince(rows, People(rows), now - Window))
          /\ IsFiniteSet(NewSince(rows, People(rows), now - Window))
      BY <2>1, <2>2, NewAreActive
    <3> QED
      BY <2>2, <3>1, ChannelsAddUp
  <2>7. t.supply.amm + t.supply.treasury + t.supply.routers + t.supply.contracts
           + t.supply.vaultedPeople + t.supply.people = t.supply.total
    BY <2>2, PlacesAddUp
  <2> QED
    BY <2>4, <2>5, <2>6, <2>7 DEF TractionAddsUp, t
<1> QED
  BY <1>1, IngestInvariance, ShownInvariance, PTL
=============================================================================
