----------------------------- MODULE TractionModel -----------------------------
(***************************************************************************)
(* The traction summary, functions/_lib/traction-model.ts: who was active, *)
(* who is new, through which channel, and where the supply sits.           *)
(*                                                                         *)
(* Times are hours, a month is MonthLength of them and the window Window.  *)
(* A row is one person's side of one transfer.  What another table does    *)
(* not know (yet) is None.                                                 *)
(***************************************************************************)
EXTENDS Integers, FiniteSets, FiniteSetsExt

CONSTANTS Window, MonthLength, None

Channel == {"email", "wallet", "received", "unknown"}
MonthOf(t) == t \div MonthLength

People(rows)       == {t.addr : t \in rows}
FirstSeen(rows, a) == Min({t.ts : t \in {u \in rows : u.addr = a}})

\* Rows that share the first timestamp come in no particular order.
FirstTx(rows, a) == CHOOSE t \in rows : t.addr = a /\ t.ts = FirstSeen(rows, a)

ChannelOf(t) == IF t.gateway = None \/ t.source = None THEN "unknown"
                ELSE IF t.gateway THEN "email"
                ELSE IF t.source = t.addr THEN "wallet" ELSE "received"

Channels(rows, people) ==
    [c \in Channel |->
        Cardinality({a \in people : ChannelOf(FirstTx(rows, a)) = c})]

\* People of `people` whose first row is at or after t.
NewSince(rows, people, t) == {a \in people : FirstSeen(rows, a) >= t}
ActiveIn(rows, from, to)  == People({t \in rows : from <= t.ts /\ t.ts < to})

Split(people, new) ==
    [active    |-> Cardinality(people),
     new       |-> Cardinality(new),
     returning |-> Cardinality(people) - Cardinality(new)]

MonthSummary(rows, m) ==
    LET people == People({t \in rows : MonthOf(t.ts) = m})
    IN  Split(people, {a \in people : MonthOf(FirstSeen(rows, a)) = m})

WindowSummary(rows, now) ==
    LET active == ActiveIn(rows, now - Window, now + 1)
    IN  Split(active, NewSince(rows, active, now - Window))

\* Mutant: the months stop before the one in progress.
FinishedMonths(since, now) == MonthOf(since)..(MonthOf(now) - 1)

MonthRange(since, now) == MonthOf(since)..MonthOf(now)

\* Where the balances sit: people above the safety limit count apart.
SupplyBy(balance, role, limit) ==
    LET held(addresses) == SumFunctionOnSet(balance, addresses)
        of(r)  == {a \in DOMAIN balance : role[a] = r}
        deep   == {a \in of("person") : balance[a] > limit}
    IN  [amm |-> held(of("amm")), treasury |-> held(of("treasury")),
         routers |-> held(of("router")), contracts |-> held(of("contract")),
         vaultedPeople |-> held(deep), people |-> held(of("person") \ deep),
         total |-> held(DOMAIN balance)]

SummarizeTraction(rows, since, now, balance, role, limit) ==
    [asOf       |-> now,
     window     |-> WindowSummary(rows, now),
     prevActive |-> Cardinality(ActiveIn(rows, now - 2 * Window, now - Window)),
     months     |-> [m \in MonthRange(since, now) |-> MonthSummary(rows, m)],
     allTime    |-> Cardinality(People(rows)),
     channels   |-> Channels(rows, People(rows)),
     newBy      |-> Channels(rows, NewSince(rows, People(rows), now - Window)),
     supply     |-> SupplyBy(balance, role, limit)]
=============================================================================
