------------------------------ MODULE MCDataParts ------------------------------
(***************************************************************************)
(* The data behind the price pages and the reports: the cron's prices, the *)
(* script that loads their history, and the two halves of the monthly      *)
(* report.  Each behaviour works one part, chosen at the start, while the  *)
(* others keep their initial state: the parts share no row that a step of  *)
(* one could disturb in another, but for the tables of the history, whose  *)
(* cron PriceBackfill has on its own.                                      *)
(***************************************************************************)
EXTENDS MCPriceIngest, PriceBackfill, EventReport, ReportContents

VARIABLE part   \* the part at work

readerVars == <<reportVars, contentsVars>>
dataVars   == <<vars, backfillVars, readerVars, part>>

-----------------------------------------------------------------------------
\* Months of cycles through a lender and a private contract, of routed swaps, of
\* claims and sales; the arbitrageur owns a lender's receiver and a bot.
KnownRoles == ("R" :> "router") @@ ("F" :> "flashloan")
MadeBy     == ("R" :> "aqua") @@ ("F" :> "arber") @@ ("B" :> "arber") @@ ("P" :> "aqua")

Envelope(source, inner, fee) == [source |-> source, inner |-> inner, fee |-> fee]
Signed ==
    ("t1" :> Envelope("arber", Null, "arber")) @@ ("t2" :> Envelope("relay", "user", "relay"))
    @@ ("t3" :> Envelope("gate", "user", "gate"))

StoredEvent(name, tx, day, from, to, amount, flag) ==
    [name |-> name, tx |-> tx, day |-> day, from |-> from, to |-> to, amount |-> amount,
     flag |-> flag]
Moved(tx, day, from, to, amount) == StoredEvent("transfer", tx, day, from, to, amount, "none")
Flips(tx, day, a, flag)          == StoredEvent("vaulted", tx, day, a, a, 0, flag)

Cycles ==
    <<StoredEvent("pool_registered", "t1", 0, "P", "P", 0, "map"),
      Moved("t1", 1, "P", "F", 3), Flips("t1", 1, "F", "true"),
      Moved("t1", 1, "F", "P", 3), Flips("t1", 1, "F", "false"),
      Moved("t3", 1, "gate", "user", 2), Moved("t2", 2, "P", "B", 1)>>
Routed ==
    <<Moved("t1", 1, "P", "B", 2), Moved("t1", 1, "B", "R", 2), Moved("t1", 1, "R", "P", 2),
      StoredEvent("mint", "t2", 1, "user", "user", 4, "none"),
      Moved("t2", 1, "user", "R", 1), Moved("t2", 1, "R", "P", 1),
      Flips("t3", 1, "user", "true"), Moved("t3", 1, "user", "boss", 0)>>
Sales ==
    <<Moved("t2", 1, "user", "P", 5),
      StoredEvent("admin_changed", "t1", 1, "boss", "user", 0, "none"),
      Moved("t3", 1, "boss", "P", 1), Moved("t3", 1, "boss", "user", 1),
      Moved("t1", 2, "P", "user", 1)>>
SomeMonths == {<<>>, Cycles, Routed, Sales}
DayOne     == <<1, 2>>

-----------------------------------------------------------------------------
\* Parts that do not work start in one state.
DataInit ==
    /\ part \in {"prices", "backfill", "report", "contents"}
    /\ Init /\ ReportInit
    /\ BackfillInit
    /\ part # "backfill" => tables.pools = {} /\ \A p \in Priceable : onChain[p] = 0
    /\ journal \in SomeMonths /\ (part # "contents" => journal = <<>>)
    /\ ContentsInit /\ "known" \notin {contractCache[a] : a \in DOMAIN MadeBy}
    /\ \A h \in DOMAIN Signed : txCache[h] = "missing"

Pricing == part = "prices" /\ Next /\ UNCHANGED <<backfillVars, readerVars, part>>
Filling == part = "backfill" /\ BackfillNext /\ UNCHANGED <<vars, readerVars, part>>
Reporting ==
    part = "report" /\ ReportNext /\ UNCHANGED <<vars, backfillVars, contentsVars, part>>
Explaining ==
    part = "contents" /\ ContentsNext /\ UNCHANGED <<vars, backfillVars, reportVars, part>>

DataNext == Pricing \/ Filling \/ Reporting \/ Explaining

DataSpec == DataInit /\ [][DataNext]_dataVars
=============================================================================
