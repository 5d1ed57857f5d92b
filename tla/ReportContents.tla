---------------------------- MODULE ReportContents ----------------------------
(***************************************************************************)
(* What a monthly report says of the events it read: generateReport of     *)
(* scripts/contract-report.mjs.  The events of the month are counted,      *)
(* contracts and envelopes missing from the caches are looked up, each     *)
(* lookup on its own and any of them in vain, and every transaction with a *)
(* transfer is explained under the first playbook that fits it.            *)
(*                                                                         *)
(* How the events are read is EventReport's; wording, dates within a day,  *)
(* the chart and the ten busiest addresses are left out.                   *)
(***************************************************************************)
EXTENDS Integers, Sequences, FiniteSets, FiniteSetsExt, Functions

CONSTANTS
    Journals,       \* event stores, in id order
    SponsorKey, AdminKey,
    Roles,          \* KNOWN_CONTRACTS: address -> kind
    Creators,       \* contract -> who created it
    Envelopes,      \* transaction -> its source, inner source and fee account
    Month           \* [first, last): the days of the report

\* Amounts are natural, and an account is vaulted or released.
ASSUME ContentsAssumption ==
    \A stored \in Journals :
        /\ stored \in Seq(Range(stored))
        /\ \A e \in Range(stored) :
              /\ e.amount \in Nat /\ e.tx \in DOMAIN Envelopes
              /\ e.name = "vaulted" => e.flag \in {"true", "false"}

VARIABLES
    journal,        \* hitz_events
    contractCache, txCache,     \* "missing", "error", or "known"
    contents        \* the report

contentsVars == <<journal, contractCache, txCache, contents>>

Null      == "null"
Unwritten == [written |-> FALSE]

\* Contract ids and account ids have prefixes of their own.
IsContractAddr(a) == a \in DOMAIN Creators
KindOf(a)         == IF a \in DOMAIN Roles THEN Roles[a] ELSE Null

-----------------------------------------------------------------------------
\* The window and its counts.  Events are told apart by their place.

InWindow(e) == Month[1] <= e.day /\ e.day < Month[2]
Events      == {i \in DOMAIN journal : InWindow(journal[i])}
ByName(n)   == {i \in Events : journal[i].name = n}
Transfers   == ByName("transfer")
Vaults      == ByName("vaulted")

Volume(legs) == SumFunctionOnSet([i \in DOMAIN journal |-> journal[i].amount], legs)
LegsOf(h)    == {i \in Transfers : journal[i].tx = h}
TxsByHash    == {journal[i].tx : i \in Transfers}
Parties(evs) == UNION {{journal[i].from, journal[i].to} : i \in evs}
Flagged(evs, flag) == Cardinality({i \in evs : journal[i].flag = flag})

ActiveAddrs ==
    Parties(Transfers) \cup {journal[i].from : i \in ByName("mint") \cup ByName("burn")}

Summary ==
    [events |-> Cardinality(Events), active |-> Cardinality(ActiveAddrs),
     transfers |-> Cardinality(Transfers), volume |-> Volume(Transfers),
     mints |-> Cardinality(ByName("mint")), burns |-> Cardinality(ByName("burn")),
     trapped |-> Flagged(Vaults, "true"), released |-> Flagged(Vaults, "false"),
     sponsored |-> Volume({i \in Transfers : journal[i].from = SponsorKey}),
     byAdmin |-> Cardinality({i \in Transfers : journal[i].from = AdminKey}),
     governance |-> Cardinality(ByName("pool_registered") \cup ByName("router_registered")
                                    \cup ByName("admin_changed"))]

\* Registrations up to the end of the month; a removal is any flag but true.
Registered(name) ==
    LET of(a) == {i \in DOMAIN journal :
                     journal[i].name = name /\ journal[i].from = a /\ journal[i].day < Month[2]}
    IN  {a \in DOMAIN Creators :
            \E i \in of(a) : journal[i].flag = "true" /\ \A j \in of(a) : j <= i}

-----------------------------------------------------------------------------
\* The caches.

ContractsSeen ==
    {a \in Parties(Transfers) \cup {journal[i].from : i \in Vaults} : IsContractAddr(a)}

FetchContractInfo(a) ==
    /\ ~contents.written /\ a \in ContractsSeen /\ contractCache[a] = "missing"
    /\ \E answer \in {"known", "error"} : contractCache' = [contractCache EXCEPT ![a] = answer]
    /\ UNCHANGED <<journal, txCache, contents>>

FetchTxInfo(h) ==
    /\ ~contents.written /\ h \in TxsByHash /\ txCache[h] = "missing"
    /\ \E answer \in {"known", "error"} : txCache' = [txCache EXCEPT ![h] = answer]
    /\ UNCHANGED <<journal, contractCache, contents>>

CreatorOf(a) ==
    IF IsContractAddr(a) /\ contractCache[a] = "known" THEN Creators[a] ELSE Null

\* txSource and the two questions the playbooks ask of an envelope; the source
\* inside a fee bump is the one that counts.
TxSource(h) ==
    IF txCache[h] # "known" THEN Null
    ELSE IF Envelopes[h].inner # Null THEN Envelopes[h].inner ELSE Envelopes[h].source

IsFeeBump(h) == txCache[h] = "known" /\ Envelopes[h].inner # Null

InitiatorMode(h) ==
    IF txCache[h] # "known" THEN "n/a"
    ELSE IF SponsorKey \in {Envelopes[h].source, Envelopes[h].fee} THEN "gateway"
    ELSE IF IsFeeBump(h) THEN "3p-bump" ELSE "direct wallet"

\* The first label that fits; the owner is told from the contract's creator.
DescribeAddress(a, source) ==
    IF ~IsContractAddr(a) THEN (IF a \in {SponsorKey, AdminKey} THEN a ELSE "external account")
    ELSE IF KindOf(a) # Null THEN KindOf(a)
    ELSE IF a \in Registered("pool_registered") THEN "HITZ-registered pool"
    ELSE IF a \in Registered("router_registered") THEN "HITZ-registered router"
    ELSE IF CreatorOf(a) = Null THEN "metadata unavailable"
    ELSE IF CreatorOf(a) = source THEN "personal contract" ELSE "contract"

-----------------------------------------------------------------------------
\* classifyTx: who passes HITZ through, gets it, gives it.

Received(legs, a) == Volume({i \in legs : journal[i].to = a})
Sent(legs, a)     == Volume({i \in legs : journal[i].from = a})

ClassifyTx(legs) ==
    LET addrs    == Parties(legs)
        grossIn  == [a \in addrs |-> Received(legs, a)]
        grossOut == [a \in addrs |-> Sent(legs, a)]
    IN  [addresses    |-> addrs,
         passThroughs |-> {a \in addrs : grossIn[a] > 0 /\ grossIn[a] = grossOut[a]},
         acquirers    |-> {a \in addrs : grossIn[a] > 0 /\ grossOut[a] = 0},
         distributors |-> {a \in addrs : grossOut[a] > 0 /\ grossIn[a] = 0}]

ByRouter(cls) == \E a \in cls.passThroughs : KindOf(a) = "router"

Matches(id, cls, h) ==
    CASE id = "flashloan-arb" -> \E a \in cls.addresses : KindOf(a) = "flashloan"
      [] id = "owner-arb" ->
            TxSource(h) # Null /\ \E a \in cls.passThroughs : CreatorOf(a) = TxSource(h)
      [] id = "sponsor-claim" -> SponsorKey \in cls.distributors
      [] id = "admin-direct" -> AdminKey \in cls.distributors
      [] id = "aggregator-third-party" ->
            ByRouter(cls) /\ IsFeeBump(h) /\ Envelopes[h].fee # SponsorKey
      [] id = "aggregator-direct" -> ByRouter(cls) /\ ~IsFeeBump(h)
      [] id = "direct-swap" ->
            /\ cls.passThroughs = {}
            /\ Cardinality(cls.distributors) = 1 /\ Cardinality(cls.acquirers) = 1
            /\ \E a \in cls.distributors \cup cls.acquirers : IsContractAddr(a)
      [] id = "unmatched" -> TRUE

\* Mutant: the two kinds of arbitrage change places.
OwnerFirst ==
    <<"owner-arb", "flashloan-arb", "sponsor-claim", "admin-direct", "aggregator-third-party",
      "aggregator-direct", "direct-swap", "unmatched">>

\* The first match wins; "unmatched" matches whatever is left.
Playbooks ==
    <<"flashloan-arb", "owner-arb", "sponsor-claim", "admin-direct", "aggregator-third-party",
      "aggregator-direct", "direct-swap", "unmatched">>

PlaybookOf(h) ==
    LET cls     == ClassifyTx(LegsOf(h))
        fits(i) == Matches(Playbooks[i], cls, h)
    IN  Playbooks[CHOOSE i \in DOMAIN Playbooks : fits(i) /\ \A j \in 1..(i - 1) : ~fits(j)]

-----------------------------------------------------------------------------
\* One row for each address a transaction traps or releases.

VaultRows ==
    LET row(h, a) ==
            LET mine == {i \in Vaults : journal[i].tx = h /\ journal[i].from = a}
            IN  [tx |-> h, addr |-> a, label |-> DescribeAddress(a, TxSource(h)),
                 trappedHere |-> Flagged(mine, "true") > 0,
                 releasedHere |-> Flagged(mine, "false") > 0,
                 inflow |-> Received(LegsOf(h), a), outflow |-> Sent(LegsOf(h), a)]
    IN  {row(journal[i].tx, journal[i].from) : i \in Vaults}

Transient(r) == r.trappedHere /\ r.releasedHere

\* The most recent of a group is shown leg by leg, the rest in a table.
LastDay(h)  == journal[Min(LegsOf(h))].day
Latest(txs) == {h \in txs : \A other \in txs : LastDay(other) <= LastDay(h)}

TotalOf(txs) == SumFunctionOnSet([h \in txs |-> Volume(LegsOf(h))], txs)

Entry(h) ==
    [tx |-> h, source |-> TxSource(h), mode |-> InitiatorMode(h), moved |-> Volume(LegsOf(h))]

Example(h) ==
    [entry |-> Entry(h),
     legs |-> [i \in LegsOf(h) |->
                  <<DescribeAddress(journal[i].from, TxSource(h)),
                    DescribeAddress(journal[i].to, TxSource(h)), journal[i].amount>>],
     flipped |-> {a \in ClassifyTx(LegsOf(h)).passThroughs :
                     \E i \in Vaults : journal[i].tx = h /\ journal[i].from = a}]

WriteReport ==
    /\ ~contents.written
    /\ \A a \in ContractsSeen : contractCache[a] # "missing"
    /\ \A h \in TxsByHash : txCache[h] # "missing"
    /\ LET book  == [h \in TxsByHash |-> PlaybookOf(h)]
           group == [i \in {book[h] : h \in TxsByHash} |-> {h \in TxsByHash : book[h] = i}]
       IN  \E first \in [DOMAIN group -> TxsByHash] :
              /\ \A i \in DOMAIN group : first[i] \in Latest(group[i])
              /\ contents' =
                    [written  |-> TRUE,
                     groups   |-> [i \in DOMAIN group |-> {Entry(h) : h \in group[i]}],
                     totals   |-> [i \in DOMAIN group |-> TotalOf(group[i])],
                     examples |-> [i \in DOMAIN group |-> Example(first[i])],
                     summary  |-> Summary, rows |-> VaultRows]
    /\ UNCHANGED <<journal, contractCache, txCache>>

-----------------------------------------------------------------------------
\* The caches hold what the cron has looked up so far.
ContentsInit ==
    /\ journal \in Journals /\ contents = Unwritten
    /\ contractCache \in [DOMAIN Creators -> {"missing", "known"}]
    /\ txCache \in [DOMAIN Envelopes -> {"missing", "known"}]

ContentsNext ==
    \/ \E a \in DOMAIN Creators : FetchContractInfo(a)
    \/ \E h \in DOMAIN Envelopes : FetchTxInfo(h)
    \/ WriteReport

ContentsSpec == ContentsInit /\ [][ContentsNext]_contentsVars

-----------------------------------------------------------------------------
\* The month's transfers and flips, and where the report lists a transaction.
Moving      == {e \in Range(journal) : e.name = "transfer" /\ InWindow(e)}
VaultFlips  == {e \in Range(journal) : e.name = "vaulted" /\ InWindow(e)}
ListedIn(h) == {i \in DOMAIN contents.groups : \E t \in contents.groups[i] : t.tx = h}

EachIsListedOnce ==
    \A h \in DOMAIN Envelopes :
        Cardinality(ListedIn(h)) = IF \E e \in Moving : e.tx = h THEN 1 ELSE 0

TotalsAreVolume ==
    SumFunctionOnSet(contents.totals, DOMAIN contents.groups) = contents.summary.volume

\* The headings: a loan, an owner and a third party's fee bump are claimed only
\* of transactions that had one, and every loan is claimed.
HeadingsAreTrue ==
    LET lent(h) == \E e \in Moving : e.tx = h /\ "flashloan" \in {KindOf(e.from), KindOf(e.to)}
        isSource(a, h) == a = IF Envelopes[h].inner = Null THEN Envelopes[h].source
                              ELSE Envelopes[h].inner
    IN  \A h \in DOMAIN Envelopes :
            /\ lent(h) <=> ListedIn(h) = {"flashloan-arb"}
            /\ ListedIn(h) = {"owner-arb"} =>
                  \E e \in Moving : /\ e.tx = h /\ e.to \in DOMAIN Creators
                                    /\ isSource(Creators[e.to], h)
            /\ ListedIn(h) = {"aggregator-third-party"} =>
                  Envelopes[h].inner # Null /\ Envelopes[h].fee # SponsorKey

\* The line of a transaction in group i: who initiated it and in which mode.
\* Only where the mode is "n/a" may the heading "direct wallet" be wrong.
LineIsTrue(i, t) ==
    LET signed == Envelopes[t.tx]
        ours   == SponsorKey \in {signed.source, signed.fee}
        bumped == signed.inner # Null
    IN  /\ t.source \in {Null, IF bumped THEN signed.inner ELSE signed.source}
        /\ t.mode = "gateway" => ours
        /\ t.mode = "3p-bump" => bumped /\ ~ours
        /\ t.mode = "direct wallet" => ~bumped /\ ~ours
        /\ i = "aggregator-direct" /\ t.mode # "n/a" => ~bumped

LinesAreTrue == \A i \in DOMAIN contents.groups : \A t \in contents.groups[i] : LineIsTrue(i, t)

FlipsHaveRows ==
    /\ {r.tx : r \in contents.rows} = {e.tx : e \in VaultFlips}
    /\ \A e \in VaultFlips : \E r \in contents.rows :
          /\ r.tx = e.tx /\ r.addr = e.from
          /\ IF e.flag = "true" THEN r.trappedHere ELSE r.releasedHere

\* contract-report.mjs:705-709, "EVERY HITZ-touching tx in the window gets
\* narrated", :215, "MUST stay ahead of owner-arb", and :862-864.  Whatever
\* lookups failed, each transaction that moved HITZ in the month is listed once,
\* the groups add up to the month's volume, no trap or release is missing from
\* the vault's rows, and what is said of an initiator from its envelope or its
\* contract's creator is so, except that a routed swap whose envelope is
\* unknown, its mode "n/a", is filed as direct.
ReportIsComplete ==
    contents.written =>
        /\ EachIsListedOnce /\ TotalsAreVolume /\ FlipsHaveRows
        /\ HeadingsAreTrue /\ LinesAreTrue
=============================================================================
