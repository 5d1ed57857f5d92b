--------------------------- MODULE HolderEcosystem ---------------------------
(***************************************************************************)
(* The holder view of one visitor (app/components/ecosystem/               *)
(* useEcosystemData.ts over app/lib/holders.ts).  An indexer that follows  *)
(* the ledger with a delay says which addresses hold an entry; the edge    *)
(* keeps its answer for a while (functions/api/holders.ts); the page asks  *)
(* again when its own copy is old and reads the balances from the ledger   *)
(* at every poll.  Time is counted in polls.                               *)
(***************************************************************************)
EXTENDS Naturals

CONSTANTS
    Address,
    Horizon,        \* the safety limit L
    Held,           \* balances an entry may hold
    IndexRefresh,   \* polls after which the page's index is old
    EdgeLife,       \* polls the edge keeps an answer for
    MaxPolls, MaxChanges  \* bounds: polls, and changes on the ledger

ASSUME EcosystemAssumption ==
    /\ Horizon \in Nat \ {0} /\ Held \subseteq Nat
    /\ {IndexRefresh, EdgeLife, MaxPolls, MaxChanges} \subseteq Nat

VARIABLES
    entries,    \* Balance entries: what they hold and when they were written; 0: none
    listed,     \* registered pools and routers
    changes,    \* changes on the ledger so far
    expert,     \* the indexer: when it saw each entry written; 0: no record
    edgeCache,       \* the cached index and its age
    poll,       \* the present poll
    page,       \* the hook's variables
    waited      \* polls that ended well since the indexer knows each address

ledgerVars    == <<entries, listed, changes>>
ecosystemVars == <<ledgerVars, expert, edgeCache, poll, page, waited>>

NoEntry  == [held |-> 0, written |-> 0]
NoIndex  == [a \in Address |-> 0]
Untold   == [ledger |-> 0, at |-> 0]    \* at = 0: null
NoFrame  == [held |-> [a \in {} |-> 0], pools |-> {}, routers |-> {}, active |-> NoIndex]

Listed(kind) == {a \in Address : listed[a] = kind}
Known(index) == {a \in Address : index[a] > 0}

-----------------------------------------------------------------------------
\* What is drawn of a snapshot.

StatusFor(held, limit) ==
    IF held > limit THEN "vaulted" ELSE IF 4 * held > 3 * limit THEN "near" ELSE "safe"

\* Pools whether or not they hold anything, then every other holder but routers.
EcoHolders(frame, limit) ==
    {[id |-> a, kind |-> "pool", status |-> "pool",
      balance |-> IF a \in DOMAIN frame.held THEN frame.held[a] ELSE 0] : a \in frame.pools}
    \cup
    {[id |-> a, kind |-> "account", status |-> StatusFor(frame.held[a], limit),
      balance |-> frame.held[a]] :
        a \in {b \in DOMAIN frame.held \ (frame.pools \cup frame.routers) : frame.held[b] > 0}}

-----------------------------------------------------------------------------
\* The ledger, the indexer and the edge.

Change == changes < MaxChanges /\ changes' = changes + 1

MoveBalance(a, held) ==
    /\ Change
    /\ entries' = [entries EXCEPT ![a] = [held |-> held, written |-> poll]]
    /\ entries'[a] # entries[a]
    /\ UNCHANGED <<listed, expert, edgeCache, poll, page, waited>>

Register(a, kind) ==
    /\ Change /\ listed[a] # kind /\ listed' = [listed EXCEPT ![a] = kind]
    /\ UNCHANGED <<entries, expert, edgeCache, poll, page, waited>>

ExpertCatchesUp(a) ==
    /\ expert[a] # entries[a].written
    /\ expert' = [expert EXCEPT ![a] = entries[a].written]
    /\ UNCHANGED <<ledgerVars, edgeCache, poll, page, waited>>

\* Mutant: the edge never lets go of an answer.
ForeverFresh == edgeCache.age <= MaxPolls

EdgeFresh == edgeCache.age <= EdgeLife

\* The indexer's listing, page by page; the page knows how to ask it as well.
ContractDataIndex == expert
IndexDirect       == expert

\* A hit, or the listing, put into the cache.
EdgeAfterGet   == IF EdgeFresh THEN edgeCache ELSE [index |-> ContractDataIndex, age |-> 0]
IndexViaWorker == EdgeAfterGet.index

OtherVisitor ==
    /\ ~EdgeFresh /\ edgeCache' = EdgeAfterGet
    /\ UNCHANGED <<ledgerVars, expert, poll, page, waited>>

-----------------------------------------------------------------------------
\* One tick of the page.

\* setInterval, and the busy flag; the first tick comes with the mount.
Poll ==
    /\ poll < MaxPolls /\ poll' = poll + 1
    /\ edgeCache' = [edgeCache EXCEPT !.age = @ + 1]
    /\ page' = [page EXCEPT !.indexAge = @ + 1,
                    !.step = IF @ # "idle" THEN @
                             ELSE IF page.indexAge + 1 > IndexRefresh THEN "index" ELSE "states"]
    /\ UNCHANGED <<ledgerVars, expert, waited>>

\* Mutant: every index fetched overwrites what is known of the last moves.
ActivityForgotten(index) ==
    [a \in Address |-> IF index[a] > 0 THEN [ledger |-> 0, at |-> index[a]] ELSE page.activity[a]]

\* Addresses the map lacks: neither indexed nor read before.
ActivityOfIndex(index) ==
    [a \in Address |->
        IF index[a] > 0 /\ page.activity[a] = Untold THEN [ledger |-> 0, at |-> index[a]]
        ELSE page.activity[a]]

\* listRegistrations answered: labels are asked for when the pools are others.
WithRegistry(p) ==
    [p EXCEPT !.pools = Listed("pool"), !.routers = Listed("router"), !.step = "states",
              !.labelled = Listed("pool"),
              !.naming = IF Listed("pool") = p.labelled THEN @ ELSE @ \cup {Listed("pool")}]

\* The worker's answer, or the indexer asked directly when the worker fails.
IndexArrives ==
    /\ page.step = "index"
    /\ \E answer \in {[index |-> IndexViaWorker, edgeCache |-> EdgeAfterGet],
                      [index |-> IndexDirect, edgeCache |-> edgeCache]} :
          /\ edgeCache' = answer.edgeCache
          /\ page' = WithRegistry([page EXCEPT !.index = answer.index, !.indexAge = 0,
                                        !.indexError = FALSE, !.clean = TRUE,
                                        !.activity = ActivityOfIndex(answer.index)])
    /\ UNCHANGED <<ledgerVars, expert, poll, waited>>

\* Both sources fail: the old index serves on.
IndexFails ==
    /\ page.step = "index"
    /\ page' = WithRegistry([page EXCEPT !.indexError = TRUE, !.clean = FALSE])
    /\ UNCHANGED <<ledgerVars, expert, edgeCache, poll, waited>>

\* The catch of a tick: an error shows only before the first frame.  The index
\* may have failed together with the registry.
TickFails ==
    /\ page.step \in {"index", "states"}
    /\ \E alsoIndex \in BOOLEAN :
          /\ alsoIndex => page.step = "index"
          /\ page' = [page EXCEPT !.step = "idle", !.clean = TRUE,
                          !.indexError = @ \/ alsoIndex,
                          !.sync = IF page.hasData THEN @ ELSE "error"]
    /\ UNCHANGED <<ledgerVars, expert, edgeCache, poll, waited>>

\* readHolderStates: entries of the indexed addresses and the pools.
Read == {a \in Known(page.index) \cup page.pools : entries[a].written > 0}

ActivityAfterRead ==
    [a \in Address |->
        IF a \notin Read THEN page.activity[a]
        ELSE [ledger |-> entries[a].written,
              at |-> IF page.activity[a].ledger > 0 /\ entries[a].written > page.activity[a].ledger
                     THEN poll ELSE page.activity[a].at]]

StatesArrive ==
    /\ page.step = "states"
    /\ page' = [page EXCEPT
                   !.step = "idle", !.hasData = TRUE, !.sync = "live", !.clean = TRUE,
                   !.activity = ActivityAfterRead,
                   !.frame = [held |-> [a \in Read |-> entries[a].held],
                              pools |-> page.pools, routers |-> page.routers,
                              active |-> [a \in Address |-> ActivityAfterRead[a].at]]]
    /\ waited' = [a \in Address |->
                    IF page.clean /\ expert[a] > 0 /\ waited[a] <= MaxPolls
                    THEN waited[a] + 1 ELSE waited[a]]
    /\ UNCHANGED <<ledgerVars, expert, edgeCache, poll>>

\* describePools answers, in any order: the last answer stays.
NamesArrive(pools) ==
    /\ pools \in page.naming
    /\ page' = [page EXCEPT !.naming = @ \ {pools}, !.labels = pools]
    /\ UNCHANGED <<ledgerVars, expert, edgeCache, poll, waited>>

-----------------------------------------------------------------------------
\* The page opens on a ledger its indexer has caught up with.
EcosystemInit ==
    /\ poll = 1 /\ changes = 0 /\ waited = NoIndex
    /\ entries \in [Address -> {NoEntry} \cup [held : Held, written : {1}]]
    /\ listed \in [Address -> {"no", "pool"}]
    /\ expert = [a \in Address |-> entries[a].written]
    /\ edgeCache = [index |-> NoIndex, age |-> EdgeLife + 1]
    /\ page = [step |-> "index", index |-> NoIndex, indexAge |-> IndexRefresh + 1,
               indexError |-> FALSE, pools |-> {}, routers |-> {}, labelled |-> {}, naming |-> {},
               labels |-> {}, activity |-> [a \in Address |-> Untold], frame |-> NoFrame,
               hasData |-> FALSE, sync |-> "loading", clean |-> TRUE]

EcosystemNext ==
    \/ \E a \in Address :
          \/ \E held \in Held : MoveBalance(a, held)
          \/ \E kind \in {"no", "pool", "router"} : Register(a, kind)
          \/ ExpertCatchesUp(a)
    \/ OtherVisitor \/ Poll \/ IndexArrives \/ IndexFails \/ TickFails \/ StatesArrive
    \/ \E pools \in page.naming : NamesArrive(pools)

EcosystemSpec == EcosystemInit /\ [][EcosystemNext]_ecosystemVars

EcosystemTypeOK ==
    /\ entries \in [Address -> [held : Held \cup {0}, written : 0..MaxPolls]]
    /\ listed \in [Address -> {"no", "pool", "router"}]
    /\ expert \in [Address -> 0..MaxPolls] /\ poll \in 1..MaxPolls
    /\ page.step \in {"idle", "index", "states"} /\ page.sync \in {"loading", "live", "error"}
    /\ page.sync = "live" <=> page.hasData

\* api/holders.ts:15-17 and useEcosystemData.ts: the index is cached twice, and
\* a new holder still shows after the two lifetimes in polls that ended well,
\* however the caches of other visitors, failures and the ledger fall together.
Patience == IndexRefresh + EdgeLife + 1

NewcomersAppear ==
    \A a \in Address : waited[a] > Patience =>
        \/ \E h \in EcoHolders(page.frame, Horizon) : h.id = a
        \/ a \in page.frame.routers
        \/ a \in DOMAIN page.frame.held /\ page.frame.held[a] = 0

\* useEcosystemData.ts:116-119, 137-141: the time of an account's last move, put
\* together from an index that lags and ledgers read since, never goes back.
ActivityNeverRewinds ==
    [][\A a \in Address : page'.frame.active[a] >= page.frame.active[a]]_page
=============================================================================
