----------------------------- MODULE SwapPanel ------------------------------
(***************************************************************************)
(* components/scenarios/SmartSwap.tsx: the swap form, its debounced and    *)
(* race-guarded quotes in both directions, and the swap.  React's state    *)
(* and refs are the record ui; Render is a state update with the effects   *)
(* that run after it.  Quotes are asked when a timer fires and answered    *)
(* in any order, with any of the results their rounds of calls may have.   *)
(* An amount is a string to parseAmount: BigInt throws at a text it cannot *)
(* read, inside an effect, and no error boundary keeps the page.           *)
(***************************************************************************)
EXTENDS SwapRoutes, FiniteSets

CONSTANTS
    Amounts,        \* amounts the user types; 0 is the empty field
    Registries,     \* pool lists the token's registry may resolve to
    GroupFrom,      \* the least amount formatStroops writes with a separator
    SlippageBps,    \* the slippage chosen
    MaxEdits        \* bound: edits by the user and changes of the registry

None == "none"

\* A list of pools that each pair two tokens.
IsPoolList(list) ==
    /\ list \in Seq(Range(list))
    /\ \A i \in DOMAIN list : \E x, y \in list[i].tokens \ {None} : x # y /\ list[i].tokens = {x, y}

ASSUME SwapAssumption ==
    /\ Amounts \subseteq Nat /\ Probe \in Nat /\ {SplitStep, GroupFrom} \subseteq Nat \ {0}
    /\ \A list \in Registries : IsPoolList(list)
    /\ \A list \in Registries, reserves \in Graphs : \A i \in DOMAIN list :
          list[i].indexed => \A t \in list[i].tokens : reserves[list[i].id][t] \in Nat

VARIABLES
    ui,         \* the component's state and refs
    asks,       \* forward quotes under way
    reverseAsks,    \* reverse quotes under way
    loads,      \* pool lists under way
    registry,   \* the pool list of the ledger
    down,       \* an effect threw and the page is gone
    swap,       \* the swap handed to the wallet or the gateway
    edits       \* edits so far

swapVars == <<ui, asks, reverseAsks, loads, registry, down, swap, edits>>

NoTimer == [amount |-> 0]
Waiting == [status |-> "loading"]
NoQuote == [status |-> "idle"]
Failed == [status |-> "error"]

TokenIn(f) == IF f.mode = "buy" THEN f.alt ELSE Hitz
TokenOut(f) == IF f.mode = "buy" THEN Hitz ELSE f.alt

\* What a forward quote is asked for, and what a reverse quote is.
ForwardKey(f) == [in |-> TokenIn(f), out |-> TokenOut(f), amount |-> f.amountIn, pools |-> f.pools]
ReverseKey(f) == [in |-> TokenIn(f), out |-> TokenOut(f), amount |-> f.amountOut, pools |-> f.pools]

\* What makes an effect run again: a list of pools counts as changed when it was
\* read again, whatever is in it.
Dependencies(key, f) == <<key, f.direction, f.reread>>

\* The state the form mounts with.
Fresh ==
    [form |-> [mode |-> "buy", alt |-> None, pools |-> <<>>, amountIn |-> 0, amountOut |-> 0,
               direction |-> "exact-in", reread |-> FALSE],
     quote |-> NoQuote, quoteSeq |-> 0, timer |-> NoTimer,
     reverseSeq |-> 0, reverseTimer |-> NoTimer, reverseLoading |-> FALSE, reverseError |-> FALSE]

Cleared(f) == [f EXCEPT !.amountIn = 0, !.amountOut = 0, !.direction = "exact-in"]

-----------------------------------------------------------------------------
\* Mutant: a new forward quote keeps the old sequence number.
SameSeq(u) == u.quoteSeq

\* ++quoteSeq.current
NextSeq(u) == u.quoteSeq + 1

\* The forward effect: runs when one of its dependencies changed, clears the
\* timer of its last run, and asks again or shows no quote.
ForwardEffect(u, before) ==
    LET f == u.form
        runs == Dependencies(ForwardKey(f), f) # Dependencies(ForwardKey(before), before)
        asking == f.amountIn > 0 /\ f.alt # None
    IN  IF ~runs THEN u
        ELSE IF f.direction # "exact-in" THEN [u EXCEPT !.timer = NoTimer]
        ELSE IF ~asking THEN
            [u EXCEPT !.timer = NoTimer, !.quote = NoQuote,
                      !.form.amountOut = IF f.amountIn = 0 THEN 0 ELSE @]
        ELSE [u EXCEPT !.quoteSeq = NextSeq(u), !.quote = Waiting, !.timer = ForwardKey(f)]

\* The reverse effect, for a target output.
ReverseEffect(u, before) ==
    LET f == u.form
        runs == Dependencies(ReverseKey(f), f) # Dependencies(ReverseKey(before), before)
        asking == f.amountOut > 0 /\ f.alt # None
    IN  IF ~runs THEN u
        ELSE IF f.direction # "exact-out" THEN [u EXCEPT !.reverseTimer = NoTimer]
        ELSE IF ~asking THEN
            [u EXCEPT !.reverseTimer = NoTimer, !.quote = NoQuote, !.reverseLoading = FALSE,
                      !.reverseError = FALSE, !.form.amountIn = IF f.amountOut = 0 THEN 0 ELSE @]
        ELSE [u EXCEPT !.reverseSeq = @ + 1, !.reverseLoading = TRUE, !.reverseError = FALSE,
                       !.reverseTimer = ReverseKey(f)]

\* An effect throws: the form unmounts, and what is under way answers nobody.
GoesDown ==
    /\ down' = TRUE /\ ui' = Fresh
    /\ asks' = {} /\ reverseAsks' = {} /\ loads' = {}

\* A state update that makes the form f, then the effects in their order.
Render(u, f) == ReverseEffect(ForwardEffect([u EXCEPT !.form = f], u.form), u.form)

Show(f) == ui' = Render(ui, f)

-----------------------------------------------------------------------------
\* The user.

Edit == edits < MaxEdits /\ edits' = edits + 1

TypeAmountIn(n) ==
    /\ Edit /\ n # ui.form.amountIn
    /\ Show([ui.form EXCEPT !.amountIn = n, !.direction = "exact-in"])
    /\ UNCHANGED <<asks, reverseAsks, loads, registry, down, swap>>

TypeAmountOut(n) ==
    /\ Edit /\ n # ui.form.amountOut
    /\ Show([ui.form EXCEPT !.amountOut = n, !.direction = "exact-out"])
    /\ UNCHANGED <<asks, reverseAsks, loads, registry, down, swap>>

\* A text that is no number: a letter, a separator, or what is typed behind the
\* dots of a field that is loading.
TypeUnreadable == Edit /\ GoesDown /\ UNCHANGED <<registry, swap>>

FlipMode ==
    /\ Edit
    /\ Show(Cleared([ui.form EXCEPT !.mode = IF @ = "buy" THEN "sell" ELSE "buy"]))
    /\ UNCHANGED <<asks, reverseAsks, loads, registry, down, swap>>

PickAltToken(t) ==
    /\ Edit /\ t # ui.form.alt
    /\ Contains(HitzPairTokens(ui.form.pools), t)
    /\ Show([ui.form EXCEPT !.alt = t, !.direction = "exact-in"])
    /\ UNCHANGED <<asks, reverseAsks, loads, registry, down, swap>>

\* The window gets the focus and the pools are read again.
Focus ==
    /\ Edit
    /\ loads' = loads \cup {registry}
    /\ UNCHANGED <<ui, asks, reverseAsks, registry, down, swap>>

\* A pool list arrives, empty when reading it failed; the last to arrive
\* counts.  A selected token that it no longer offers is replaced by its first,
\* in a second update; an empty list leaves the selection.
PoolsArrive(l, got) ==
    /\ loads' = loads \ {l}
    /\ LET u == Render(ui, [ui.form EXCEPT !.pools = got, !.reread = ~@])
           offered == HitzPairTokens(got)
       IN  ui' = IF offered = <<>> \/ Contains(offered, u.form.alt) THEN u
                 ELSE Render(u, Cleared([u.form EXCEPT !.alt = offered[1]]))
    /\ UNCHANGED <<asks, reverseAsks, registry, down, swap, edits>>

-----------------------------------------------------------------------------
\* Quotes.

TimerFires ==
    /\ ui.timer # NoTimer
    /\ asks' = asks \cup {[seq |-> ui.quoteSeq, key |-> ui.timer]}
    /\ ui' = [ui EXCEPT !.timer = NoTimer]
    /\ UNCHANGED <<reverseAsks, loads, registry, down, swap, edits>>

\* The forward answer: dropped when another was asked since; otherwise shown,
\* its output mirrored into the form.
QuoteArrives(a) ==
    /\ asks' = asks \ {a}
    /\ IF a.seq # ui.quoteSeq THEN UNCHANGED ui
       ELSE \E result \in Aggregates(a.key.in, a.key.out, a.key.amount, a.key.pools) :
               LET ready == [status |-> "ready", key |-> a.key, result |-> result] IN
               IF result.legs = <<>> THEN ui' = [ui EXCEPT !.quote = Failed]
               ELSE ui' = Render([ui EXCEPT !.quote = ready],
                                 [ui.form EXCEPT !.amountOut = result.totalOut])
    /\ UNCHANGED <<reverseAsks, loads, registry, down, swap, edits>>

ReverseTimerFires ==
    /\ ui.reverseTimer # NoTimer
    /\ reverseAsks' = reverseAsks \cup {[seq |-> ui.reverseSeq, key |-> ui.reverseTimer]}
    /\ ui' = [ui EXCEPT !.reverseTimer = NoTimer]
    /\ UNCHANGED <<asks, loads, registry, down, swap, edits>>

\* The reverse answer is taken and leaves the state u.
ReverseAnswered(a, u) ==
    reverseAsks' = reverseAsks \ {a} /\ ui' = u /\ UNCHANGED <<asks, loads, down>>

\* The reverse answer, written by formatStroops, becomes the input amount, and
\* the forward effect reads it back: with a separator in it the page is gone.
ReverseArrives(a) ==
    /\ \/ a.seq # ui.reverseSeq /\ ReverseAnswered(a, ui)
       \/ /\ a.seq = ui.reverseSeq
          /\ \E need \in CheapestInputs(a.key.in, a.key.out, a.key.amount, a.key.pools) :
                LET u == [ui EXCEPT !.reverseLoading = FALSE]
                    found == [ui.form EXCEPT !.amountIn = need, !.direction = "exact-in"]
                IN  \/ need = 0
                       /\ ReverseAnswered(a, [u EXCEPT !.reverseError = TRUE, !.quote = NoQuote])
                    \/ need \in 1..GroupFrom - 1 /\ ReverseAnswered(a, Render(u, found))
                    \/ need >= GroupFrom /\ GoesDown
    /\ UNCHANGED <<registry, swap, edits>>

-----------------------------------------------------------------------------
\* The swap.

\* The legs with the largest output: handleSwap sorts with a comparison that
\* never answers 0, so which of equals comes first is the engine's.
Primaries(legs) ==
    {leg \in Range(legs) : \A other \in Range(legs) : other.amountOut <= leg.amountOut}

\* handleSwap: the primary leg's path for the whole amount of the form, with
\* the best single path's output as the price; SwapButton needs a ready quote.
HandleSwap ==
    /\ ui.quote.status = "ready" /\ swap.state # "signing"
    /\ LET result == ui.quote.result IN
       \E leg \in Primaries(result.legs) :
          LET call == BuildSwapArgs(leg.path, ui.form.amountIn, result.bestSingle,
                                    SlippageBps, ui.form.pools)
          IN  swap' = IF call.routable THEN [state |-> "signing", call |-> call]
                      ELSE [swap EXCEPT !.state = "error"]
    /\ UNCHANGED <<ui, asks, reverseAsks, loads, registry, down, edits>>

\* The call lands when the router pays the least output accepted, and the form
\* is cleared, whatever was typed meanwhile.
SwapAnswers ==
    /\ swap.state = "signing"
    /\ \/ /\ \E graph \in Graphs :
                LET got == PathOut(swap.call.path, swap.call.amountIn, registry, graph) IN
                got > 0 /\ got >= swap.call.minOut
          /\ swap' = [swap EXCEPT !.state = "success"]
          /\ ui' = Render([ui EXCEPT !.quote = NoQuote], Cleared(ui.form))
       \/ swap' = [swap EXCEPT !.state = "error"] /\ UNCHANGED ui
    /\ UNCHANGED <<asks, reverseAsks, loads, registry, down, edits>>

\* An admin changes the registry.
RegistryChanges ==
    /\ Edit /\ registry' \in Registries \ {registry}
    /\ UNCHANGED <<ui, asks, reverseAsks, loads, down, swap>>

-----------------------------------------------------------------------------
\* Mounted: the pools are being read.
SwapInit ==
    /\ registry \in Registries /\ ui = Fresh /\ down = FALSE
    /\ asks = {} /\ reverseAsks = {}
    /\ loads = {registry}
    /\ swap = [state |-> "idle"]
    /\ edits = 0

\* A page that is down has no form.
SwapNext ==
    /\ ~down
    /\ \/ \E n \in Amounts : TypeAmountIn(n) \/ TypeAmountOut(n)
       \/ TypeUnreadable \/ FlipMode \/ Focus \/ RegistryChanges
       \/ \E i \in DOMAIN ui.form.pools : \E t \in ui.form.pools[i].tokens : PickAltToken(t)
       \/ \E l \in loads : PoolsArrive(l, l) \/ PoolsArrive(l, <<>>)
       \/ TimerFires \/ ReverseTimerFires \/ HandleSwap \/ SwapAnswers
       \/ \E a \in asks : QuoteArrives(a)
       \/ \E a \in reverseAsks : ReverseArrives(a)

SwapSpec == SwapInit /\ [][SwapNext]_swapVars

\* What legs spend together, and the hops of a path.
TotalIn(legs) == FoldLeft(LAMBDA sum, leg : sum + leg.amountIn, 0, legs)
HopsOf(path) == {{path[i], path[i + 1]} : i \in 1..Len(path) - 1}

\* A quote of an amount: its legs spend exactly that, never through the same
\* pool twice, and each of them spends and pays something: no quote that was
\* null, for want of a pool or an answer, is part of it.
IsSound(result, amount) ==
    /\ TotalIn(result.legs) = amount
    /\ \A i, j \in DOMAIN result.legs :
          i # j => HopsOf(result.legs[i].path) \cap HopsOf(result.legs[j].path) = {}
    /\ \A i \in DOMAIN result.legs : result.legs[i].amountIn > 0 /\ result.legs[i].amountOut > 0

\* A quote on screen next to an input amount is the quote of that amount, in
\* that direction of that pair (and, when the input drives the form, over the
\* pools now listed), however edits, flips, reloads and late answers crossed.
\* It is a sound one of the amount it was asked for.
QuoteMatchesForm ==
    LET f == ui.form
        key == ui.quote.key
    IN  ui.quote.status = "ready" =>
        /\ f.amountIn > 0 =>
              /\ key.in = TokenIn(f) /\ key.out = TokenOut(f) /\ key.amount = f.amountIn
              /\ f.direction = "exact-in" => key.pools = f.pools
        /\ IsSound(ui.quote.result, key.amount)
=============================================================================
