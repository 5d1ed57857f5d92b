----------------------------- MODULE SwapRoutes -----------------------------
(***************************************************************************)
(* lib/aggregator.ts and the quotes of lib/aqua.ts: the paths between two  *)
(* tokens over a list of pools, what each may be quoted at, the best split *)
(* of an amount between the two best paths, and the call a swap makes.  A  *)
(* pool list is a sequence of [id, tokens, indexed]; a graph maps pool ids *)
(* to the reserves the router quotes from.                                 *)
(*                                                                         *)
(* Every quote is a call of its own to an RPC node, awaited round after    *)
(* round while others trade, and null when the call fails: it is one of    *)
(* the outputs at any reserves, or 0.  A search reads nothing else while   *)
(* it runs, so that a search is the set of all its results.                *)
(***************************************************************************)
EXTENDS Integers, SequencesExt

CONSTANTS
    Hitz,       \* the HITZ token
    Graphs,     \* reserves the pools may have
    Probe,      \* PROBE_AMOUNT of the reverse quote
    SplitStep   \* SPLIT_STEP_PCT

\* findPool: the first pool of the pair, indexed by the router or not; 0 if none.
FindPool(pools, x, y) == SelectInSeq(pools, LAMBDA p : p.tokens = {x, y})

\* The token a pool pairs with t.
Partner(p, t) == CHOOSE x \in p.tokens : x # t

\* The other token of each pool of t, once each, in the order of the list.
Neighbours(pools, t) ==
    FoldLeft(LAMBDA acc, p :
                IF t \notin p.tokens \/ Contains(acc, Partner(p, t)) THEN acc
                ELSE Append(acc, Partner(p, t)),
             <<>>, pools)

\* hitzPairTokens: what the form offers against HITZ.
HitzPairTokens(pools) == Neighbours(pools, Hitz)

\* generatePaths: the direct pool, then every bridge with a pool on both sides.
GeneratePaths(from, to, pools) ==
    LET direct == IF FindPool(pools, from, to) = 0 THEN <<>> ELSE <<<<from, to>>>>
    IN  IF from = to THEN <<>>
        ELSE FoldLeft(LAMBDA acc, x : IF x = to \/ FindPool(pools, x, to) = 0 THEN acc
                                      ELSE Append(acc, <<from, x, to>>),
                      direct, Neighbours(pools, from))

\* estimate_swap of the Aqua router (external): a constant-product pool.
EstimateSwap(reserves, from, to, amount) ==
    (reserves[to] * amount) \div (reserves[from] + amount)

\* The output of one hop, 0 when there is no pool or none the router knows.
HopOut(from, to, amount, pools, graph) ==
    LET i == FindPool(pools, from, to) IN
    IF i = 0 \/ amount = 0 THEN 0
    ELSE IF pools[i].indexed THEN EstimateSwap(graph[pools[i].id], from, to, amount) ELSE 0

\* What a path pays in one transaction.
PathOut(path, amount, pools, graph) ==
    FoldLeft(LAMBDA got, i : HopOut(path[i], path[i + 1], got, pools, graph),
             amount, [i \in 1..Len(path) - 1 |-> i])

\* estimateSwap: what a hop may be quoted at; a call that fails gives null.
HopQuotes(from, to, amount, pools) ==
    {0} \cup {HopOut(from, to, amount, pools, graph) : graph \in Graphs}

\* getAmountsOut, its last amount: hop by hop, dead once a hop is dead.
PathQuotes(path, amount, pools) ==
    FoldLeft(LAMBDA gots, i : UNION {HopQuotes(path[i], path[i + 1], got, pools) : got \in gots},
             {amount}, [i \in 1..Len(path) - 1 |-> i])

\* One round over all paths: each is quoted on its own.
Rounds(amount, paths, pools) ==
    LET quotes == [i \in DOMAIN paths |-> PathQuotes(paths[i], amount, pools)]
    IN  {out \in [DOMAIN paths -> UNION Range(quotes)] : \A i \in DOMAIN paths : out[i] \in quotes[i]}

-----------------------------------------------------------------------------
Leg(path, amountIn, amountOut) == [path |-> path, amountIn |-> amountIn, amountOut |-> amountOut]

\* totalOut: what the legs pay together.
TotalOut(legs) == FoldLeft(LAMBDA sum, leg : sum + leg.amountOut, 0, legs)

\* An amount split between two paths; the second takes what rounding leaves.
Splits(amount, pct, path, other, pools) ==
    LET a == (amount * pct) \div 100
        b == amount - a
    IN  {<<Leg(path, a, x), Leg(other, b, y)>> :
            x \in PathQuotes(path, a, pools), y \in PathQuotes(other, b, pools)}

\* The place that a stable sort, largest first, puts in front of all of S.
Foremost(out, S) ==
    CHOOSE i \in S : \A j \in S : out[i] > out[j] \/ (out[i] = out[j] /\ i <= j)

\* A split replaces the best so far when both halves are quoted and it is
\* strictly better.
Better(best, cut) ==
    IF /\ \A i \in 1..2 : cut[i].amountIn > 0 /\ cut[i].amountOut > 0
       /\ TotalOut(cut) > TotalOut(best)
    THEN cut ELSE best

\* The whole on the first path, then 90/10 .. 10/90 between the first two, a
\* round of two quotes each.
Searches(amount, path, other, alone, pools) ==
    FoldLeft(LAMBDA bests, pct :
                {Better(best, cut) : best \in bests, cut \in Splits(amount, pct, path, other, pools)},
             {<<Leg(path, amount, alone)>>},
             [k \in 1..(100 \div SplitStep) - 1 |-> 100 - k * SplitStep])

\* getOptimalDistribution after its first round: live paths best first, a
\* search between the first two.  <<>> when no path is live.
Distributions(amount, paths, out, pools) ==
    LET live == {i \in DOMAIN paths : out[i] > 0}
        first == Foremost(out, live)
        second == Foremost(out, live \ {first})
    IN  IF live = {} THEN {<<>>}
        ELSE IF live = {first} THEN {<<Leg(paths[first], amount, out[first])>>}
        ELSE Searches(amount, paths[first], paths[second], out[first], pools)

\* The best output of a round.
BestSingle(out) == FoldLeft(LAMBDA best, o : IF o > best THEN o ELSE best, 0, out)

\* aggregate: a distribution, and the best single path of a second round over
\* the same paths; <<>> legs stand for "No paths" and "No live liquidity".
Aggregates(from, to, amount, pools) ==
    LET paths == GeneratePaths(from, to, pools)
        rounds == Rounds(amount, paths, pools)
    IN  {[legs |-> legs, totalOut |-> TotalOut(legs), bestSingle |-> single] :
            legs \in UNION {Distributions(amount, paths, out, pools) : out \in rounds},
            single \in {BestSingle(out) : out \in rounds}}

-----------------------------------------------------------------------------
\* getAmountInForPath: a guess from the probe, four corrections, six nudges, a
\* quote each.  A null quote ends the search without an input (0), a quote
\* that hits the target, or covers it when nudging, with the guess.
AtLeastOne(n) == IF n > 0 THEN n ELSE 1
Trying(n)   == [guess |-> n, at |-> "trying"]
Steady(n)   == [guess |-> n, at |-> "steady"]     \* a correction changed nothing
Solved(n)   == [guess |-> n, at |-> "solved"]

Probed(target, got) ==
    IF got = 0 THEN Solved(0) ELSE Trying(AtLeastOne((Probe * target) \div got))

Corrected(s, target, got) ==
    LET next == (s.guess * target) \div got IN
    IF s.at # "trying" THEN s
    ELSE IF got = 0 THEN Solved(0)
    ELSE IF got = target THEN Solved(s.guess)
    ELSE IF next = s.guess THEN Steady(s.guess)
    ELSE Trying(AtLeastOne(next))

Nudged(s, target, got) ==
    IF s.at = "solved" THEN s
    ELSE IF got = 0 THEN Solved(0)
    ELSE IF got >= target THEN Solved(s.guess)
    ELSE Trying(s.guess + s.guess \div 500 + 1)

AmountsIn(path, target, pools) ==
    LET probed == {Probed(target, got) : got \in PathQuotes(path, Probe, pools)}
        Tries(states, k) ==
            UNION {{IF k <= 4 THEN Corrected(s, target, got) ELSE Nudged(s, target, got) :
                        got \in PathQuotes(path, s.guess, pools)} : s \in states}
    IN  {s.guess : s \in FoldLeft(Tries, probed, [k \in 1..10 |-> k])}

\* The cheapest input over all paths; 0 for "No live liquidity on any path".
CheapestInputs(from, to, target, pools) ==
    FoldLeft(LAMBDA bests, path :
                {IF need > 0 /\ (best = 0 \/ need < best) THEN need ELSE best :
                    best \in bests, need \in AmountsIn(path, target, pools)},
             {0}, GeneratePaths(from, to, pools))

\* applySlippage, in basis points.
ApplySlippage(amount, bps) ==
    IF bps <= 0 THEN amount ELSE (amount * (10000 - bps)) \div 10000

\* buildSwapArgs: the pools of the path, refused when one is missing or unknown
\* to the router, and the least output accepted.
BuildSwapArgs(path, amountIn, amountOut, bps, pools) ==
    LET hops == [i \in 1..Len(path) - 1 |-> FindPool(pools, path[i], path[i + 1])]
        routable == \A i \in DOMAIN hops : hops[i] # 0 /\ pools[hops[i]].indexed
    IN  [routable |-> routable, path |-> path, amountIn |-> amountIn,
         minOut |-> ApplySlippage(amountOut, bps)]
=============================================================================
