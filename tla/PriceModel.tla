------------------------------- MODULE PriceModel -------------------------------
(***************************************************************************)
(* The price and liquidity series, functions/_lib/price-model.ts, without  *)
(* their floating-point arithmetic.  The code blends one price per hour    *)
(* from what each pool contributes; here a point is that contribution: for *)
(* each pool that counts, the reserve row and the quote price it counts    *)
(* with.  Two points are equal when the code computes them from the same   *)
(* numbers.                                                                *)
(*                                                                         *)
(* Times are hours.  reserves[p] is a set of rows [id, ts, hitz, quote],   *)
(* with ids in the order of the events; quotes[q] maps hours to prices.    *)
(***************************************************************************)
EXTENDS Integers, FiniteSets, FiniteSetsExt, Functions

CONSTANTS Pool, Quote,
          QuoteOf       \* pool -> the quote it is priced in, Usd, or Unpriced

Usd      == "usd"
Unpriced == "unpriced"
Priced(pools) == {p \in pools : QuoteOf[p] # Unpriced}

-----------------------------------------------------------------------------
(* Hourly points.                                                          *)

\* The rows and prices of the window's hours forward-fill from the last ones
\* before it (the seeds), so an hour sees the last row at or before it.
RowsUpTo(rows, h) == {r \in rows : r.ts <= h}
LastRow(rows)     == CHOOSE r \in rows : \A s \in rows : s.id <= r.id

HoursUpTo(series, h) == {k \in DOMAIN series : k <= h}
QuoteKnown(q, quotes, h) == q = Usd \/ HoursUpTo(quotes[q], h) # {}
QuoteUsdAt(q, quotes, h) == IF q = Usd THEN 1 ELSE quotes[q][Max(HoursUpTo(quotes[q], h))]

Counts(p, reserves, quotes, h) ==
    /\ RowsUpTo(reserves[p], h) # {}
    /\ LET r == LastRow(RowsUpTo(reserves[p], h)) IN r.hitz > 0 /\ r.quote > 0
    /\ QuoteKnown(QuoteOf[p], quotes, h)

HourPoint(pools, reserves, quotes, h) ==
    [p \in {q \in Priced(pools) : Counts(q, reserves, quotes, h)} |->
        <<LastRow(RowsUpTo(reserves[p], h)).id, QuoteUsdAt(QuoteOf[p], quotes, h)>>]

\* No point in an hour in which no pool counts.
ComputeHours(pools, reserves, quotes, from, to) ==
    [h \in {k \in from..to : DOMAIN HourPoint(pools, reserves, quotes, k) # {}} |->
        HourPoint(pools, reserves, quotes, h)]

\* Every point at or after the first recomputed one is replaced.
MergeSnapshot(prev, updated) ==
    IF updated = <<>> THEN prev
    ELSE LET kept == {h \in DOMAIN prev : h < Min(DOMAIN updated)}
         IN  [h \in kept \cup DOMAIN updated |-> IF h \in kept THEN prev[h] ELSE updated[h]]
-----------------------------------------------------------------------------
(* Liquidity.                                                              *)

\* A swap moves the reserves in opposite directions; both the same way is a
\* deposit or a withdrawal.
IsSwap(before, after) ==
    \/ after.hitz > before.hitz /\ after.quote < before.quote
    \/ after.hitz < before.hitz /\ after.quote > before.quote

Earlier(rows, r) == {s \in rows : s.id < r.id}

\* The rows <<pool, id>> that count as volume from hour `since` on.
Swaps(pools, reserves, quotes, since) ==
    UNION {{<<p, r.id>> : r \in {s \in reserves[p] :
                /\ s.ts >= since
                /\ Earlier(reserves[p], s) # {}
                /\ IsSwap(LastRow(Earlier(reserves[p], s)), s)
                /\ QuoteKnown(QuoteOf[p], quotes, s.ts)}} : p \in Priced(pools)}

SummarizeLiquidity(pools, reserves, quotes, now, windows) ==
    [asOf    |-> now,
     pools   |-> HourPoint(pools, reserves, quotes, now),
     volume  |-> [w \in windows |-> Swaps(pools, reserves, quotes, now - w)],
     history |-> ComputeHours(pools, reserves, quotes, now - Max(windows), now)]
=============================================================================
