----------------------------- MODULE GravityLaw -----------------------------
(***************************************************************************)
(* What HITZ promises its holders, with no flags, no accumulators and no   *)
(* square root: who may move HITZ depends on the balances alone.  An       *)
(* account that is no pool or router may hold any amount, but while its    *)
(* balance exceeds sqrt(mass * Scale), mass being what the pools hold, its *)
(* HITZ can go nowhere except into a pool.                                 *)
(***************************************************************************)
EXTENDS Integers, FiniteSetsExt

CONSTANTS Address, Amount, MaxSupply, Scale

VARIABLES balance, pools, routers

vars == <<balance, pools, routers>>

Held(S) == SumFunctionOnSet(balance, S)

\* Stated on squares: balance[x] <= floor(sqrt(n)) iff balance[x]^2 <= n.
WithinLimit(x) == balance[x] * balance[x] <= Held(pools) * Scale

Free(x) == x \in pools \cup routers \/ WithinLimit(x)

Mint(to, n) ==
    /\ n > 0
    /\ balance' = [balance EXCEPT ![to] = @ + n]
    /\ Held(Address) + n <= MaxSupply
    /\ UNCHANGED <<pools, routers>>

Burn(from, n) ==
    /\ 0 < n /\ n <= balance[from]
    /\ balance' = [balance EXCEPT ![from] = @ - n]
    /\ Free(from)
    /\ UNCHANGED <<pools, routers>>

Transfer(from, to, n) ==
    /\ 0 < n /\ n <= balance[from] /\ from # to
    /\ balance' = [balance EXCEPT ![from] = @ - n, ![to] = @ + n]
    /\ Free(from) \/ to \in pools
    /\ UNCHANGED <<pools, routers>>

\* The registry may change in any way; no balance moves with it.
Govern ==
    /\ UNCHANGED balance
    /\ pools' \subseteq Address
    /\ routers' \subseteq Address

Init ==
    /\ balance = [x \in Address |-> 0]
    /\ pools = {}
    /\ routers = {}

Next ==
    \/ Govern
    \/ \E x \in Address, n \in Amount : Mint(x, n) \/ Burn(x, n)
    \/ \E x, y \in Address, n \in Amount : Transfer(x, y, n)

Spec == Init /\ [][Next]_vars
=============================================================================
