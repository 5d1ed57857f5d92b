--------------------------- MODULE SacrificePanel ---------------------------
(***************************************************************************)
(* components/SacrificeRitual.tsx: a vaulted holder sacrifices HITZ into a *)
(* pool.  The panel suggests the least amount that brings the balance back *)
(* under the limit, found by bisection on the balance and the mass that    *)
(* the page read; the chain judges by the balance and the mass it has when *)
(* the transfer lands.                                                     *)
(***************************************************************************)
EXTENDS Integers

CONSTANTS
    Scale,          \* DECIMALS_MULT
    Purses,         \* what the ledger may hold at first
    TypedAmounts,   \* amounts the user types
    Drifts,         \* how far others move a balance or the mass at once
    MaxMoves        \* bound: amounts entered, reads and moves by others

ASSUME SacrificeAssumption ==
    /\ Scale \in Nat \ {0}
    /\ Purses \subseteq [balance : Nat, mass : Nat, registered : BOOLEAN]
    /\ TypedAmounts \subseteq Nat /\ Drifts \subseteq Int

VARIABLES
    purse,      \* the ledger: the holder's balance, the mass, and whether the pool is registered
    seen,       \* balance and totalMass of ProtocolContext; Unread before the first answer
    entered,    \* the amount in the field, in stroops
    ritual,     \* the transaction and, for the properties, what was seen at the press
    moves       \* moves so far

ritualVars == <<purse, seen, entered, ritual, moves>>

Unread == -1
Move == moves < MaxMoves /\ moves' = moves + 1

-----------------------------------------------------------------------------
\* isqrt: Newton from n itself; the iterates fall to the root.
Falls(n) ==
    LET falls[x \in Nat \ {0}] ==
            LET y == (x + n \div x) \div 2 IN IF y < x THEN falls[y] ELSE x
    IN  falls
Isqrt(n) ==
    LET first == (n + 1) \div 2
    IN  IF n < 2 THEN n ELSE IF first < n THEN Falls(n)[first] ELSE n

ProjectedL(mass) == Isqrt(mass * Scale)

\* feasible: what is left after giving x is within the limit x then makes.
Feasible(balance, mass, x) == balance - x <= ProjectedL(mass + x)

\* The bisection: the lower end does not free the account, the upper does.
Middle(ends) == (ends[1] + ends[2]) \div 2
Half(balance, mass, ends) ==
    IF Feasible(balance, mass, Middle(ends)) THEN <<ends[1], Middle(ends)>>
    ELSE <<Middle(ends), ends[2]>>
Narrows(balance, mass) ==
    LET narrows[ends \in Nat \X Nat] ==
            IF ends[2] - ends[1] <= 1 THEN ends ELSE narrows[Half(balance, mass, ends)]
    IN  narrows
Bracket(balance, mass) == Narrows(balance, mass)[<<0, balance>>]

\* Mutant: the lower end of the bracket is suggested.
LowerEnd(balance, mass) ==
    IF balance <= 0 THEN Unread
    ELSE IF Feasible(balance, mass, 0) THEN 0 ELSE Bracket(balance, mass)[1]

\* minimumSacrificeToRelease; Unread stands for null.
MinimumSacrifice(balance, mass) ==
    IF balance <= 0 \/ ~Feasible(balance, mass, balance) THEN Unread
    ELSE IF Feasible(balance, mass, 0) THEN 0 ELSE Bracket(balance, mass)[2]

Suggestion == MinimumSacrifice(seen.balance, seen.mass)

-----------------------------------------------------------------------------
\* The page reads the mass, and after it the balance; a failed read is 0.
ReadMass ==
    /\ Move
    /\ seen' = [seen EXCEPT !.mass = purse.mass]
    /\ UNCHANGED <<purse, entered, ritual>>

ReadBalance ==
    /\ Move
    /\ \E b \in {purse.balance, 0} : seen' = [seen EXCEPT !.balance = b]
    /\ UNCHANGED <<purse, entered, ritual>>

TypeSacrifice(n) ==
    /\ Move /\ entered' = n
    /\ UNCHANGED <<purse, seen, ritual>>

\* A click on the suggestion enters it; what is printed parses back to it.
UseSuggestion ==
    /\ Suggestion # Unread
    /\ entered' = Suggestion
    /\ UNCHANGED <<purse, seen, ritual, moves>>

\* handleSacrifice: a transfer to the selected pool.
HandleSacrifice ==
    /\ ritual.status # "signing" /\ entered > 0
    /\ ritual' = [status |-> "signing", action |-> "sacrifice", amount |-> entered, read |-> seen]
    /\ UNCHANGED <<purse, seen, entered, moves>>

\* handleCheckRelease: a call the deployed token has no entry point for.
HandleCheckRelease ==
    /\ ritual.status # "signing"
    /\ ritual' = [status |-> "signing", action |-> "release", amount |-> 0, read |-> seen]
    /\ UNCHANGED <<purse, seen, entered, moves>>

-----------------------------------------------------------------------------
\* The token (GravityToken, and GravityLaw for who is free).

Free(p) == p.balance * p.balance <= p.mass * Scale

\* The transfer lands, or is refused, rejected by the user or lost.
SacrificeAnswers ==
    /\ ritual.status = "signing"
    /\ \/ /\ ritual.action = "sacrifice"
          /\ ritual.amount <= purse.balance
          /\ purse.registered \/ Free(purse)
          /\ purse' = [purse EXCEPT !.balance = @ - ritual.amount,
                                    !.mass = @ + IF purse.registered THEN ritual.amount ELSE 0]
          /\ ritual' = [ritual EXCEPT !.status = "success"]
       \/ ritual' = [ritual EXCEPT !.status = "error"] /\ UNCHANGED purse
    /\ UNCHANGED <<seen, entered, moves>>

\* Others send to the holder, the holder sacrifices in another tab, pools
\* fill and drain, the pool is deregistered or registered.
PurseMoves ==
    /\ Move
    /\ \/ \E d \in Drifts : purse.balance + d >= 0 /\ purse' = [purse EXCEPT !.balance = @ + d]
       \/ \E d \in Drifts : purse.mass + d >= 0 /\ purse' = [purse EXCEPT !.mass = @ + d]
       \/ purse' = [purse EXCEPT !.registered = ~@]
    /\ UNCHANGED <<seen, entered, ritual>>

-----------------------------------------------------------------------------
RitualInit ==
    /\ purse \in Purses
    /\ seen = [mass |-> 0, balance |-> Unread]
    /\ entered = 0
    /\ ritual = [status |-> "idle", action |-> "sacrifice", amount |-> 0, read |-> seen]
    /\ moves = 0

RitualNext ==
    \/ ReadMass \/ ReadBalance \/ UseSuggestion
    \/ HandleSacrifice \/ HandleCheckRelease \/ SacrificeAnswers \/ PurseMoves
    \/ \E n \in TypedAmounts : TypeSacrifice(n)

RitualSpec == RitualInit /\ [][RitualNext]_ritualVars

\* A sacrifice into a pool of at least what the panel suggested at the press
\* frees the account when it lands, provided the balance did not grow and the
\* mass did not shrink since they were read; and nothing smaller than the
\* suggestion frees it when neither moved.
SuggestedSacrificeFrees ==
    [][ritual.status = "signing" /\ ritual'.status = "success" /\ purse.registered =>
          LET read == ritual.read
              least == MinimumSacrifice(read.balance, read.mass)
          IN  least # Unread =>
              /\ ritual.amount >= least /\ purse.balance <= read.balance /\ purse.mass >= read.mass
                    => Free(purse')
              /\ ritual.amount < least /\ purse.balance = read.balance /\ purse.mass = read.mass
                    => ~Free(purse')]_ritualVars
=============================================================================
