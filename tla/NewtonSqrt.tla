----------------------------- MODULE NewtonSqrt -----------------------------
(***************************************************************************)
(* integer_sqrt of contracts/gravity-token/src/lib.rs: Newton's iteration  *)
(* from above, in the integer arithmetic of a machine word whose largest   *)
(* value is MaxWord (i128::MAX in the code).  The root is the safety       *)
(* limit L, so an error of one in it vaults or frees a whole balance.      *)
(***************************************************************************)
EXTENDS Integers

CONSTANTS
    MaxWord,    \* the largest machine word
    Argument    \* the arguments tried: any integers a machine word holds

ASSUME WordAssumption ==
    /\ MaxWord \in Nat /\ MaxWord >= 4
    /\ Argument \subseteq {i \in Int : i <= MaxWord}

VARIABLES
    n,      \* the argument
    x, y,   \* the iterates
    pc      \* "start", "loop" (at the while test) or "done" (x is returned)

sqrtVars == <<n, x, y, pc>>

FirstGuess == n \div 2 + 1

\* One Newton step; Rust's / truncates, as \div does on naturals.
Iterate(a) == (a + n \div a) \div 2

\* Mutant: stops one step early.
FallingByTwo == y < x - 1

\* Mutant: goes on when the iterate stands still.
NotRising == y <= x

StillFalling == y < x

TrivialRoot == IF n <= 0 THEN 0 ELSE 1

\* n <= 0 and n = 1 return at once.
Trivial ==
    /\ pc = "start"
    /\ n <= 1
    /\ x' = TrivialRoot
    /\ pc' = "done"
    /\ UNCHANGED <<n, y>>

Begin ==
    /\ pc = "start"
    /\ n > 1
    /\ x' = FirstGuess
    /\ y' = Iterate(FirstGuess)
    /\ pc' = "loop"
    /\ UNCHANGED n

Loop ==
    /\ pc = "loop"
    /\ StillFalling
    /\ x' = y
    /\ y' = Iterate(y)
    /\ UNCHANGED <<n, pc>>

Return ==
    /\ pc = "loop"
    /\ ~StillFalling
    /\ pc' = "done"
    /\ UNCHANGED <<n, x, y>>

SqrtInit ==
    /\ n \in Argument
    /\ x = 0 /\ y = 0
    /\ pc = "start"

SqrtNext == Trivial \/ Begin \/ Loop \/ Return

SqrtSpec == SqrtInit /\ [][SqrtNext]_sqrtVars /\ WF_sqrtVars(SqrtNext)

-----------------------------------------------------------------------------

SqrtTypeOK ==
    /\ n \in Argument
    /\ x \in Nat /\ y \in Nat
    /\ pc \in {"start", "loop", "done"}

\* The function returns the floor of the square root (0 below zero).
ReturnsFloorOfRoot ==
    pc = "done" =>
        IF n <= 0 THEN x = 0 ELSE x * x <= n /\ n < (x + 1) * (x + 1)

\* No division by zero and no overflow: the iterate is positive and the sum
\* inside the Newton step stays a machine word.
ArithmeticSafe ==
    pc = "loop" => x > 0 /\ y > 0 /\ x + n \div x <= MaxWord

\* The loop ends: the iterates fall strictly until the root is reached.
Terminates == <>(pc = "done")

\* integer_sqrt computes the floor of the root without ever panicking on the
\* way.
ComputesFloorOfRoot == ReturnsFloorOfRoot /\ ArithmeticSafe
=============================================================================
