-------------------------- MODULE NewtonSqrtProofs --------------------------
(***************************************************************************)
(* integer_sqrt returns the floor of the root for every machine word.  The *)
(* invariant behind it: the iterate never falls below the root.            *)
(***************************************************************************)
EXTENDS NewtonSqrt, SumTheorems

-----------------------------------------------------------------------------
\* The Newton sum stays a machine word: at the first guess, and at every
\* iterate that is smaller than one at most half the argument plus one.
LEMMA FirstSumFits ==
    ASSUME NEW m \in Nat, m > 1, m <= MaxWord
    PROVE  LET g == m \div 2 + 1
           IN  /\ g \in Nat \ {0}
               /\ m < (g + 1) * (g + 1)
               /\ g + m \div g <= MaxWord
<1> DEFINE h == m \div 2
           g == h + 1
           q == m \div g
<1>1. h \in Nat /\ 2 * h <= m /\ m <= 2 * h + 1
  BY Halving
<1> HIDE DEF h
<1>2. g \in Nat \ {0}
  BY <1>1
<1>3. q \in Nat /\ q * g <= m
  BY <1>2, Division
<1> HIDE DEF q
<1>4. q <= 1
  <2>1. SUFFICES ASSUME q >= 2 PROVE FALSE
    BY <1>3, SMT
  <2>2. q * g >= 2 * g
    BY <1>2, <1>3, <2>1, SMT
  <2>. QED BY <1>1, <1>3, <2>2, SMT
<1>5. m < (g + 1) * (g + 1)
  <2>1. (g + 1) * (g + 1) = h * h + 4 * h + 4
    BY <1>1, SMT
  <2>2. h * h >= 0
    BY <1>1, SMT
  <2>. QED BY <1>1, <2>1, <2>2, SMT
<1>6. g + q <= MaxWord
  BY <1>1, <1>2, <1>3, <1>4, WordAssumption, SMT
<1>. QED BY <1>2, <1>5, <1>6 DEF g, q, h

LEMMA LaterSumFits ==
    ASSUME NEW m \in Nat, m > 1, m <= MaxWord,
           NEW a \in Nat \ {0}, m < (a + 1) * (a + 1), 2 * a <= m
    PROVE  a + m \div a <= MaxWord
<1> DEFINE q == m \div a
<1>1. q \in Nat /\ q * a <= m
  BY Division
<1> HIDE DEF q
<1>2. CASE a = 1
  BY <1>1, <1>2, WordAssumption, SMT
<1>3. CASE a >= 2
  <2>1. SUFFICES ASSUME 2 * q + 2 * a >= m + 5 PROVE FALSE
    <3>1. 2 * q + 2 * a <= m + 4
      BY <1>1, <2>1, SMT
    <3>. QED BY <1>1, <1>3, <3>1, WordAssumption, SMT DEF q
  <2>2. (2 * q + 2 * a) * a >= (m + 5) * a
    BY <1>1, <2>1, SMT
  <2>3. 2 * m + 2 * (a * a) >= m * a + 5 * a
    BY <1>1, <2>2, SMT
  <2>4. (m - 2 * a) * (a - 2) >= 0
    BY <1>3, SMT
  <2>5. m * a - 2 * m - 2 * (a * a) + 4 * a >= 0
    BY <2>4, SMT
  <2>. QED BY <1>3, <2>3, <2>5, SMT
<1>. QED BY <1>2, <1>3

-----------------------------------------------------------------------------
\* Inside the loop x has not fallen below the root, y is the next iterate, and
\* x is at most half the argument plus one.
LoopInv ==
    /\ n > 1
    /\ x > 0
    /\ n < (x + 1) * (x + 1)
    /\ 2 * x <= n + 2
    /\ y = Iterate(x)
    /\ x + n \div x <= MaxWord

IInv ==
    /\ SqrtTypeOK
    /\ pc = "loop" => LoopInv
    /\ ReturnsFloorOfRoot

\* The call starts inside the invariant.
LEMMA InitIInv == SqrtInit => IInv
BY DEF SqrtInit, IInv, SqrtTypeOK, ReturnsFloorOfRoot

\* Every step of the call keeps the iterate at or above the root, the sum of
\* the Newton step inside the word, and the result right.
LEMMA StepIInv == IInv /\ [SqrtNext]_sqrtVars => IInv'
<1> SUFFICES ASSUME IInv, [SqrtNext]_sqrtVars PROVE IInv'
  OBVIOUS
<1> USE WordAssumption
<1>1. CASE Trivial
  <2>1. SqrtTypeOK'
    BY <1>1 DEF IInv, SqrtTypeOK, Trivial, TrivialRoot
  <2>2. ReturnsFloorOfRoot'
    BY <1>1, SMT DEF IInv, SqrtTypeOK, Trivial, TrivialRoot, ReturnsFloorOfRoot
  <2>. QED BY <1>1, <2>1, <2>2 DEF IInv, Trivial
<1>2. CASE Begin
  <2>1. n \in Nat /\ n > 1 /\ n <= MaxWord
    BY <1>2, SMT DEF IInv, SqrtTypeOK, Begin
  <2>2. /\ FirstGuess \in Nat \ {0}
        /\ n < (FirstGuess + 1) * (FirstGuess + 1)
        /\ FirstGuess + n \div FirstGuess <= MaxWord
    BY <2>1, FirstSumFits DEF FirstGuess
  <2>3. 2 * FirstGuess <= n + 2
    BY <2>1, Halving, SMT DEF FirstGuess
  <2>4. Iterate(FirstGuess) \in Nat
    BY <2>1, <2>2, IterateAboveRoot DEF Iterate
  <2>5. SqrtTypeOK'
    BY <1>2, <2>2, <2>4 DEF IInv, SqrtTypeOK, Begin
  <2>6. LoopInv'
    BY <1>2, <2>1, <2>2, <2>3, SMT DEF LoopInv, Begin, Iterate
  <2>. QED BY <1>2, <2>5, <2>6 DEF IInv, Begin, ReturnsFloorOfRoot
<1>3. CASE Loop
  <2>1. LoopInv /\ n \in Nat /\ n > 1 /\ n <= MaxWord /\ x \in Nat \ {0} /\ y < x
    BY <1>3, SMT DEF IInv, SqrtTypeOK, Loop, LoopInv, StillFalling
  <2>2. y \in Nat \ {0} /\ n < (y + 1) * (y + 1)
    BY <2>1, IterateAboveRoot, IteratePositive, SMT DEF LoopInv, Iterate
  <2>3. 2 * y <= n
    BY <2>1, <2>2, SMT DEF LoopInv
  <2>4. y + n \div y <= MaxWord
    BY <2>1, <2>2, <2>3, LaterSumFits
  <2>5. Iterate(y) \in Nat
    BY <2>1, <2>2, IterateAboveRoot DEF Iterate
  <2>6. SqrtTypeOK'
    BY <1>3, <2>2, <2>5 DEF IInv, SqrtTypeOK, Loop
  <2>7. LoopInv'
    BY <1>3, <2>1, <2>2, <2>3, <2>4, SMT DEF LoopInv, Loop, Iterate
  <2>. QED BY <1>3, <2>6, <2>7 DEF IInv, Loop, ReturnsFloorOfRoot
<1>4. CASE Return
  <2>1. LoopInv /\ n \in Nat /\ n > 1 /\ x \in Nat \ {0} /\ ~(y < x)
    BY <1>4, SMT DEF IInv, SqrtTypeOK, Return, LoopInv, StillFalling
  <2>2. x * x <= n
    BY <2>1, StopsAtRoot DEF LoopInv, Iterate
  <2>3. ReturnsFloorOfRoot'
    BY <1>4, <2>1, <2>2, SMT DEF ReturnsFloorOfRoot, Return, LoopInv
  <2>. QED BY <1>4, <2>3 DEF IInv, Return, SqrtTypeOK
<1>5. CASE UNCHANGED sqrtVars
  BY <1>5 DEF IInv, SqrtTypeOK, LoopInv, ReturnsFloorOfRoot, Iterate, sqrtVars
<1>. QED BY <1>1, <1>2, <1>3, <1>4, <1>5 DEF SqrtNext

\* integer_sqrt, for every word size and every argument: what it returns is
\* the floor of the square root.
THEOREM SqrtCorrect == SqrtSpec => []ReturnsFloorOfRoot
<1>1. IInv => ReturnsFloorOfRoot
  BY DEF IInv
<1>. QED BY InitIInv, StepIInv, <1>1, PTL DEF SqrtSpec

\* No Newton step divides by zero or leaves the machine word.
THEOREM SqrtArithmeticSafe == SqrtSpec => []ArithmeticSafe
<1>1. IInv => ArithmeticSafe
  <2> SUFFICES ASSUME IInv, pc = "loop" PROVE x > 0 /\ y > 0 /\ x + n \div x <= MaxWord
    BY DEF ArithmeticSafe
  <2>1. n \in Nat /\ n > 1 /\ x \in Nat \ {0} /\ x + n \div x <= MaxWord
    BY WordAssumption, SMT DEF IInv, SqrtTypeOK, LoopInv
  <2>2. y > 0
    BY <2>1, IteratePositive DEF IInv, LoopInv, Iterate
  <2>. QED BY <2>1, <2>2
<1>. QED BY InitIInv, StepIInv, <1>1, PTL DEF SqrtSpec

\* The iterates are naturals and the state machine stays in its three places.
THEOREM SqrtTypeCorrect == SqrtSpec => []SqrtTypeOK
<1>1. IInv => SqrtTypeOK
  BY DEF IInv
<1>. QED BY InitIInv, StepIInv, <1>1, PTL DEF SqrtSpec

\* integer_sqrt computes the floor of the root for every word, and no step of it
\* panics.
THEOREM SqrtComputesFloor == SqrtSpec => []ComputesFloorOfRoot
<1>1. ReturnsFloorOfRoot /\ ArithmeticSafe => ComputesFloorOfRoot
  BY DEF ComputesFloorOfRoot
<1>. QED BY <1>1, SqrtCorrect, SqrtArithmeticSafe, PTL
=============================================================================
