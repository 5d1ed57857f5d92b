------------------------------ MODULE VaultMath ------------------------------
(***************************************************************************)
(* The fixed-point arithmetic of the Sovereign Vault,                      *)
(* contracts/sovereign-vault/src/lib.rs, on scales of any size: every      *)
(* truncation happens where the code truncates, so what rounding may do to *)
(* a pool is already there on a coarse scale.                              *)
(***************************************************************************)
EXTENDS Integers

CONSTANTS
    One,              \* ONE: 1.0 of fee rates and of the decay
    Wad,              \* WAD: 1.0 of logarithms
    MantissaBits,     \* the 60 bits kept below the leading one by log2_parts
    MantissaUnit,     \* and where that one then stands, 1 << 60
    Ln2,              \* LN2_WAD
    LnCapOverFloor,   \* LN_CAP_OVER_FLOOR_WAD
    FeeFloor, FeeCap, Steepness,
    DecayPerSec,      \* ANCHOR_DECAY_PER_SEC
    MaxInt            \* i128::MAX

ASSUME ScaleAssumption ==
    /\ One \in Nat \ {0} /\ Wad \in Nat \ {0} /\ MaxInt \in Nat \ {0}
    /\ MantissaBits \in Nat /\ MantissaUnit \in Nat \ {0}
    /\ Ln2 \in 1..Wad /\ LnCapOverFloor \in Nat
    /\ FeeFloor \in 1..FeeCap
    /\ FeeCap \in 1..(One - 1)
    /\ Steepness \in Nat
    /\ DecayPerSec \in 1..(One - 1)

ASSUME UnitAssumption == MantissaUnit = 2^MantissaBits

Abs(x) == IF x < 0 THEN -x ELSE x

\* Rust's division rounds toward zero; b > 0 wherever the vault divides.
Quo(a, b) == IF a < 0 THEN -((-a) \div b) ELSE a \div b

\* mul_div_floor and mul_div_ceil for a, b >= 0 and c > 0.  The product is
\* checked: see Fits.
MulDivFloor(a, b, c) == (a * b) \div c
MulDivCeil(a, b, c)  == LET p == a * b IN p \div c + (IF p % c = 0 THEN 0 ELSE 1)
Fits(x) == x <= MaxInt
-----------------------------------------------------------------------------
(* Logarithms.                                                             *)

\* floor(log2 x) and x / 2^floor(log2 x): x is shifted until its leading bit is
\* the one of 2^MantissaBits.
Log2(x) ==
    LET shift[p \in [int : Int, top : Nat \ {0}]] ==
            IF p.top < MantissaUnit THEN shift[[int |-> p.int - 1, top |-> p.top * 2]]
            ELSE IF p.top >= 2 * MantissaUnit THEN shift[[int |-> p.int + 1, top |-> p.top \div 2]]
            ELSE [int |-> p.int, mantissa |-> (p.top * Wad) \div MantissaUnit]
    IN  shift[[int |-> MantissaBits, top |-> x]]

\* A loop's current term and its counter.
Rounds(Term) == [term : Term, k : Nat \ {0}]

\* The series of atanh(z), truncated term by term, from a round on.
AtanhRound(p, z2) == [term |-> Quo(p.term * z2, Wad), k |-> p.k + 2]
Atanh(z2) ==
    LET sum[p \in Rounds(Int)] ==
            IF p.term = 0 THEN 0 ELSE Quo(p.term, p.k) + sum[AtanhRound(p, z2)]
    IN  sum

\* ln of r in (Wad/2, 2 Wad) as 2 atanh(z), z = (r - 1) / (r + 1).
LnNearOne(r) ==
    LET z == Quo((r - Wad) * Wad, r + Wad)
    IN  2 * Atanh(Quo(z * z, Wad))[[term |-> z, k |-> 1]]

LnRatio(a, b) ==
    LET la == Log2(a)
        lb == Log2(b)
    IN  (la.int - lb.int) * Ln2 + LnNearOne((la.mantissa * Wad) \div lb.mantissa)

LnPriceChange(hitz0, reserve0, hitz1, reserve1) ==
    LnRatio(reserve1, reserve0) + LnRatio(hitz0, hitz1)
-----------------------------------------------------------------------------
(* The exponential, the fee and the decay.                                 *)

Pow2[k \in Nat] == IF k = 0 THEN 1 ELSE 2 * Pow2[k - 1]

\* What the Taylor series of e^r adds from a round on: every term truncated,
\* and one unit for each of them.
ExpRound(p, r) == [term |-> (p.term * r) \div (p.k * Wad), k |-> p.k + 1]
ExpRest(r) ==
    LET rest[p \in Rounds(Nat)] ==
            IF p.term = 0 THEN p.k ELSE ExpRound(p, r).term + rest[ExpRound(p, r)]
    IN  rest

ExpWad(x) ==
    LET n == x \div Ln2
        r == x - n * Ln2
    IN  IF x = 0 THEN Wad ELSE (Wad + ExpRest(r)[[term |-> Wad, k |-> 1]]) * Pow2[n]

FeeForDislocation(dislocation) ==
    LET x   == Abs(dislocation) * Steepness
        fee == (FeeFloor * ExpWad(x) + (Wad - 1)) \div Wad
    IN  IF x >= LnCapOverFloor \/ fee > FeeCap THEN FeeCap ELSE fee

\* Repeated squaring, a bit of the exponent per round, saturating at cap.
AtMost(v, cap) == IF v > cap THEN cap ELSE v
Taken(p)       == IF p.e % 2 = 1 THEN (p.acc * p.b) \div One ELSE p.acc
PowRound(p, cap) ==
    [e |-> p.e \div 2, b |-> AtMost((p.b * p.b) \div One, cap), acc |-> Taken(p)]
Pow(cap) ==
    LET pow[p \in [e : Nat, b : Nat, acc : Nat]] ==
            IF p.e % 2 = 1 /\ Taken(p) >= cap THEN cap
            ELSE IF p.e \div 2 = 0 \/ Taken(p) = 0 THEN Taken(p)
            ELSE pow[PowRound(p, cap)]
    IN  pow

PowSat(base, exp, cap) == Pow(cap)[[e |-> exp, b |-> AtMost(base, cap), acc |-> One]]

\* A deviation some seconds later.
Decayed(deviation, elapsed) ==
    IF elapsed = 0 \/ deviation = 0 THEN deviation
    ELSE Quo(deviation * PowSat(DecayPerSec, elapsed, One), One)
=============================================================================
