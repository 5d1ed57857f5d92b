------------------------- MODULE SovereignVaultProofs -------------------------
(***************************************************************************)
(* The Sovereign Vault for every scale of its fixed-point arithmetic, any  *)
(* number of pools, any amounts and any clock: the books balance, round    *)
(* trips lose, no call shrinks a pool's product, liquidity comes in at the *)
(* price and the memory the pools have, and the admin's changes wait.      *)
(*                                                                         *)
(* From the bottom up: the loops of the fixed-point functions end and stay *)
(* in range; one leg of a swap pays out less than the constant product     *)
(* allows; two legs touch two pools; and the invariants and action         *)
(* properties follow entrypoint by entrypoint.                             *)
(***************************************************************************)
EXTENDS SovereignVault, SumTheorems, SequenceTheorems

(* Division.                                                               *)

LEMMA DivNat ==
    ASSUME NEW a \in Nat, NEW b \in Nat \ {0}
    PROVE  a \div b \in Nat /\ (a \div b) * b <= a /\ a < (a \div b) * b + b
OBVIOUS

\* A quotient lies where its product with the divisor does.
LEMMA DivAtLeast ==
    ASSUME NEW a \in Nat, NEW b \in Nat \ {0}, NEW c \in Nat, c * b <= a
    PROVE  c <= a \div b
<1> DEFINE q == a \div b
<1>1. q \in Nat /\ a < q * b + b
  BY DivNat
<1> HIDE DEF q
<1> SUFFICES ASSUME q + 1 <= c PROVE FALSE
  BY <1>1 DEF q
<1>2. (q + 1) * b <= c * b
  BY <1>1
<1>3. (q + 1) * b = q * b + b
  BY <1>1
<1> QED
  BY <1>1, <1>2, <1>3

LEMMA DivBelow ==
    ASSUME NEW a \in Nat, NEW b \in Nat \ {0}, NEW c \in Nat, a < c * b
    PROVE  a \div b < c
<1> DEFINE q == a \div b
<1>1. q \in Nat /\ q * b <= a
  BY DivNat
<1> HIDE DEF q
<1> SUFFICES ASSUME c <= q PROVE FALSE
  BY <1>1 DEF q
<1>2. c * b <= q * b
  BY <1>1
<1> QED
  BY <1>1, <1>2

\* Rust's quotient is never further from zero than the exact one.
LEMMA QuoRange ==
    ASSUME NEW a \in Int, NEW b \in Nat \ {0}
    PROVE  /\ Quo(a, b) \in Int
           /\ a >= 0 => Quo(a, b) = a \div b /\ Quo(a, b) >= 0
           /\ Abs(Quo(a, b)) \in Nat /\ Abs(a) \in Nat /\ Abs(Quo(a, b)) * b <= Abs(a)
<1>1. CASE a >= 0
  <2>1. a \in Nat /\ Quo(a, b) = a \div b /\ Abs(a) = a
    BY <1>1 DEF Quo, Abs
  <2>2. a \div b \in Nat /\ (a \div b) * b <= a
    BY <2>1, DivNat
  <2> QED
    BY <2>1, <2>2 DEF Abs
<1>2. CASE a < 0
  <2> DEFINE m == -a
             q == m \div b
  <2>1. m \in Nat /\ Quo(a, b) = -q /\ Abs(a) = m
    BY <1>2 DEF Quo, Abs
  <2>2. q \in Nat /\ q * b <= m
    BY <2>1, DivNat
  <2> HIDE DEF m, q
  <2>3. Abs(-q) = q
    BY <2>2 DEF Abs
  <2> QED
    BY <1>2, <2>1, <2>2, <2>3
<1> QED
  BY <1>1, <1>2

-----------------------------------------------------------------------------
(* Powers of two.                                                          *)

LEMMA Pow2Recursion ==
    /\ Pow2 \in [Nat -> Nat]
    /\ Pow2 = [k \in Nat |-> IF k = 0 THEN 1 ELSE 2 * Pow2[k - 1]]
<1> DEFINE mu   == [k \in Nat |-> k]
           stop == [k \in Nat |-> k = 0]
           val  == [k \in Nat |-> 1]
           next == [k \in Nat |-> IF k = 0 THEN 0 ELSE k - 1]
           step == [p \in Nat \X Nat |-> 2 * p[2]]
<1>1. CountsDown(Nat, Nat, mu, stop, val, next, step)
  <2>1. mu \in [Nat -> Nat] /\ val \in [Nat -> Nat] /\ next \in [Nat -> Nat]
    OBVIOUS
  <2>2. step \in [Nat \X Nat -> Nat]
    OBVIOUS
  <2>3. ASSUME NEW k \in Nat, ~stop[k] PROVE mu[next[k]] < mu[k]
    <3>1. k # 0
      BY <2>3
    <3>2. next[k] = k - 1 /\ k - 1 \in Nat
      BY <3>1
    <3> QED
      BY <3>2
  <2> HIDE DEF mu, stop, val, next, step
  <2> QED
    BY <2>1, <2>2, <2>3 DEF CountsDown
<1>2. ASSUME NEW f \in [Nat -> Nat], NEW k \in Nat
      PROVE  (IF stop[k] THEN val[k] ELSE step[<<k, f[next[k]]>>])
               = IF k = 0 THEN 1 ELSE 2 * f[k - 1]
  <2>1. next[k] \in Nat /\ f[next[k]] \in Nat
    OBVIOUS
  <2>2. step[<<k, f[next[k]]>>] = 2 * f[next[k]]
    BY <2>1
  <2> QED
    BY <2>2
<1> HIDE DEF mu, stop, val, next, step
<1>3. PICK f \in [Nat -> Nat] :
        f = [k \in Nat |-> IF stop[k] THEN val[k] ELSE step[<<k, f[next[k]]>>]]
  BY <1>1, LoopTheorem
<1>4. f = [k \in Nat |-> IF k = 0 THEN 1 ELSE 2 * f[k - 1]]
  BY <1>2, <1>3
<1>5. Pow2 = [k \in Nat |-> IF k = 0 THEN 1 ELSE 2 * Pow2[k - 1]]
  BY <1>4 DEF Pow2
<1>6. ASSUME NEW k \in Nat PROVE Pow2[k] \in Nat
  <2> DEFINE wrong == {n \in Nat : Pow2[n] \notin Nat}
  <2> SUFFICES ASSUME wrong # {} PROVE FALSE
    OBVIOUS
  <2>1. PICK n \in wrong : \A m \in wrong : n <= m
    BY LeastNatural
  <2>2. n # 0
    BY <1>5
  <2>3. n - 1 \in Nat /\ n - 1 \notin wrong
    BY <2>1, <2>2
  <2> QED
    BY <1>5, <2>2, <2>3
<1> QED
  BY <1>5, <1>6

\* They grow.
LEMMA Pow2Grows ==
    ASSUME NEW k \in Nat
    PROVE  /\ Pow2[k] \in Nat /\ Pow2[k] > k
           /\ Pow2[0] = 1 /\ Pow2[k + 1] = 2 * Pow2[k]
<1>1. \A n \in Nat : Pow2[n] \in Nat /\ Pow2[n + 1] = 2 * Pow2[n]
  BY Pow2Recursion
<1>2. Pow2[0] = 1
  BY Pow2Recursion
<1> DEFINE wrong == {n \in Nat : ~(Pow2[n] > n)}
<1>3. wrong = {}
  <2> SUFFICES ASSUME wrong # {} PROVE FALSE
    OBVIOUS
  <2>1. PICK n \in wrong : \A m \in wrong : n <= m
    BY LeastNatural
  <2>2. n # 0
    BY <1>2
  <2>3. n - 1 \in Nat /\ Pow2[n - 1] > n - 1
    BY <2>1, <2>2
  <2>4. Pow2[n] = 2 * Pow2[n - 1] /\ Pow2[n - 1] \in Nat
    BY <1>1, <2>3
  <2> QED
    BY <2>3, <2>4
<1> QED
  BY <1>1, <1>2, <1>3

\* log2_parts: "ma, mb are in [WAD, 2 WAD)", and the shifts end.
LEMMA Log2Range ==
    ASSUME NEW x \in Nat \ {0}
    PROVE  Log2(x).int \in Int /\ Log2(x).mantissa \in Wad..(2 * Wad - 1)
<1> USE ScaleAssumption
<1> DEFINE D    == [int : Int, top : Nat \ {0}]
           V    == [int : Int, mantissa : Wad..(2 * Wad - 1)]
           U    == MantissaUnit
           left(p)  == [int |-> p.int - 1, top |-> p.top * 2]
           right(p) == [int |-> p.int + 1, top |-> p.top \div 2]
           end(p)   == [int |-> p.int, mantissa |-> (p.top * Wad) \div U]
           Fit(p)   == ~(p.top < U) /\ ~(p.top >= 2 * U)
           mu   == [p \in D |-> IF p.top < U THEN 3 * U - p.top ELSE p.top]
           stop == [p \in D |-> Fit(p)]
           val  == [p \in D |-> IF Fit(p) THEN end(p) ELSE [int |-> 0, mantissa |-> Wad]]
           next == [p \in D |-> IF p.top < U THEN left(p)
                                ELSE IF p.top >= 2 * U THEN right(p) ELSE p]
           Body(g) == [p \in D |-> IF p.top < U THEN g[left(p)]
                                   ELSE IF p.top >= 2 * U THEN g[right(p)] ELSE end(p)]
           f == CHOOSE g : g = Body(g)
<1>1. ASSUME NEW p \in D PROVE left(p) \in D
  OBVIOUS
<1>2. ASSUME NEW p \in D, p.top >= 2 * U
      PROVE  right(p) \in D /\ U <= p.top \div 2 /\ p.top \div 2 < p.top
  <2>1. p.top \in Nat /\ U \in Nat \ {0} /\ U * 2 <= p.top
    BY <1>2
  <2>2. U <= p.top \div 2 /\ p.top \div 2 \in Nat
    BY <2>1, DivAtLeast, DivNat
  <2>3. p.top \div 2 < p.top
    BY <2>1
  <2> QED
    BY <2>1, <2>2, <2>3
<1>3. ASSUME NEW p \in D, Fit(p) PROVE end(p) \in V
  <2> DEFINE a == p.top * Wad
  <2>1. a \in Nat /\ Wad * U <= a /\ a < (2 * Wad) * U
    <3>1. p.top \in Nat /\ U <= p.top /\ p.top < 2 * U
      BY <1>3
    <3> QED
      BY <3>1
  <2> HIDE DEF a
  <2>2. Wad <= a \div U /\ a \div U < 2 * Wad /\ a \div U \in Nat
    BY <2>1, DivAtLeast, DivBelow, DivNat
  <2> QED
    BY <2>2 DEF a
<1>4. MovesOn(D, V, mu, stop, val, next)
  <2>1. mu \in [D -> Nat]
    OBVIOUS
  <2>2. next \in [D -> D]
    <3> HIDE DEF D, left, right
    <3> QED
      BY <1>1, <1>2
  <2>3. val \in [D -> V]
    <3>1. [int |-> 0, mantissa |-> Wad] \in V
      OBVIOUS
    <3> HIDE DEF D, V, end
    <3> QED
      BY <1>3, <3>1
  <2>4. ASSUME NEW p \in D, ~stop[p] PROVE mu[next[p]] < mu[p]
    <3>1. CASE p.top < U
      <4>1. next[p] = left(p) /\ left(p) \in D /\ p.top \in Nat \ {0}
        BY <1>1, <3>1
      <4>2. mu[left(p)] = IF 2 * p.top < U THEN 3 * U - 2 * p.top ELSE 2 * p.top
        BY <4>1
      <4>3. mu[p] = 3 * U - p.top
        BY <3>1
      <4> HIDE DEF mu, next, left
      <4>4. mu[next[p]] = mu[left(p)]
        BY <4>1
      <4> QED
        BY <3>1, <4>1, <4>2, <4>3, <4>4
    <3>2. CASE p.top >= 2 * U
      <4>1. next[p] = right(p) /\ right(p) \in D /\ p.top \in Nat \ {0} /\ ~(p.top < U)
        BY <1>2, <3>2
      <4>2. mu[right(p)] = p.top \div 2
        BY <1>2, <3>2, <4>1
      <4> QED
        BY <1>2, <3>2, <4>1, <4>2
    <3> QED
      BY <2>4, <3>1, <3>2
  <2> HIDE DEF D, V, mu, stop, val, next
  <2> QED
    BY <2>1, <2>2, <2>3, <2>4 DEF MovesOn
<1>5. PICK h \in [D -> V] : h = [p \in D |-> IF stop[p] THEN val[p] ELSE h[next[p]]]
  <2> HIDE DEF D, V, mu, stop, val, next
  <2> QED
    BY <1>4, WhileTheorem
<1>6. h = Body(h)
  <2> HIDE DEF D, V, left, right, end
  <2> QED
    BY <1>5
<1>7. f = Body(f)
  <2> HIDE DEF Body
  <2> QED
    BY <1>6
<1>8. f = [p \in D |-> IF stop[p] THEN val[p] ELSE f[next[p]]]
  <2> HIDE DEF f, D, V, left, right, end
  <2> QED
    BY <1>7
<1>9. \A d \in D : \E e \in D : stop[e] /\ f[d] = val[e]
  <2>1. D \in SUBSET D /\ \A d \in D : ~stop[d] => next[d] \in D
    <3>1. next \in [D -> D]
      BY <1>4 DEF MovesOn
    <3> HIDE DEF D, stop, next
    <3> QED
      BY <3>1
  <2> HIDE DEF f, D, V, mu, stop, val, next
  <2> QED
    BY <1>4, <1>8, <2>1, WhileStaysIn
<1> DEFINE first == [int |-> MantissaBits, top |-> x]
<1>10. first \in D
  OBVIOUS
<1>11. Log2(x) = f[first]
  BY DEF Log2
<1>12. PICK e \in D : stop[e] /\ f[first] = val[e]
  <2> HIDE DEF f, D, stop, val, first
  <2> QED
    BY <1>9, <1>10
<1>13. val \in [D -> V]
  BY <1>4 DEF MovesOn
<1>14. val[e] \in V
  <2> HIDE DEF D, V, val
  <2> QED
    BY <1>12, <1>13
<1> QED
  <2> HIDE DEF f, val, first
  <2> QED
    BY <1>11, <1>12, <1>14

\* The series of atanh ends, because z^2 is below one.
LEMMA AtanhInt ==
    ASSUME NEW z2 \in Nat, z2 < Wad
    PROVE  Atanh(z2) \in [Rounds(Int) -> Int]
<1> USE ScaleAssumption
<1> DEFINE D    == Rounds(Int)
           mu   == [p \in D |-> Abs(p.term)]
           stop == [p \in D |-> p.term = 0]
           val  == [p \in D |-> 0]
           next == [p \in D |-> AtanhRound(p, z2)]
           step == [q \in D \X Int |-> Quo(q[1].term, q[1].k) + q[2]]
<1>1. ASSUME NEW p \in D
      PROVE  /\ p.term \in Int /\ p.k \in Nat \ {0} /\ Abs(p.term) \in Nat
             /\ Quo(p.term, p.k) \in Int
             /\ AtanhRound(p, z2) \in D
             /\ p.term # 0 => Abs(AtanhRound(p, z2).term) < Abs(p.term)
  <2>1. p.term \in Int /\ p.k \in Nat \ {0} /\ Abs(p.term) \in Nat
    BY DEF Rounds, Abs
  <2> DEFINE m == p.term * z2
             q == Quo(m, Wad)
  <2>2. m \in Int
    BY <2>1
  <2>3. q \in Int /\ Abs(q) \in Nat /\ Abs(q) * Wad <= Abs(m)
    <3> HIDE DEF m
    <3> QED
      BY <2>2, QuoRange
  <2>4. AtanhRound(p, z2) = [term |-> q, k |-> p.k + 2]
    BY DEF AtanhRound
  <2>5. Abs(m) = Abs(p.term) * z2
    <3>1. CASE p.term >= 0
      BY <2>1, <3>1 DEF Abs
    <3>2. CASE p.term < 0
      <4>1. p.term * z2 <= 0 /\ (-p.term) * z2 = -(p.term * z2)
        BY <2>1, <3>2
      <4> QED
        BY <2>1, <3>2, <4>1 DEF Abs
    <3> QED
      BY <2>1, <3>1, <3>2
  <2>6. ASSUME p.term # 0 PROVE Abs(q) < Abs(p.term)
    <3> DEFINE a == Abs(p.term)
               b == Abs(q)
    <3>1. a \in Nat \ {0} /\ b \in Nat /\ b * Wad <= a * z2
      BY <2>1, <2>3, <2>5, <2>6 DEF Abs
    <3> HIDE DEF a, b
    <3>2. a * z2 < a * Wad
      BY <3>1
    <3>3. b < a
      <4> SUFFICES ASSUME a <= b PROVE FALSE
        BY <3>1
      <4>1. a * Wad <= b * Wad
        BY <3>1
      <4> QED
        BY <3>1, <3>2, <4>1
    <3> QED
      BY <3>3 DEF a, b
  <2>7. AtanhRound(p, z2) \in D
    BY <2>1, <2>3, <2>4 DEF Rounds
  <2>8. Quo(p.term, p.k) \in Int
    BY <2>1, QuoRange
  <2> QED
    BY <2>1, <2>4, <2>6, <2>7, <2>8
<1> HIDE DEF D
<1>2. CountsDown(D, Int, mu, stop, val, next, step)
  <2>1. mu \in [D -> Nat] /\ val \in [D -> Int] /\ next \in [D -> D]
    BY <1>1
  <2>2. step \in [D \X Int -> Int]
    BY <1>1
  <2>3. ASSUME NEW p \in D, ~stop[p] PROVE mu[next[p]] < mu[p]
    <3>1. p.term # 0
      BY <2>3
    <3> QED
      BY <1>1, <3>1
  <2> HIDE DEF mu, stop, val, next, step
  <2> QED
    BY <2>1, <2>2, <2>3 DEF CountsDown
<1>3. ASSUME NEW f \in [D -> Int], NEW p \in D
      PROVE  (IF stop[p] THEN val[p] ELSE step[<<p, f[next[p]]>>])
               = IF p.term = 0 THEN 0 ELSE Quo(p.term, p.k) + f[AtanhRound(p, z2)]
  <2>1. next[p] = AtanhRound(p, z2) /\ f[next[p]] \in Int
    BY <1>1
  <2>2. step[<<p, f[next[p]]>>] = Quo(p.term, p.k) + f[next[p]]
    BY <2>1
  <2> QED
    BY <2>1, <2>2
<1> HIDE DEF mu, stop, val, next, step
<1>4. PICK f \in [D -> Int] :
         f = [p \in D |-> IF stop[p] THEN val[p] ELSE step[<<p, f[next[p]]>>]]
  BY <1>2, LoopTheorem
<1> DEFINE Body(g) == [p \in D |-> IF p.term = 0 THEN 0
                                   ELSE Quo(p.term, p.k) + g[AtanhRound(p, z2)]]
           g == Atanh(z2)
<1>5. f = Body(f)
  BY <1>3, <1>4
<1>6. g = Body(g)
  <2>1. g = CHOOSE h : h = Body(h)
    BY DEF Atanh, D
  <2> HIDE DEF Body, g
  <2> QED
    BY <1>5, <2>1
<1> HIDE DEF g
<1>7. ASSUME NEW p \in D, stop[p] \/ g[next[p]] \in Int PROVE g[p] \in Int
  <2>1. g[p] = IF p.term = 0 THEN 0 ELSE Quo(p.term, p.k) + g[AtanhRound(p, z2)]
    BY <1>6
  <2>2. CASE p.term = 0
    BY <2>1, <2>2
  <2>3. CASE p.term # 0
    <3>1. g[AtanhRound(p, z2)] \in Int
      BY <1>7, <2>3 DEF stop, next
    <3> QED
      BY <1>1, <2>1, <2>3, <3>1
  <2> QED
    BY <2>2, <2>3
<1>8. \A p \in D : g[p] \in Int
  <2>1. StaysIn(D, Int, mu, stop, next, g)
    BY <1>2, <1>7 DEF CountsDown, StaysIn
  <2> QED
    BY <2>1, LoopInduction
<1> QED
  BY <1>6, <1>8 DEF g, D

LEMMA LnNearOneInt ==
    ASSUME NEW r \in Nat \ {0}
    PROVE  LnNearOne(r) \in Int
<1> USE ScaleAssumption
<1> DEFINE m == (r - Wad) * Wad
           b == r + Wad
           z == Quo(m, b)
           a == Abs(z)
           s == z * z
<1>1. m \in Int /\ b \in Nat \ {0}
  OBVIOUS
<1>2. z \in Int /\ a \in Nat /\ a * b <= Abs(m) /\ Abs(m) \in Nat
  <2> HIDE DEF m, b
  <2> QED
    BY <1>1, QuoRange
<1>3. Abs(m) < b * Wad
  <2>1. CASE r >= Wad
    <3>1. Abs(m) = (r - Wad) * Wad
      <4>1. m >= 0
        BY <2>1
      <4> QED
        BY <4>1 DEF Abs
    <3>2. (r - Wad) * Wad < (r + Wad) * Wad
      BY <2>1
    <3> QED
      BY <3>1, <3>2
  <2>2. CASE r < Wad
    <3>1. Abs(m) = (Wad - r) * Wad
      <4>1. m < 0 /\ -m = (Wad - r) * Wad
        BY <2>2
      <4> QED
        BY <4>1 DEF Abs
    <3>2. (Wad - r) * Wad < (r + Wad) * Wad
      BY <2>2
    <3> QED
      BY <3>1, <3>2
  <2> QED
    BY <2>1, <2>2
<1>4. a < Wad
  <2> HIDE DEF m, b, a
  <2> SUFFICES ASSUME Wad <= a PROVE FALSE
    BY <1>2
  <2>1. Wad * b <= a * b /\ b * Wad = Wad * b
    BY <1>1, <1>2
  <2> QED
    BY <1>1, <1>2, <1>3, <2>1
<1>5. s = a * a /\ s \in Nat
  <2>1. z * z = (-z) * (-z)
    BY <1>2
  <2> HIDE DEF z
  <2> QED
    BY <1>2, <2>1 DEF Abs
<1>6. s < Wad * Wad
  <2> HIDE DEF a, s
  <2>1. a * a <= a * Wad /\ a * Wad < Wad * Wad
    BY <1>2, <1>4
  <2> QED
    BY <1>2, <1>5, <2>1
<1> HIDE DEF s
<1>7. Quo(s, Wad) \in Nat /\ Quo(s, Wad) < Wad
  <2>1. Quo(s, Wad) = s \div Wad
    BY <1>5, QuoRange
  <2> QED
    BY <1>5, <1>6, <2>1, DivBelow, DivNat
<1>8. [term |-> z, k |-> 1] \in Rounds(Int)
  BY <1>2 DEF Rounds
<1>9. Atanh(Quo(s, Wad))[[term |-> z, k |-> 1]] \in Int
  BY <1>7, <1>8, AtanhInt
<1> QED
  BY <1>9 DEF LnNearOne, s

LEMMA LnRatioInt ==
    ASSUME NEW a \in Nat \ {0}, NEW b \in Nat \ {0}
    PROVE  LnRatio(a, b) \in Int
<1> USE ScaleAssumption
<1> DEFINE ma == Log2(a).mantissa
           mb == Log2(b).mantissa
           r  == (ma * Wad) \div mb
<1>1. /\ Log2(a).int \in Int /\ Log2(b).int \in Int
      /\ ma \in Wad..(2 * Wad - 1) /\ mb \in Wad..(2 * Wad - 1)
  BY Log2Range
<1>2. r \in Nat \ {0}
  <2> HIDE DEF ma, mb
  <2>1. ma * Wad \in Nat /\ mb \in Nat \ {0}
    BY <1>1
  <2>2. 1 * mb <= ma * Wad
    <3>1. Wad * Wad <= ma * Wad
      BY <1>1
    <3>2. 2 * Wad - 1 <= Wad * Wad
      <4>1. (Wad - 1) * (Wad - 1) >= 0
        OBVIOUS
      <4>2. (Wad - 1) * (Wad - 1) = Wad * Wad - 2 * Wad + 1
        OBVIOUS
      <4> QED
        BY <4>1, <4>2
    <3> QED
      BY <1>1, <3>1, <3>2
  <2> DEFINE p == ma * Wad
  <2> HIDE DEF p
  <2>3. 1 <= p \div mb /\ p \div mb \in Nat
    BY <2>1, <2>2, DivAtLeast, DivNat DEF p
  <2> QED
    BY <2>3 DEF p
<1> HIDE DEF r
<1>3. LnNearOne(r) \in Int
  BY <1>2, LnNearOneInt
<1>4. LnRatio(a, b) = (Log2(a).int - Log2(b).int) * Ln2 + LnNearOne(r)
  BY DEF LnRatio, r
<1> QED
  BY <1>1, <1>3, <1>4

-----------------------------------------------------------------------------
(* The fee lies between its floor and its cap, and deviations stay         *)
(* integers.                                                               *)

LEMMA ExpRestNat ==
    ASSUME NEW r \in Nat, r < Ln2
    PROVE  ExpRest(r) \in [Rounds(Nat) -> Nat]
<1> USE ScaleAssumption
<1> DEFINE D    == Rounds(Nat)
           mu   == [p \in D |-> p.term]
           stop == [p \in D |-> p.term = 0]
           val  == [p \in D |-> p.k]
           next == [p \in D |-> ExpRound(p, r)]
           step == [q \in D \X Nat |-> ExpRound(q[1], r).term + q[2]]
<1>1. ASSUME NEW p \in D
      PROVE  /\ p.term \in Nat /\ p.k \in Nat \ {0}
             /\ ExpRound(p, r) \in D /\ ExpRound(p, r).term \in Nat
             /\ p.term # 0 => ExpRound(p, r).term < p.term
  <2> DEFINE a == p.term * r
             b == p.k * Wad
             q == a \div b
  <2>1. p.term \in Nat /\ p.k \in Nat \ {0}
    BY DEF Rounds
  <2>2. a \in Nat /\ b \in Nat \ {0} /\ Wad <= b
    BY <2>1
  <2>3. q \in Nat
    <3> HIDE DEF a, b
    <3> QED
      BY <2>2, DivNat
  <2>4. ExpRound(p, r) = [term |-> q, k |-> p.k + 1]
    BY DEF ExpRound
  <2>5. ASSUME p.term # 0 PROVE q < p.term
    <3>1. p.term * r < p.term * Wad
      BY <2>1, <2>5
    <3>2. p.term * Wad <= p.term * b
      <4> HIDE DEF b
      <4> QED
        BY <2>1, <2>2
    <3>3. a < p.term * b
      <4> HIDE DEF b
      <4> QED
        BY <2>1, <2>2, <3>1, <3>2
    <3> HIDE DEF a, b
    <3> QED
      BY <2>1, <2>2, <3>3, DivBelow
  <2> HIDE DEF q
  <2>6. ExpRound(p, r) \in D
    BY <2>1, <2>3, <2>4 DEF Rounds
  <2> QED
    BY <2>1, <2>3, <2>4, <2>5, <2>6
<1> HIDE DEF D
<1>2. CountsDown(D, Nat, mu, stop, val, next, step)
  <2>1. mu \in [D -> Nat] /\ val \in [D -> Nat] /\ next \in [D -> D]
    BY <1>1
  <2>2. step \in [D \X Nat -> Nat]
    BY <1>1
  <2>3. ASSUME NEW p \in D, ~stop[p] PROVE mu[next[p]] < mu[p]
    <3>1. p.term # 0
      BY <2>3
    <3> QED
      BY <1>1, <3>1
  <2> HIDE DEF mu, stop, val, next, step
  <2> QED
    BY <2>1, <2>2, <2>3 DEF CountsDown
<1>3. ASSUME NEW f \in [D -> Nat], NEW p \in D
      PROVE  (IF stop[p] THEN val[p] ELSE step[<<p, f[next[p]]>>])
               = IF p.term = 0 THEN p.k ELSE ExpRound(p, r).term + f[ExpRound(p, r)]
  <2>1. next[p] = ExpRound(p, r) /\ f[next[p]] \in Nat
    BY <1>1
  <2>2. step[<<p, f[next[p]]>>] = ExpRound(p, r).term + f[next[p]]
    BY <2>1
  <2> QED
    BY <2>1, <2>2
<1> HIDE DEF mu, stop, val, next, step
<1>4. PICK f \in [D -> Nat] :
         f = [p \in D |-> IF stop[p] THEN val[p] ELSE step[<<p, f[next[p]]>>]]
  BY <1>2, LoopTheorem
<1> DEFINE Body(g) == [p \in D |-> IF p.term = 0 THEN p.k
                                   ELSE ExpRound(p, r).term + g[ExpRound(p, r)]]
           g == ExpRest(r)
<1>5. f = Body(f)
  BY <1>3, <1>4
<1>6. g = Body(g)
  <2>1. g = CHOOSE h : h = Body(h)
    BY DEF ExpRest, D
  <2> HIDE DEF Body, g
  <2> QED
    BY <1>5, <2>1
<1> HIDE DEF g
<1>7. ASSUME NEW p \in D, stop[p] \/ g[next[p]] \in Nat PROVE g[p] \in Nat
  <2>1. g[p] = IF p.term = 0 THEN p.k ELSE ExpRound(p, r).term + g[ExpRound(p, r)]
    BY <1>6
  <2>2. CASE p.term = 0
    BY <1>1, <2>1, <2>2
  <2>3. CASE p.term # 0
    <3>1. g[ExpRound(p, r)] \in Nat
      BY <1>7, <2>3 DEF stop, next
    <3> QED
      BY <1>1, <2>1, <2>3, <3>1
  <2> QED
    BY <2>2, <2>3
<1>8. \A p \in D : g[p] \in Nat
  <2>1. StaysIn(D, Nat, mu, stop, next, g)
    BY <1>2, <1>7 DEF CountsDown, StaysIn
  <2> QED
    BY <2>1, LoopInduction
<1> QED
  BY <1>6, <1>8 DEF g, D

\* e^x is at least one.
LEMMA ExpAtLeastOne ==
    ASSUME NEW x \in Nat
    PROVE  ExpWad(x) \in Nat /\ ExpWad(x) >= Wad
<1> USE ScaleAssumption
<1> DEFINE n == x \div Ln2
           r == x - n * Ln2
           rest == ExpRest(r)[[term |-> Wad, k |-> 1]]
           P == Pow2[n]
<1>1. n \in Nat /\ r \in Nat /\ r < Ln2
  <2>1. n \in Nat /\ n * Ln2 <= x /\ x < n * Ln2 + Ln2
    BY DivNat
  <2> HIDE DEF n
  <2> QED
    BY <2>1
<1>2. [term |-> Wad, k |-> 1] \in Rounds(Nat)
  BY DEF Rounds
<1>3. rest \in Nat
  <2> HIDE DEF r
  <2> QED
    BY <1>1, <1>2, ExpRestNat
<1>4. P \in Nat \ {0}
  <2> HIDE DEF n
  <2> QED
    BY <1>1, Pow2Grows
<1>5. ExpWad(x) = IF x = 0 THEN Wad ELSE (Wad + rest) * P
  BY DEF ExpWad
<1> HIDE DEF rest, P
<1>6. (Wad + rest) * P \in Nat /\ (Wad + rest) * P >= Wad + rest
  BY <1>3, <1>4
<1> QED
  BY <1>3, <1>5, <1>6

LEMMA FeeInRange ==
    ASSUME NEW d \in Int
    PROVE  FeeForDislocation(d) \in FeeFloor..FeeCap
<1> USE ScaleAssumption
<1> DEFINE x   == Abs(d) * Steepness
           a   == FeeFloor * ExpWad(x) + (Wad - 1)
           fee == a \div Wad
<1>1. x \in Nat
  BY DEF Abs
<1>2. a \in Nat /\ FeeFloor * Wad <= a
  <2>1. ExpWad(x) \in Nat /\ ExpWad(x) >= Wad
    <3> HIDE DEF x
    <3> QED
      BY <1>1, ExpAtLeastOne
  <2> DEFINE e == ExpWad(x)
  <2> HIDE DEF e
  <2>2. FeeFloor * Wad <= FeeFloor * e /\ FeeFloor * e \in Nat
    BY <2>1 DEF e
  <2> QED
    BY <2>2 DEF e
<1> HIDE DEF a
<1>3. fee \in Nat /\ FeeFloor <= fee
  BY <1>2, DivAtLeast, DivNat
<1>4. FeeForDislocation(d) = IF x >= LnCapOverFloor \/ fee > FeeCap THEN FeeCap ELSE fee
  BY DEF FeeForDislocation, a
<1> HIDE DEF fee, x
<1> QED
  BY <1>3, <1>4

LEMMA PowNat ==
    ASSUME NEW cap \in Nat
    PROVE  Pow(cap) \in [[e : Nat, b : Nat, acc : Nat] -> Nat]
<1> USE ScaleAssumption
<1> DEFINE D       == [e : Nat, b : Nat, acc : Nat]
           Full(p) == p.e % 2 = 1 /\ Taken(p) >= cap
           Last1(p) == p.e \div 2 = 0 \/ Taken(p) = 0
           mu   == [p \in D |-> p.e]
           stop == [p \in D |-> Full(p) \/ Last1(p)]
           val  == [p \in D |-> IF Full(p) THEN cap ELSE Taken(p)]
           next == [p \in D |-> PowRound(p, cap)]
           step == [q \in D \X Nat |-> q[2]]
<1>1. ASSUME NEW p \in D
      PROVE  /\ p.e \in Nat /\ Taken(p) \in Nat
             /\ PowRound(p, cap) \in D /\ PowRound(p, cap).e = p.e \div 2
             /\ ~Last1(p) => p.e \div 2 < p.e
  <2>1. p.e \in Nat /\ p.b \in Nat /\ p.acc \in Nat
    OBVIOUS
  <2>2. ASSUME NEW a \in Nat PROVE a \div One \in Nat
    BY <2>2, DivNat
  <2>3. Taken(p) \in Nat
    <3>1. p.acc * p.b \in Nat
      BY <2>1
    <3> DEFINE a == p.acc * p.b
    <3> HIDE DEF a
    <3>2. a \div One \in Nat
      BY <2>2, <3>1 DEF a
    <3> QED
      BY <2>1, <3>2 DEF Taken, a
  <2>4. AtMost((p.b * p.b) \div One, cap) \in Nat
    <3> DEFINE a == p.b * p.b
    <3>1. a \in Nat
      BY <2>1
    <3> HIDE DEF a
    <3>2. a \div One \in Nat
      BY <2>2, <3>1
    <3> QED
      BY <3>2 DEF AtMost, a
  <2>5. p.e \div 2 \in Nat /\ (p.e \div 2 # 0 => p.e \div 2 < p.e)
    BY <2>1
  <2>6. PowRound(p, cap) = [e |-> p.e \div 2, b |-> AtMost((p.b * p.b) \div One, cap), acc |-> Taken(p)]
    BY DEF PowRound
  <2> QED
    BY <2>1, <2>3, <2>4, <2>5, <2>6
<1> HIDE DEF D, Full, Last1
<1>2. CountsDown(D, Nat, mu, stop, val, next, step)
  <2>1. mu \in [D -> Nat] /\ val \in [D -> Nat] /\ next \in [D -> D]
    BY <1>1
  <2>2. step \in [D \X Nat -> Nat]
    OBVIOUS
  <2>3. ASSUME NEW p \in D, ~stop[p] PROVE mu[next[p]] < mu[p]
    <3>1. ~Last1(p)
      BY <2>3
    <3> QED
      BY <1>1, <3>1
  <2> HIDE DEF mu, stop, val, next, step
  <2> QED
    BY <2>1, <2>2, <2>3 DEF CountsDown
<1> DEFINE Body(g) == [p \in D |-> IF Full(p) THEN cap
                                   ELSE IF Last1(p) THEN Taken(p)
                                   ELSE g[PowRound(p, cap)]]
           g == Pow(cap)
<1>3. ASSUME NEW f \in [D -> Nat], NEW p \in D
      PROVE  (IF stop[p] THEN val[p] ELSE step[<<p, f[next[p]]>>])
               = IF Full(p) THEN cap ELSE IF Last1(p) THEN Taken(p) ELSE f[PowRound(p, cap)]
  <2>1. next[p] = PowRound(p, cap) /\ f[next[p]] \in Nat
    BY <1>1
  <2>2. step[<<p, f[next[p]]>>] = f[next[p]]
    BY <2>1
  <2> QED
    BY <2>1, <2>2
<1> HIDE DEF mu, stop, val, next, step
<1>4. PICK f \in [D -> Nat] :
         f = [p \in D |-> IF stop[p] THEN val[p] ELSE step[<<p, f[next[p]]>>]]
  BY <1>2, LoopTheorem
<1>5. f = Body(f)
  BY <1>3, <1>4
<1>6. g = Body(g)
  <2>1. g = CHOOSE h : h = Body(h)
    BY DEF Pow, D, Full, Last1
  <2> HIDE DEF Body, g
  <2> QED
    BY <1>5, <2>1
<1> HIDE DEF g
<1>7. ASSUME NEW p \in D, stop[p] \/ g[next[p]] \in Nat PROVE g[p] \in Nat
  <2>1. g[p] = IF Full(p) THEN cap ELSE IF Last1(p) THEN Taken(p) ELSE g[PowRound(p, cap)]
    BY <1>6
  <2>2. CASE Full(p) \/ Last1(p)
    BY <1>1, <2>1, <2>2
  <2>3. CASE ~(Full(p) \/ Last1(p))
    <3>1. g[PowRound(p, cap)] \in Nat
      BY <1>7, <2>3 DEF stop, next
    <3> QED
      BY <2>1, <2>3, <3>1
  <2> QED
    BY <2>2, <2>3
<1>8. \A p \in D : g[p] \in Nat
  <2>1. StaysIn(D, Nat, mu, stop, next, g)
    BY <1>2, <1>7 DEF CountsDown, StaysIn
  <2> QED
    BY <2>1, LoopInduction
<1> QED
  BY <1>6, <1>8 DEF g, D

LEMMA DecayedInt ==
    ASSUME NEW d \in Int, NEW elapsed \in Nat
    PROVE  Decayed(d, elapsed) \in Int /\ Decayed(d, 0) = d
<1> USE ScaleAssumption
<1> DEFINE p == PowSat(DecayPerSec, elapsed, One)
<1>1. p \in Nat
  <2>1. [e |-> elapsed, b |-> AtMost(DecayPerSec, One), acc |-> One] \in [e : Nat, b : Nat, acc : Nat]
    BY DEF AtMost
  <2>2. Pow(One) \in [[e : Nat, b : Nat, acc : Nat] -> Nat]
    BY PowNat
  <2> QED
    BY <2>1, <2>2 DEF PowSat
<1> HIDE DEF p
<1>2. d * p \in Int
  BY <1>1
<1>3. Quo(d * p, One) \in Int
  BY <1>2, QuoRange
<1> QED
  BY <1>3 DEF Decayed, p
-----------------------------------------------------------------------------
(* Pools.                                                                  *)

\* The pools of the instance storage: typed, dated, and one to an asset.
PoolsOK(ps, t) ==
    /\ ps \in Seq(Pool)
    /\ \A i \in DOMAIN ps : ps[i].updated <= t
    /\ \A i, j \in DOMAIN ps : ps[i].asset = ps[j].asset => i = j

LEMMA PoolFields ==
    ASSUME NEW ps, NEW t, PoolsOK(ps, t), NEW i \in DOMAIN ps
    PROVE  /\ ps[i] \in Pool
           /\ ps[i].asset \in Asset /\ ps[i].hitz \in Nat /\ ps[i].reserve \in Nat
           /\ ps[i].deviation \in Int /\ ps[i].updated \in Nat /\ ps[i].updated <= t
<1> USE VaultAssumption
<1>1. ps[i] \in Pool /\ ps[i].updated <= t
  BY DEF PoolsOK
<1>2. \A u \in 0..MaxTime : u \in Nat
  OBVIOUS
<1> QED
  BY <1>1, <1>2 DEF Pool

LEMMA DomainFinite ==
    ASSUME NEW ps, NEW t, PoolsOK(ps, t), NEW S \in SUBSET DOMAIN ps
    PROVE  IsFiniteSet(S) /\ DOMAIN ps = 1..Len(ps) /\ Len(ps) \in Nat
<1>1. DOMAIN ps = 1..Len(ps) /\ Len(ps) \in Nat
  BY DEF PoolsOK
<1>2. IsFiniteSet(1..Len(ps))
  BY <1>1, FS_Interval
<1> QED
  BY <1>1, <1>2, FS_Subset

LEMMA IndexFacts ==
    ASSUME NEW ps, NEW t, PoolsOK(ps, t), NEW a, Listed(ps, a)
    PROVE  /\ IndexOf(ps, a) \in DOMAIN ps /\ ps[IndexOf(ps, a)].asset = a
           /\ \A i \in DOMAIN ps : ps[i].asset = a => i = IndexOf(ps, a)
BY DEF PoolsOK, Listed, IndexOf

LEMMA DeviationInt ==
    ASSUME NEW ps, NEW t \in Nat, PoolsOK(ps, t), NEW i \in DOMAIN ps
    PROVE  DeviationAt(ps[i], t) \in Int
<1>1. ps[i].deviation \in Int /\ t - ps[i].updated \in Nat
  BY PoolFields
<1> QED
  BY <1>1, DecayedInt DEF DeviationAt

LEMMA WorstInt ==
    ASSUME NEW ps, NEW t \in Nat, PoolsOK(ps, t), NEW i, NEW hitz, NEW d \in Int
    PROVE  WorstDislocation(ps, i, hitz, d, t) \in Int
<1> DEFINE R == References(ps, i, hitz)
           f == [j \in R |-> Abs(d - DeviationAt(ps[j], t))]
           T == {Abs(d - DeviationAt(ps[j], t)) : j \in R}
<1>1. R \in SUBSET DOMAIN ps
  BY DEF References
<1>2. IsFiniteSet(R)
  BY <1>1, DomainFinite
<1>3. ASSUME NEW j \in R PROVE Abs(d - DeviationAt(ps[j], t)) \in Int
  BY <1>1, DeviationInt DEF Abs
<1> HIDE DEF R
<1>4. IsFiniteSet(T)
  <2>1. f \in Surjection(R, T)
    BY DEF Surjection
  <2> QED
    BY <1>2, <2>1, FS_Surjection
<1>5. {0} \cup T \in SUBSET Int /\ {0} \cup T # {}
  BY <1>3
<1>6. IsFiniteSet({0} \cup T)
  BY <1>4, FS_Singleton, FS_Union
<1> HIDE DEF T
<1>7. Max({0} \cup T) \in Int
  BY <1>5, <1>6, MaxOfFinite
<1> QED
  BY <1>7 DEF WorstDislocation, R, T

\* What the vault asks for a liquid pool's other side is rounded up, so the
\* fee of a positive output is positive.
LEMMA CeilFacts ==
    ASSUME NEW a \in Nat, NEW b \in Nat, NEW c \in Nat \ {0}
    PROVE  /\ MulDivCeil(a, b, c) \in Nat
           /\ a * b <= MulDivCeil(a, b, c) * c
           /\ MulDivCeil(a, b, c) * c < a * b + c
           /\ a * b > 0 => MulDivCeil(a, b, c) > 0
<1> DEFINE p == a * b
           q == p \div c
           r == p % c
<1>1. p \in Nat
  OBVIOUS
<1>2. MulDivCeil(a, b, c) = q + (IF r = 0 THEN 0 ELSE 1)
  BY DEF MulDivCeil
<1> HIDE DEF p
<1>3. q \in Nat /\ r \in 0..(c - 1) /\ p = q * c + r
  BY <1>1
<1> HIDE DEF q, r
<1>4. CASE r = 0
  BY <1>1, <1>2, <1>3, <1>4 DEF p
<1>5. CASE r # 0
  <2>1. (q + 1) * c = q * c + c
    BY <1>3
  <2> QED
    BY <1>1, <1>2, <1>3, <1>5, <2>1 DEF p
<1> QED
  BY <1>4, <1>5
-----------------------------------------------------------------------------
(* One leg of a swap.                                                      *)

InSide(leg, p)  == IF leg.hitzIn THEN p.hitz ELSE p.reserve
OutSide(leg, p) == IF leg.hitzIn THEN p.reserve ELSE p.hitz

Leg(ps) == [pool : DOMAIN ps, hitzIn : BOOLEAN]

\* What a leg does to its pool: amountIn joins one side, out leaves the other,
\* and out is less than what the constant product would give for it, whatever
\* the fee.
HopOutcome(ps, qs, t, leg, x, y) ==
    LET p == ps[leg.pool]
        n == qs[leg.pool]
    IN  /\ y \in Nat \ {0}
        /\ qs = [ps EXCEPT ![leg.pool] = n]
        /\ PoolsOK(qs, t) /\ n \in Pool
        /\ n.asset = p.asset
        /\ InSide(leg, n) = InSide(leg, p) + x
        /\ OutSide(leg, n) = OutSide(leg, p) - y
        /\ OutSide(leg, n) \in Nat \ {0}
        /\ InSide(leg, p) \in Nat \ {0}
        /\ InSide(leg, n) * (y + 1) <= OutSide(leg, p) * x

LEMMA HopFacts ==
    ASSUME NEW ps, NEW t \in 0..MaxTime, PoolsOK(ps, t),
           NEW leg \in Leg(ps), Seeded(ps[leg.pool]), NEW x \in Nat \ {0},
           NEW q, q = Hop(ps, leg, x, t), q.ok
    PROVE  HopOutcome(ps, q.pools, t, leg, x, q.out)
<1> USE ScaleAssumption, VaultAssumption
<1> DEFINE i     == leg.pool
           p     == ps[i]
           rIn   == InSide(leg, p)
           rOut  == OutSide(leg, p)
           newIn == rIn + x
           gross == MulDivFloor(rOut, x, newIn)
           Hitz1(out)    == HitzSide(leg.hitzIn, newIn, rOut - out)
           Reserve1(out) == ReserveSide(leg.hitzIn, newIn, rOut - out)
           After(out) == DeviationAt(p, t) + LnPriceChange(p.hitz, p.reserve, Hitz1(out), Reserve1(out))
           fee   == FeeForDislocation(WorstDislocation(ps, i, Hitz1(gross), After(gross), t))
           out   == AmountOut(gross, fee)
           new   == [asset |-> p.asset, hitz |-> Hitz1(out), reserve |-> Reserve1(out),
                     deviation |-> After(out), updated |-> t]
<1>1. q = IF ~(Fits(newIn) /\ Fits(rOut * x)) THEN Refused
          ELSE IF ~Fits(gross * fee) \/ out <= 0 THEN Refused
          ELSE [ok |-> TRUE, pools |-> [ps EXCEPT ![i] = new], out |-> out]
  BY DEF Hop, InSide, OutSide
<1>2. q = [ok |-> TRUE, pools |-> [ps EXCEPT ![i] = new], out |-> out] /\ ~(out <= 0)
  <2>1. ~Refused.ok
    BY DEF Refused
  <2> HIDE DEF new, out, gross, fee, newIn, rOut
  <2> QED
    BY <1>1, <2>1
<1>3. /\ i \in DOMAIN ps /\ leg.hitzIn \in BOOLEAN /\ t \in Nat
      /\ p \in Pool /\ p.asset \in Asset /\ p.hitz \in Nat \ {0} /\ p.reserve \in Nat \ {0}
      /\ DeviationAt(p, t) \in Int
  <2>1. i \in DOMAIN ps /\ leg.hitzIn \in BOOLEAN /\ t \in Nat
    BY DEF Leg
  <2> HIDE DEF i
  <2> QED
    BY <2>1, PoolFields, DeviationInt DEF Seeded, i
<1>4. rIn \in Nat \ {0} /\ rOut \in Nat \ {0} /\ newIn \in Nat \ {0} /\ x < newIn
  <2>1. rIn \in Nat \ {0} /\ rOut \in Nat \ {0}
    BY <1>3 DEF InSide, OutSide
  <2> HIDE DEF rIn, rOut
  <2> QED
    BY <2>1
<1> HIDE DEF rIn, rOut, p
<1>5. gross \in Nat /\ gross * newIn <= rOut * x /\ gross < rOut
  <2> HIDE DEF newIn
  <2>1. rOut * x \in Nat /\ rOut * x < rOut * newIn
    BY <1>4
  <2> DEFINE a == rOut * x
  <2> HIDE DEF a
  <2>2. a \div newIn \in Nat /\ (a \div newIn) * newIn <= a /\ a \div newIn < rOut
    BY <1>4, <2>1, DivNat, DivBelow DEF a
  <2> QED
    BY <2>2 DEF MulDivFloor, a
<1> HIDE DEF gross
<1>6. ASSUME NEW o \in Nat, o < rOut
      PROVE  /\ Hitz1(o) \in Nat \ {0} /\ Reserve1(o) \in Nat \ {0}
             /\ After(o) \in Int
  <2>1. rOut - o \in Nat \ {0}
    BY <1>4, <1>6
  <2>2. Hitz1(o) \in Nat \ {0} /\ Reserve1(o) \in Nat \ {0}
    BY <1>3, <1>4, <2>1 DEF HitzSide, ReserveSide
  <2> HIDE DEF Hitz1, Reserve1
  <2> DEFINE h1 == Hitz1(o)
             r1 == Reserve1(o)
  <2>3. LnPriceChange(p.hitz, p.reserve, h1, r1) \in Int
    <3>1. h1 \in Nat \ {0} /\ r1 \in Nat \ {0}
      BY <2>2
    <3> HIDE DEF h1, r1
    <3>2. LnRatio(r1, p.reserve) \in Int
      BY <1>3, <3>1, LnRatioInt
    <3>3. LnRatio(p.hitz, h1) \in Int
      BY <1>3, <3>1, LnRatioInt
    <3> QED
      BY <3>2, <3>3 DEF LnPriceChange
  <2> QED
    BY <1>3, <2>2, <2>3
<1> HIDE DEF After, Hitz1, Reserve1
<1>7. fee \in 1..(One - 1)
  <2>1. After(gross) \in Int
    BY <1>5, <1>6
  <2>2. WorstDislocation(ps, i, Hitz1(gross), After(gross), t) \in Int
    BY <1>3, <2>1, WorstInt
  <2>3. fee \in FeeFloor..FeeCap
    BY <2>2, FeeInRange
  <2> HIDE DEF fee
  <2> QED
    BY <2>3
<1> HIDE DEF fee
<1>8. out \in Nat \ {0} /\ out + 1 <= gross
  <2> DEFINE c == MulDivCeil(gross, fee, One)
  <2>1. c \in Nat /\ (gross * fee > 0 => c > 0)
    <3>1. gross \in Nat /\ fee \in Nat /\ One \in Nat \ {0}
      BY <1>5, <1>7
    <3> QED
      BY <3>1, CeilFacts
  <2>2. out = gross - c
    BY DEF AmountOut
  <2> HIDE DEF c, out
  <2>3. gross > 0
    BY <1>2, <1>5, <2>1, <2>2
  <2>4. gross * fee > 0
    BY <1>5, <1>7, <2>3
  <2> QED
    BY <1>2, <1>5, <2>1, <2>2, <2>4
<1> HIDE DEF out
<1>9. newIn * (out + 1) <= rOut * x
  <2>1. newIn * (out + 1) <= newIn * gross
    <3> HIDE DEF newIn
    <3> QED
      BY <1>4, <1>5, <1>8
  <2>2. newIn * gross = gross * newIn
    <3> HIDE DEF newIn
    <3> QED
      BY <1>4, <1>5
  <2> DEFINE A == newIn * (out + 1)
             B == newIn * gross
             C == rOut * x
  <2>3. A \in Int /\ B \in Int /\ C \in Int
    <3> HIDE DEF newIn
    <3> QED
      BY <1>4, <1>5, <1>8
  <2> HIDE DEF A, B, C
  <2>4. A <= B /\ B <= C
    BY <1>5, <2>1, <2>2 DEF A, B, C
  <2> QED
    BY <2>3, <2>4 DEF A, C
<1>10. /\ Hitz1(out) \in Nat \ {0} /\ Reserve1(out) \in Nat \ {0} /\ After(out) \in Int
       /\ rOut - out \in Nat \ {0}
  <2>1. out \in Nat /\ out < rOut
    BY <1>4, <1>5, <1>8
  <2> QED
    BY <1>4, <1>6, <2>1
<1>11. new \in Pool /\ new.updated <= t
  BY <1>3, <1>10 DEF Pool
<1>12. InSide(leg, new) = newIn /\ OutSide(leg, new) = rOut - out
  BY <1>3 DEF InSide, OutSide, Hitz1, Reserve1, HitzSide, ReserveSide
<1>13. new.asset = p.asset
  OBVIOUS
<1> HIDE DEF new
<1>14. PoolsOK([ps EXCEPT ![i] = new], t) /\ [ps EXCEPT ![i] = new][i] = new
  <2> DEFINE ms == [ps EXCEPT ![i] = new]
  <2>1. ps \in Seq(Pool) /\ DOMAIN ps = 1..Len(ps)
    BY DEF PoolsOK
  <2>2. ms \in Seq(Pool) /\ DOMAIN ms = DOMAIN ps
    BY <1>3, <1>11, <2>1, ExceptSeq
  <2>3. ms[i] = new /\ \A j \in DOMAIN ps : j # i => ms[j] = ps[j]
    BY <1>3
  <2> HIDE DEF ms
  <2>4. \A j \in DOMAIN ps : ms[j].asset = ps[j].asset /\ ms[j].updated <= t
    BY <1>3, <1>11, <1>13, <2>3 DEF PoolsOK, p
  <2>5. PoolsOK(ms, t)
    BY <2>2, <2>4 DEF PoolsOK
  <2> QED
    BY <2>3, <2>5 DEF ms
<1>15. q.pools = [ps EXCEPT ![i] = new] /\ q.out = out /\ q.pools[i] = new
  BY <1>2, <1>14
<1>16. q.pools[leg.pool] = new /\ ps[leg.pool] = p /\ [ps EXCEPT ![leg.pool] = new] = q.pools
  BY <1>15 DEF p
<1> HIDE DEF i
<1>17. /\ InSide(leg, new) = rIn + x
       /\ OutSide(leg, new) = rOut - q.out /\ OutSide(leg, new) \in Nat \ {0}
       /\ InSide(leg, new) * (q.out + 1) <= rOut * x
  BY <1>9, <1>10, <1>12, <1>15
<1>18. PoolsOK(q.pools, t)
  BY <1>14, <1>15
<1> QED
  BY <1>4, <1>8, <1>11, <1>13, <1>15, <1>16, <1>17, <1>18 DEF rIn, rOut, HopOutcome

\* What the product of the two sides says of a leg, and of a leg back through
\* the same pool for what it paid.
LEMMA ProductGrows ==
    ASSUME NEW r \in Nat \ {0}, NEW o \in Nat \ {0}, NEW x \in Nat, NEW y \in Nat,
           (r + x) * (y + 1) <= o * x
    PROVE  (r + x) * (o - y) >= r * o
<1>1. (r + x) * (y + 1) = (r + x) * y + (r + x)
  OBVIOUS
<1>2. (r + x) * (o - y) = r * o + o * x - (r + x) * y
  OBVIOUS
<1> DEFINE A == (r + x) * y
           B == o * x
           C == r * o
<1>3. A \in Int /\ B \in Int /\ C \in Int
  OBVIOUS
<1>4. A + (r + x) <= B
  BY <1>1
<1>5. (r + x) * (o - y) = C + B - A
  BY <1>2
<1> HIDE DEF A, B, C
<1>6. C + B - A >= C
  BY <1>3, <1>4
<1> QED
  BY <1>5, <1>6 DEF C

LEMMA BackPaysLess ==
    ASSUME NEW r \in Nat \ {0}, NEW o \in Nat \ {0}, NEW x \in Nat, NEW y \in Nat, NEW z \in Nat,
           (r + x) * (y + 1) <= o * x,
           o * (z + 1) <= (r + x) * y
    PROVE  z < x
<1>1. (r + x) * (y + 1) = (r + x) * y + (r + x)
  OBVIOUS
<1> DEFINE A == (r + x) * y
           B == o * x
<1>2. A \in Int /\ B \in Int /\ A + (r + x) <= B
  BY <1>1
<1>3. o * (z + 1) < B
  <2> DEFINE C == o * (z + 1)
  <2>1. C \in Int /\ C <= A
    OBVIOUS
  <2> HIDE DEF A, B, C
  <2> QED
    BY <1>2, <2>1 DEF C
<1> SUFFICES ASSUME x <= z PROVE FALSE
  OBVIOUS
<1>4. o * x <= o * (z + 1)
  OBVIOUS
<1> QED
  BY <1>2, <1>3, <1>4

\* The same when less than y comes back, as after the second leg of two.
LEMMA LessBackPaysLess ==
    ASSUME NEW r \in Nat \ {0}, NEW o \in Nat \ {0}, NEW x \in Nat \ {0}, NEW y \in Nat,
           NEW w \in Nat, NEW z \in Nat, w < y, o - y \in Nat,
           (r + x) * (y + 1) <= o * x,
           (o - y + w) * (z + 1) <= (r + x) * w
    PROVE  z < x
<1> DEFINE d == y - w
           s == o - d
<1>1. d \in Nat \ {0} /\ s \in Nat \ {0}
  <2> SUFFICES s # 0
    OBVIOUS
  <2>1. CASE s = 0
    <3>1. w = 0 /\ y = o
      BY <2>1
    <3>2. (r + x) * (o + 1) = (r + x) * o + (r + x)
      OBVIOUS
    <3>3. (r + x) * o = r * o + o * x
      OBVIOUS
    <3>4. r * o \in Nat /\ o * x \in Nat
      OBVIOUS
    <3> DEFINE A == r * o
               B == o * x
    <3>5. A + B + (r + x) <= B
      BY <3>1, <3>2, <3>3
    <3>6. A \in Nat /\ B \in Nat
      BY <3>4
    <3> HIDE DEF A, B
    <3> QED
      BY <3>5, <3>6
  <2> QED
    BY <2>1
<1>2. y = w + d /\ o = s + d
  OBVIOUS
<1>3. s * (z + 1) <= (r + x) * w
  OBVIOUS
<1> HIDE DEF d, s
<1> SUFFICES ASSUME x <= z PROVE FALSE
  OBVIOUS
<1>4. s * (x + 1) <= s * (z + 1)
  BY <1>1
<1>5. /\ s * (x + 1) = s * x + s
      /\ (r + x) * (y + 1) = (r + x) * w + (r + x) * d + (r + x)
      /\ o * x = s * x + d * x
      /\ (r + x) * d = r * d + d * x
  <2>1. (r + x) * (w + d + 1) = (r + x) * w + (r + x) * d + (r + x)
    BY <1>1
  <2>2. (s + d) * x = s * x + d * x
    BY <1>1
  <2> QED
    BY <1>1, <1>2, <2>1, <2>2
<1> DEFINE A == s * x
           B == (r + x) * w
           C == d * x
           D == r * d
           E == s * (x + 1)
           F == s * (z + 1)
           G == (r + x) * d
           H == (r + x) * (y + 1)
           K == o * x
<1>6. A \in Nat /\ B \in Nat /\ C \in Nat /\ D \in Nat /\ E \in Nat /\ F \in Nat
      /\ G \in Nat /\ H \in Nat /\ K \in Nat
  BY <1>1
<1>7. E <= F /\ F <= B /\ E = A + s /\ H = B + G + (r + x) /\ H <= K /\ K = A + C /\ G = D + C
  BY <1>3, <1>4, <1>5
<1> HIDE DEF A, B, C, D, E, F, G, H, K
<1> QED
  BY <1>1, <1>6, <1>7

-----------------------------------------------------------------------------
(* What a swap does to the pools.                                          *)

SumHitz(ps) == SumFunction([i \in DOMAIN ps |-> ps[i].hitz])

LEMMA SameLength ==
    ASSUME NEW m \in Nat, NEW n \in Nat, 1..m = 1..n
    PROVE  m = n
<1>1. \A k \in Int : 1 <= k /\ k <= m <=> 1 <= k /\ k <= n
  OBVIOUS
<1>2. CASE m = 0 \/ n = 0
  <2>1. 1 <= 1 /\ 1 <= m <=> 1 <= 1 /\ 1 <= n
    BY <1>1
  <2> QED
    BY <1>2, <2>1
<1>3. CASE m # 0 /\ n # 0
  BY <1>1, <1>3
<1> QED
  BY <1>2, <1>3

LEMMA SumHitzNat ==
    ASSUME NEW ps, NEW t, PoolsOK(ps, t)
    PROVE  SumHitz(ps) \in Nat
<1> DEFINE f == [i \in DOMAIN ps |-> ps[i].hitz]
<1>1. IsFiniteSet(DOMAIN ps) /\ \A i \in DOMAIN ps : f[i] \in Nat
  BY DomainFinite, PoolFields
<1>2. DOMAIN f = DOMAIN ps
  OBVIOUS
<1> HIDE DEF f
<1> QED
  BY <1>1, <1>2, SumNat DEF SumHitz, SumFunction, f

\* One pool changes.
LEMMA SumHitzChange ==
    ASSUME NEW ps, NEW qs, NEW t, PoolsOK(ps, t), PoolsOK(qs, t),
           DOMAIN qs = DOMAIN ps, NEW i \in DOMAIN ps,
           \A j \in DOMAIN ps : j # i => qs[j] = ps[j]
    PROVE  SumHitz(qs) = SumHitz(ps) - ps[i].hitz + qs[i].hitz
<1> DEFINE f == [j \in DOMAIN ps |-> ps[j].hitz]
           g == [j \in DOMAIN qs |-> qs[j].hitz]
<1>1. IsFiniteSet(DOMAIN ps)
  BY DomainFinite
<1>2. \A j \in DOMAIN ps : f[j] \in Int /\ g[j] \in Int
  BY PoolFields
<1>3. \A j \in DOMAIN ps \ {i} : g[j] = f[j]
  OBVIOUS
<1>4. f[i] = ps[i].hitz /\ g[i] = qs[i].hitz /\ DOMAIN f = DOMAIN ps /\ DOMAIN g = DOMAIN ps
  OBVIOUS
<1> HIDE DEF f, g
<1>5. SumFunctionOnSet(g, DOMAIN ps) = SumFunctionOnSet(f, DOMAIN ps) - f[i] + g[i]
  BY <1>1, <1>2, <1>3, SumChange
<1> QED
  BY <1>4, <1>5 DEF SumHitz, SumFunction, f, g

LegOutcome(ps, qs, t, leg, x, y) ==
    LET p == ps[leg.pool]
        n == qs[leg.pool]
    IN  /\ y \in Nat \ {0} /\ PoolsOK(qs, t)
        /\ DOMAIN qs = DOMAIN ps /\ Len(qs) = Len(ps)
        /\ \A j \in DOMAIN ps : qs[j].asset = ps[j].asset
        /\ \A j \in DOMAIN ps : j # leg.pool => qs[j] = ps[j]
        /\ Seeded(n) /\ n.hitz * n.reserve >= p.hitz * p.reserve
        /\ n.hitz = IF leg.hitzIn THEN p.hitz + x ELSE p.hitz - y
        /\ n.reserve = IF leg.hitzIn THEN p.reserve - y ELSE p.reserve + x
        /\ SumHitz(qs) = SumHitz(ps) - p.hitz + n.hitz

LEMMA LegFacts ==
    ASSUME NEW ps, NEW t \in 0..MaxTime, PoolsOK(ps, t),
           NEW leg \in Leg(ps), Seeded(ps[leg.pool]), NEW x \in Nat \ {0},
           NEW q, q = Hop(ps, leg, x, t), q.ok
    PROVE  LegOutcome(ps, q.pools, t, leg, x, q.out)
<1> DEFINE i  == leg.pool
           p  == ps[i]
           qs == q.pools
           n  == qs[i]
           y  == q.out
           r  == InSide(leg, p)
           o  == OutSide(leg, p)
<1>1. /\ y \in Nat \ {0} /\ qs = [ps EXCEPT ![i] = n] /\ PoolsOK(qs, t) /\ n \in Pool
      /\ n.asset = p.asset
      /\ InSide(leg, n) = r + x /\ OutSide(leg, n) = o - y
      /\ o - y \in Nat \ {0} /\ r \in Nat \ {0}
      /\ InSide(leg, n) * (y + 1) <= o * x
  <2>1. HopOutcome(ps, q.pools, t, leg, x, q.out)
    BY HopFacts
  <2> QED
    BY <2>1 DEF HopOutcome
<1>2. i \in DOMAIN ps /\ leg.hitzIn \in BOOLEAN /\ p.hitz \in Nat \ {0} /\ p.reserve \in Nat \ {0}
  <2>1. i \in DOMAIN ps /\ leg.hitzIn \in BOOLEAN
    BY DEF Leg
  <2> HIDE DEF i
  <2> QED
    BY <2>1, PoolFields DEF Seeded, i
<1> HIDE DEF i, p, y, r, o
<1>3. DOMAIN qs = DOMAIN ps /\ \A j \in DOMAIN ps : j # i => qs[j] = ps[j]
  <2> HIDE DEF qs, n
  <2> QED
    BY <1>1, <1>2
<1> HIDE DEF qs
<1>4. Len(qs) = Len(ps)
  <2>1. Len(qs) \in Nat /\ Len(ps) \in Nat /\ DOMAIN qs = 1..Len(qs) /\ DOMAIN ps = 1..Len(ps)
    BY <1>1, DomainFinite
  <2>2. 1..Len(qs) = 1..Len(ps)
    BY <1>3, <2>1
  <2> QED
    BY <2>1, <2>2, SameLength
<1>5. \A j \in DOMAIN ps : qs[j].asset = ps[j].asset
  BY <1>1, <1>3 DEF p
<1>6. SumHitz(qs) = SumHitz(ps) - p.hitz + n.hitz
  BY <1>1, <1>2, <1>3, SumHitzChange DEF p
<1> HIDE DEF n
<1>7. /\ o \in Nat \ {0}
      /\ (r = p.hitz /\ o = p.reserve) \/ (r = p.reserve /\ o = p.hitz)
  BY <1>2 DEF r, o, InSide, OutSide
<1>8. (r + x) * (o - y) >= r * o
  BY <1>1, <1>7, ProductGrows
<1>9. n.hitz * n.reserve >= p.hitz * p.reserve
  <2>1. CASE leg.hitzIn
    <3>1. n.hitz = r + x /\ n.reserve = o - y /\ p.hitz = r /\ p.reserve = o
      BY <1>1, <2>1 DEF InSide, OutSide, r, o
    <3> QED
      BY <1>8, <3>1
  <2>2. CASE ~leg.hitzIn
    <3>1. n.hitz = o - y /\ n.reserve = r + x /\ p.hitz = o /\ p.reserve = r
      BY <1>1, <2>2 DEF InSide, OutSide, r, o
    <3>2. (o - y) * (r + x) = (r + x) * (o - y) /\ o * r = r * o
      BY <1>1, <1>7
    <3> QED
      BY <1>8, <3>1, <3>2
  <2> QED
    BY <2>1, <2>2
<1>10. /\ n.hitz = IF leg.hitzIn THEN p.hitz + x ELSE p.hitz - y
       /\ n.reserve = IF leg.hitzIn THEN p.reserve - y ELSE p.reserve + x
  BY <1>1, <1>2 DEF InSide, OutSide, r, o
<1>11. Seeded(n)
  <2>1. r + x > 0 /\ o - y > 0
    BY <1>1
  <2> QED
    BY <1>1, <1>2, <1>7, <2>1 DEF Seeded, InSide, OutSide
<1> QED
  BY <1>1, <1>3, <1>4, <1>5, <1>6, <1>9, <1>10, <1>11 DEF i, p, qs, n, y, LegOutcome

SellLeg(i) == [pool |-> i, hitzIn |-> FALSE]
BuyLeg(i)  == [pool |-> i, hitzIn |-> TRUE]

\* The pool a token trades through.
Tradable(ps, i, a) == a # Hitz /\ i \in DOMAIN ps /\ ps[i].asset = a /\ Seeded(ps[i])

LEMMA TradableIndex ==
    ASSUME NEW ps, NEW t, PoolsOK(ps, t), NEW s, NEW d, Supported(ps, s, d),
           NEW a \in {s, d}, a # Hitz
    PROVE  Tradable(ps, IndexOf(ps, a), a)
BY IndexFacts DEF Supported, Tradable

\* A quote is one leg when HITZ is on one side, and otherwise two.
LEMMA QuoteLegs ==
    ASSUME NEW ps, NEW t, PoolsOK(ps, t), NEW s, NEW d, NEW x \in Int,
           NEW q, q = Quote(ps, s, d, x, t), q.ok
    PROVE  /\ x \in Nat \ {0} /\ s # d
           /\ LET i == IndexOf(ps, s)
                  j == IndexOf(ps, d)
                  m == Hop(ps, SellLeg(i), x, t)
              IN  /\ s # Hitz => Tradable(ps, i, s)
                  /\ d # Hitz => Tradable(ps, j, d)
                  /\ s = Hitz => q = Hop(ps, BuyLeg(j), x, t)
                  /\ d = Hitz => q = m
                  /\ s # Hitz /\ d # Hitz => m.ok /\ q = Hop(m.pools, BuyLeg(j), m.out, t)
<1> DEFINE i == IndexOf(ps, s)
           j == IndexOf(ps, d)
           m == Hop(ps, SellLeg(i), x, t)
           R == Route(ps, s, d)
<1>1. x > 0 /\ Supported(ps, s, d) /\ q = RunRoute(ps, R, x, t)
  <2>1. ~Refused.ok
    BY DEF Refused
  <2> QED
    BY <2>1 DEF Quote
<1>2. s # d
  BY <1>1 DEF Supported
<1>3. (s # Hitz => Tradable(ps, i, s)) /\ (d # Hitz => Tradable(ps, j, d))
  BY <1>1, TradableIndex
<1>4. ASSUME s = Hitz PROVE q = Hop(ps, BuyLeg(j), x, t)
  <2>1. R = <<BuyLeg(j)>>
    BY <1>2, <1>4 DEF Route, BuyLeg
  <2> HIDE DEF R, j
  <2>2. R[1] = BuyLeg(j) /\ Len(R) = 1
    BY <2>1
  <2> QED
    BY <1>1, <2>2 DEF RunRoute
<1>5. ASSUME d = Hitz PROVE q = m
  <2>1. R = <<SellLeg(i)>>
    BY <1>2, <1>5 DEF Route, SellLeg
  <2> HIDE DEF R, i
  <2>2. R[1] = SellLeg(i) /\ Len(R) = 1
    BY <2>1
  <2> QED
    BY <1>1, <2>2 DEF RunRoute
<1>6. ASSUME s # Hitz, d # Hitz PROVE m.ok /\ q = Hop(m.pools, BuyLeg(j), m.out, t)
  <2>1. R = <<SellLeg(i), BuyLeg(j)>>
    BY <1>6 DEF Route, SellLeg, BuyLeg
  <2> HIDE DEF R, i, j
  <2>2. R[1] = SellLeg(i) /\ R[2] = BuyLeg(j) /\ Len(R) # 1
    BY <2>1
  <2> QED
    BY <1>1, <2>2 DEF RunRoute
<1> QED
  BY <1>1, <1>2, <1>3, <1>4, <1>5, <1>6

\* What a trade of x of token s for y of token d means for token a.
Change(a, s, d, x, y) == IF a = s THEN x ELSE IF a = d THEN 0 - y ELSE 0

TradeOf(ps, qs, t, s, d, x, y) ==
    /\ PoolsOK(qs, t) /\ DOMAIN qs = DOMAIN ps /\ Len(qs) = Len(ps)
    /\ \A k \in DOMAIN ps :
        /\ qs[k].asset = ps[k].asset
        /\ Seeded(qs[k]) <=> Seeded(ps[k])
        /\ qs[k].hitz * qs[k].reserve >= ps[k].hitz * ps[k].reserve
        /\ qs[k].reserve = ps[k].reserve + Change(ps[k].asset, s, d, x, y)
        /\ ps[k].asset \notin {s, d} => qs[k] = ps[k]
        /\ ps[k].asset = s => qs[k].hitz <= ps[k].hitz
    /\ SumHitz(qs) = SumHitz(ps) + Change(Hitz, s, d, x, y)

LEMMA LegTrades ==
    ASSUME NEW ps, NEW t \in 0..MaxTime, PoolsOK(ps, t), NEW i, NEW a, NEW hitzIn \in BOOLEAN,
           Tradable(ps, i, a), NEW x \in Nat \ {0},
           NEW q, q = Hop(ps, [pool |-> i, hitzIn |-> hitzIn], x, t), q.ok
    PROVE  /\ q.out \in Nat \ {0}
           /\ IF hitzIn THEN TradeOf(ps, q.pools, t, Hitz, a, x, q.out)
                        ELSE TradeOf(ps, q.pools, t, a, Hitz, x, q.out)
<1> DEFINE leg == [pool |-> i, hitzIn |-> hitzIn]
           s == IF hitzIn THEN Hitz ELSE a
           d == IF hitzIn THEN a ELSE Hitz
           p == ps[i]
           qs == q.pools
           n == qs[i]
           y == q.out
<1>1. leg \in Leg(ps) /\ leg.pool = i /\ leg.hitzIn = hitzIn /\ Seeded(ps[leg.pool])
  BY DEF Tradable, Leg
<1> HIDE DEF leg
<1>2. q = Hop(ps, leg, x, t)
  BY DEF leg
<1>3. /\ y \in Nat \ {0} /\ PoolsOK(qs, t)
      /\ DOMAIN qs = DOMAIN ps /\ Len(qs) = Len(ps)
      /\ \A j \in DOMAIN ps : qs[j].asset = ps[j].asset
      /\ \A j \in DOMAIN ps : j # i => qs[j] = ps[j]
      /\ Seeded(n) /\ n.hitz * n.reserve >= p.hitz * p.reserve
      /\ n.hitz = IF hitzIn THEN p.hitz + x ELSE p.hitz - y
      /\ n.reserve = IF hitzIn THEN p.reserve - y ELSE p.reserve + x
      /\ SumHitz(qs) = SumHitz(ps) - p.hitz + n.hitz
  <2>1. LegOutcome(ps, q.pools, t, leg, x, q.out)
    BY <1>1, <1>2, LegFacts
  <2> QED
    BY <1>1, <2>1 DEF LegOutcome
<1>4. i \in DOMAIN ps /\ p.asset = a /\ a # Hitz /\ Seeded(p) /\ p.hitz \in Nat /\ p.reserve \in Nat
  BY PoolFields DEF Tradable
<1>5. SumHitz(ps) \in Nat
  BY SumHitzNat
<1> HIDE DEF y, qs
<1>6. SumHitz(qs) = SumHitz(ps) + Change(Hitz, s, d, x, y)
  BY <1>3, <1>4, <1>5 DEF Change
<1>7. ASSUME NEW k \in DOMAIN ps
      PROVE  /\ qs[k].asset = ps[k].asset
             /\ Seeded(qs[k]) <=> Seeded(ps[k])
             /\ qs[k].hitz * qs[k].reserve >= ps[k].hitz * ps[k].reserve
             /\ qs[k].reserve = ps[k].reserve + Change(ps[k].asset, s, d, x, y)
             /\ ps[k].asset \notin {s, d} => qs[k] = ps[k]
             /\ ps[k].asset = s => qs[k].hitz <= ps[k].hitz
  <2>1. CASE k = i
    <3>1. Change(ps[k].asset, s, d, x, y) = IF hitzIn THEN 0 - y ELSE x
      BY <1>4, <2>1 DEF Change
    <3>2. /\ qs[k].reserve = ps[k].reserve + (IF hitzIn THEN 0 - y ELSE x)
          /\ ~hitzIn => qs[k].hitz <= ps[k].hitz
      <4>1. /\ y \in Nat
            /\ qs[i].hitz = IF hitzIn THEN ps[i].hitz + x ELSE ps[i].hitz - y
            /\ qs[i].reserve = IF hitzIn THEN ps[i].reserve - y ELSE ps[i].reserve + x
        BY <1>3
      <4> QED
        BY <1>4, <2>1, <4>1
    <3>3. ps[k].asset \in {s, d} /\ (ps[k].asset = s => ~hitzIn)
      BY <1>4, <2>1
    <3>4. /\ qs[k].asset = ps[k].asset
          /\ Seeded(qs[k]) /\ Seeded(ps[k])
          /\ qs[k].hitz * qs[k].reserve >= ps[k].hitz * ps[k].reserve
      BY <1>3, <1>4, <2>1
    <3> HIDE DEF s, d
    <3> QED
      BY <3>1, <3>2, <3>3, <3>4
  <2>2. CASE k # i
    <3>1. qs[k] = ps[k] /\ ps[k].hitz \in Nat /\ ps[k].reserve \in Nat /\ ps[k].asset \in Asset
      BY <1>3, <2>2, PoolFields
    <3>2. ps[k].asset # a
      BY <1>4, <2>2 DEF PoolsOK
    <3>3. Change(ps[k].asset, s, d, x, y) = 0
      BY <3>1, <3>2, VaultAssumption DEF Change
    <3>4. ps[k].hitz * ps[k].reserve >= ps[k].hitz * ps[k].reserve
      BY <3>1
    <3>5. ps[k].asset \notin {s, d}
      BY <3>1, <3>2, VaultAssumption
    <3> QED
      BY <3>1, <3>3, <3>4, <3>5
  <2> QED
    BY <2>1, <2>2
<1> HIDE DEF s, d
<1>8. TradeOf(ps, qs, t, s, d, x, y)
  BY <1>3, <1>6, <1>7 DEF TradeOf
<1> QED
  BY <1>3, <1>8 DEF s, d, y, qs

\* Two trades through HITZ are one.
LEMMA TradesCompose ==
    ASSUME NEW ps, NEW t, PoolsOK(ps, t), NEW ms, NEW qs, NEW s, NEW d, s # d, s # Hitz, d # Hitz,
           NEW x \in Nat, NEW h \in Nat, NEW y \in Nat,
           TradeOf(ps, ms, t, s, Hitz, x, h), TradeOf(ms, qs, t, Hitz, d, h, y)
    PROVE  TradeOf(ps, qs, t, s, d, x, y)
<1>1. PoolsOK(ms, t) /\ PoolsOK(qs, t)
  BY DEF TradeOf
<1>2. SumHitz(qs) = SumHitz(ps) + Change(Hitz, s, d, x, y)
  <2>1. SumHitz(ps) \in Nat
    BY SumHitzNat
  <2>2. SumHitz(ms) = SumHitz(ps) - h /\ SumHitz(qs) = SumHitz(ms) + h
    BY <2>1 DEF TradeOf, Change
  <2>3. Change(Hitz, s, d, x, y) = 0
    BY DEF Change
  <2> QED
    BY <2>1, <2>2, <2>3
<1>3. ASSUME NEW k \in DOMAIN ps
      PROVE  /\ qs[k].asset = ps[k].asset
             /\ Seeded(qs[k]) <=> Seeded(ps[k])
             /\ qs[k].hitz * qs[k].reserve >= ps[k].hitz * ps[k].reserve
             /\ qs[k].reserve = ps[k].reserve + Change(ps[k].asset, s, d, x, y)
             /\ ps[k].asset \notin {s, d} => qs[k] = ps[k]
             /\ ps[k].asset = s => qs[k].hitz <= ps[k].hitz
  <2>1. k \in DOMAIN ms /\ k \in DOMAIN qs
    BY DEF TradeOf
  <2>2. /\ ms[k].asset = ps[k].asset /\ qs[k].asset = ms[k].asset
        /\ Seeded(ms[k]) <=> Seeded(ps[k])
        /\ Seeded(qs[k]) <=> Seeded(ms[k])
        /\ ms[k].hitz * ms[k].reserve >= ps[k].hitz * ps[k].reserve
        /\ qs[k].hitz * qs[k].reserve >= ms[k].hitz * ms[k].reserve
        /\ ms[k].reserve = ps[k].reserve + Change(ps[k].asset, s, Hitz, x, h)
        /\ qs[k].reserve = ms[k].reserve + Change(ms[k].asset, Hitz, d, h, y)
        /\ ps[k].asset \notin {s, Hitz} => ms[k] = ps[k]
        /\ ms[k].asset \notin {Hitz, d} => qs[k] = ms[k]
        /\ ps[k].asset = s => ms[k].hitz <= ps[k].hitz
    BY <2>1 DEF TradeOf
  <2> DEFINE A == ps[k].hitz * ps[k].reserve
             B == ms[k].hitz * ms[k].reserve
             C == qs[k].hitz * qs[k].reserve
  <2>3. /\ A \in Int /\ B \in Int /\ C \in Int
        /\ ps[k].reserve \in Nat /\ ps[k].asset \in Asset
    <3>1. /\ ps[k].hitz \in Nat /\ ps[k].reserve \in Nat /\ ps[k].asset \in Asset
          /\ ms[k].hitz \in Nat /\ ms[k].reserve \in Nat
          /\ qs[k].hitz \in Nat /\ qs[k].reserve \in Nat
      BY <1>1, <2>1, PoolFields
    <3> QED
      BY <3>1
  <2>4. B >= A /\ C >= B
    BY <2>2
  <2> HIDE DEF A, B, C
  <2>5. C >= A
    BY <2>3, <2>4
  <2>6. ps[k].asset # Hitz
    BY <2>3, VaultAssumption
  <2>7. qs[k].reserve = ps[k].reserve + Change(ps[k].asset, s, d, x, y)
    BY <2>2, <2>3, <2>6 DEF Change
  <2>8. ps[k].asset \notin {s, d} => qs[k] = ps[k]
    BY <2>2, <2>6
  <2>9. ps[k].asset = s => qs[k].hitz <= ps[k].hitz
    BY <2>2, <2>6
  <2> QED
    BY <2>2, <2>5, <2>7, <2>8, <2>9 DEF A, C
<1> QED
  BY <1>2, <1>3 DEF TradeOf

\* What swap and quote compute trades one token for another.
LEMMA QuoteTrades ==
    ASSUME NEW ps, NEW t \in 0..MaxTime, PoolsOK(ps, t), NEW s, NEW d, NEW x \in Int,
           NEW q, q = Quote(ps, s, d, x, t), q.ok
    PROVE  /\ x \in Nat \ {0} /\ s # d /\ q.out \in Nat \ {0}
           /\ TradeOf(ps, q.pools, t, s, d, x, q.out)
           /\ \A a \in {s, d} : a # Hitz => Tradable(ps, IndexOf(ps, a), a)
<1> DEFINE i == IndexOf(ps, s)
           j == IndexOf(ps, d)
           m == Hop(ps, SellLeg(i), x, t)
<1>1. /\ x \in Nat \ {0} /\ s # d
      /\ s # Hitz => Tradable(ps, i, s)
      /\ d # Hitz => Tradable(ps, j, d)
      /\ s = Hitz => q = Hop(ps, BuyLeg(j), x, t)
      /\ d = Hitz => q = m
      /\ s # Hitz /\ d # Hitz => m.ok /\ q = Hop(m.pools, BuyLeg(j), m.out, t)
  BY QuoteLegs
<1>2. \A a \in {s, d} : a # Hitz => Tradable(ps, IndexOf(ps, a), a)
  BY <1>1
<1> HIDE DEF i, j
<1>3. CASE s = Hitz
  <2>1. q = Hop(ps, [pool |-> j, hitzIn |-> TRUE], x, t) /\ Tradable(ps, j, d)
    BY <1>1, <1>3 DEF BuyLeg
  <2>2. q.out \in Nat \ {0} /\ TradeOf(ps, q.pools, t, Hitz, d, x, q.out)
    BY <1>1, <2>1, LegTrades
  <2> QED
    BY <1>1, <1>2, <1>3, <2>2
<1>4. CASE d = Hitz
  <2>1. q = Hop(ps, [pool |-> i, hitzIn |-> FALSE], x, t) /\ Tradable(ps, i, s)
    BY <1>1, <1>4 DEF SellLeg
  <2>2. q.out \in Nat \ {0} /\ TradeOf(ps, q.pools, t, s, Hitz, x, q.out)
    BY <1>1, <2>1, LegTrades
  <2> QED
    BY <1>1, <1>2, <1>4, <2>2
<1>5. CASE s # Hitz /\ d # Hitz
  <2> DEFINE h  == m.out
             ms == m.pools
  <2>1. m = Hop(ps, [pool |-> i, hitzIn |-> FALSE], x, t) /\ m.ok
    BY <1>1, <1>5 DEF SellLeg
  <2>2. q = Hop(ms, [pool |-> j, hitzIn |-> TRUE], h, t)
    BY <1>1, <1>5 DEF BuyLeg
  <2> HIDE DEF m
  <2>3. h \in Nat \ {0} /\ TradeOf(ps, ms, t, s, Hitz, x, h)
    BY <1>1, <1>5, <2>1, LegTrades
  <2> HIDE DEF ms, h
  <2>4. PoolsOK(ms, t) /\ Tradable(ms, j, d)
    BY <1>1, <1>5, <2>3 DEF TradeOf, Tradable
  <2>5. q.out \in Nat \ {0} /\ TradeOf(ms, q.pools, t, Hitz, d, h, q.out)
    BY <2>2, <2>3, <2>4, LegTrades
  <2>6. TradeOf(ps, q.pools, t, s, d, x, q.out)
    <3> DEFINE qs == q.pools
               y  == q.out
    <3>1. y \in Nat /\ x \in Nat /\ h \in Nat
      BY <1>1, <2>3, <2>5
    <3>2. TradeOf(ms, qs, t, Hitz, d, h, y)
      BY <2>5
    <3> HIDE DEF qs, y
    <3>3. TradeOf(ps, qs, t, s, d, x, y)
      BY <1>1, <1>5, <2>3, <3>1, <3>2, TradesCompose
    <3> QED
      BY <3>3 DEF qs, y
  <2> QED
    BY <1>1, <1>2, <2>5, <2>6
<1> QED
  BY <1>3, <1>4, <1>5
-----------------------------------------------------------------------------
(* Round trips.                                                            *)

\* A leg back through the pool a leg left behind, for no more than the leg
\* paid, returns less than the leg took.
LEMMA LegBack ==
    ASSUME NEW t \in 0..MaxTime, NEW i, NEW a, NEW hitzIn \in BOOLEAN,
           NEW ps, PoolsOK(ps, t), Tradable(ps, i, a), NEW x \in Nat \ {0},
           NEW q, q = Hop(ps, [pool |-> i, hitzIn |-> hitzIn], x, t), q.ok,
           NEW qs, PoolsOK(qs, t), Tradable(qs, i, a), qs[i] = q.pools[i],
           NEW w \in Nat \ {0}, w <= q.out,
           NEW b, b = Hop(qs, [pool |-> i, hitzIn |-> ~hitzIn], w, t), b.ok
    PROVE  b.out < x
<1> DEFINE leg  == [pool |-> i, hitzIn |-> hitzIn]
           legB == [pool |-> i, hitzIn |-> ~hitzIn]
           r == InSide(leg, ps[i])
           o == OutSide(leg, ps[i])
           y == q.out
           z == b.out
           n == qs[i]
           n2 == b.pools[i]
<1>1. /\ leg \in Leg(ps) /\ leg.pool = i /\ leg.hitzIn = hitzIn /\ Seeded(ps[leg.pool])
      /\ legB \in Leg(qs) /\ legB.pool = i /\ legB.hitzIn = ~hitzIn /\ Seeded(qs[legB.pool])
  BY DEF Tradable, Leg
<1>2. q = Hop(ps, leg, x, t) /\ b = Hop(qs, legB, w, t)
  OBVIOUS
<1> HIDE DEF leg, legB
<1>3. /\ y \in Nat \ {0} /\ r \in Nat \ {0}
      /\ InSide(leg, n) = r + x /\ OutSide(leg, n) = o - y /\ o - y \in Nat \ {0}
      /\ (r + x) * (y + 1) <= o * x
  <2>1. /\ q.out \in Nat \ {0}
        /\ InSide(leg, q.pools[leg.pool]) = InSide(leg, ps[leg.pool]) + x
        /\ OutSide(leg, q.pools[leg.pool]) = OutSide(leg, ps[leg.pool]) - q.out
        /\ OutSide(leg, q.pools[leg.pool]) \in Nat \ {0}
        /\ InSide(leg, ps[leg.pool]) \in Nat \ {0}
        /\ InSide(leg, q.pools[leg.pool]) * (q.out + 1) <= OutSide(leg, ps[leg.pool]) * x
    <3>1. HopOutcome(ps, q.pools, t, leg, x, q.out)
      BY <1>1, <1>2, HopFacts
    <3> QED
      BY <3>1 DEF HopOutcome
  <2> QED
    BY <1>1, <2>1
<1>4. /\ z \in Nat \ {0}
      /\ InSide(legB, n2) = InSide(legB, n) + w
      /\ InSide(legB, n2) * (z + 1) <= OutSide(legB, n) * w
  <2>1. /\ b.out \in Nat \ {0}
        /\ InSide(legB, b.pools[legB.pool]) = InSide(legB, qs[legB.pool]) + w
        /\ InSide(legB, b.pools[legB.pool]) * (b.out + 1) <= OutSide(legB, qs[legB.pool]) * w
    <3>1. HopOutcome(qs, b.pools, t, legB, w, b.out)
      BY <1>1, <1>2, HopFacts
    <3> QED
      BY <3>1 DEF HopOutcome
  <2> QED
    BY <1>1, <2>1
<1>5. InSide(legB, n) = OutSide(leg, n) /\ OutSide(legB, n) = InSide(leg, n)
  BY <1>1 DEF InSide, OutSide
<1>6. o \in Nat \ {0}
  <2>1. ps[i].hitz \in Nat /\ ps[i].reserve \in Nat /\ Seeded(ps[i])
    BY PoolFields DEF Tradable
  <2> QED
    BY <2>1 DEF OutSide, Seeded
<1> HIDE DEF r, o, y, z, n, n2
<1>7. w \in Nat /\ w <= y
  BY DEF y
<1>8. (o - y + w) * (z + 1) <= (r + x) * w
  BY <1>3, <1>4, <1>5
<1>9. CASE w = y
  <2>1. o - y + w = o
    BY <1>3, <1>6, <1>9
  <2>2. o * (z + 1) <= (r + x) * y
    BY <1>8, <1>9, <2>1
  <2>3. z < x
    BY <1>3, <1>4, <1>6, <2>2, BackPaysLess
  <2> QED
    BY <2>3 DEF z
<1>10. CASE w # y
  <2>1. w < y
    BY <1>3, <1>7, <1>10
  <2>2. z < x
    BY <1>3, <1>4, <1>6, <1>7, <1>8, <2>1, LessBackPaysLess
  <2> QED
    BY <2>2 DEF z
<1> QED
  BY <1>9, <1>10

\* A trade moves no pool to another asset.
LEMMA SameIndex ==
    ASSUME NEW ps, NEW t, PoolsOK(ps, t), NEW qs, NEW s, NEW d, NEW x, NEW y,
           TradeOf(ps, qs, t, s, d, x, y),
           NEW i, NEW a, Tradable(ps, i, a)
    PROVE  IndexOf(qs, a) = i
<1>1. PoolsOK(qs, t) /\ i \in DOMAIN qs /\ qs[i].asset = a
  BY DEF TradeOf, Tradable
<1>2. Listed(qs, a)
  BY <1>1 DEF Listed
<1> QED
  BY <1>1, <1>2, IndexFacts

LEMMA RoundTrip ==
    ASSUME NEW ps, NEW t \in 0..MaxTime, PoolsOK(ps, t), NEW s, NEW d, NEW x \in Int,
           NEW q, q = Quote(ps, s, d, x, t), q.ok,
           NEW b, b = Quote(q.pools, d, s, q.out, t), b.ok
    PROVE  b.out < x
<1> DEFINE qs == q.pools
           y  == q.out
           i  == IndexOf(ps, s)
           j  == IndexOf(ps, d)
           i2 == IndexOf(qs, s)
           j2 == IndexOf(qs, d)
           m  == Hop(ps, SellLeg(i), x, t)
           mb == Hop(qs, SellLeg(j2), y, t)
<1>1. x \in Nat \ {0} /\ s # d /\ y \in Nat \ {0} /\ TradeOf(ps, qs, t, s, d, x, y)
  BY QuoteTrades
<1>2. /\ s # Hitz => Tradable(ps, i, s)
      /\ d # Hitz => Tradable(ps, j, d)
      /\ s = Hitz => q = Hop(ps, BuyLeg(j), x, t)
      /\ d = Hitz => q = m
      /\ s # Hitz /\ d # Hitz => m.ok /\ q = Hop(m.pools, BuyLeg(j), m.out, t)
  BY QuoteLegs
<1> HIDE DEF i, j, qs, y
<1>3. PoolsOK(qs, t)
  BY <1>1 DEF TradeOf
<1>4. b = Quote(qs, d, s, y, t) /\ y \in Int
  BY <1>1 DEF qs, y
<1>5. /\ s # Hitz => Tradable(qs, i2, s)
      /\ d # Hitz => Tradable(qs, j2, d)
      /\ d = Hitz => b = Hop(qs, BuyLeg(i2), y, t)
      /\ s = Hitz => b = mb
      /\ s # Hitz /\ d # Hitz => mb.ok /\ b = Hop(mb.pools, BuyLeg(i2), mb.out, t)
  BY <1>3, <1>4, QuoteLegs
<1>6. (s # Hitz => i2 = i) /\ (d # Hitz => j2 = j)
  BY <1>1, <1>2, SameIndex
<1>7. CASE s = Hitz
  <2>1. /\ q = Hop(ps, [pool |-> j, hitzIn |-> TRUE], x, t)
        /\ b = Hop(qs, [pool |-> j, hitzIn |-> ~TRUE], y, t)
        /\ Tradable(ps, j, d) /\ Tradable(qs, j, d) /\ qs[j] = q.pools[j] /\ y <= q.out
    <3>1. ~TRUE = FALSE
      OBVIOUS
    <3>2. qs[j] = q.pools[j] /\ y <= q.out
      BY <1>1 DEF qs, y
    <3> QED
      BY <1>1, <1>2, <1>5, <1>6, <1>7, <3>1, <3>2 DEF BuyLeg, SellLeg
  <2> QED
    BY <1>1, <1>3, <2>1, LegBack
<1>8. CASE d = Hitz
  <2>1. /\ q = Hop(ps, [pool |-> i, hitzIn |-> FALSE], x, t)
        /\ b = Hop(qs, [pool |-> i, hitzIn |-> ~FALSE], y, t)
        /\ Tradable(ps, i, s) /\ Tradable(qs, i, s) /\ qs[i] = q.pools[i] /\ y <= q.out
    <3>1. ~FALSE = TRUE
      OBVIOUS
    <3>2. qs[i] = q.pools[i] /\ y <= q.out
      BY <1>1 DEF qs, y
    <3> QED
      BY <1>1, <1>2, <1>5, <1>6, <1>8, <3>1, <3>2 DEF BuyLeg, SellLeg
  <2> QED
    BY <1>1, <1>3, <2>1, LegBack
<1>9. CASE s # Hitz /\ d # Hitz
  <2> DEFINE ms == m.pools
             h  == m.out
             bs == mb.pools
             w  == mb.out
  <2>1. /\ Tradable(ps, i, s) /\ Tradable(ps, j, d) /\ Tradable(qs, i, s) /\ Tradable(qs, j, d)
        /\ m = Hop(ps, [pool |-> i, hitzIn |-> FALSE], x, t) /\ m.ok
        /\ q = Hop(ms, [pool |-> j, hitzIn |-> TRUE], h, t)
        /\ mb = Hop(qs, [pool |-> j, hitzIn |-> FALSE], y, t) /\ mb.ok
        /\ b = Hop(bs, [pool |-> i, hitzIn |-> TRUE], w, t)
    BY <1>2, <1>5, <1>6, <1>9 DEF BuyLeg, SellLeg
  <2> HIDE DEF m, mb
  <2>2. i # j
    BY <1>1, <2>1 DEF Tradable
  <2>3. /\ h \in Nat \ {0} /\ TradeOf(ps, ms, t, s, Hitz, x, h)
        /\ w \in Nat \ {0} /\ TradeOf(qs, bs, t, d, Hitz, y, w)
    BY <1>1, <1>3, <2>1, LegTrades
  <2>4. PoolsOK(ms, t) /\ PoolsOK(bs, t) /\ Tradable(ms, j, d) /\ Tradable(bs, i, s)
    BY <2>1, <2>3 DEF TradeOf, Tradable
  <2>5. qs[i] = ms[i] /\ bs[i] = qs[i]
    <3> DEFINE buy  == BuyLeg(j)
               sell == SellLeg(j)
    <3>1. buy \in Leg(ms) /\ buy.pool = j /\ sell \in Leg(qs) /\ sell.pool = j
      BY <2>1, <2>4 DEF Tradable, Leg, BuyLeg, SellLeg
    <3>2. q = Hop(ms, buy, h, t) /\ mb = Hop(qs, sell, y, t)
      BY <2>1 DEF BuyLeg, SellLeg
    <3> HIDE DEF buy, sell, ms, h
    <3>3. i \in DOMAIN ms /\ i \in DOMAIN qs /\ Seeded(ms[j]) /\ Seeded(qs[j])
      BY <2>1, <2>3, <2>4 DEF Tradable, TradeOf
    <3>4. \A k \in DOMAIN ms : k # j => q.pools[k] = ms[k]
      <4>1. h \in Nat \ {0} /\ q.ok /\ PoolsOK(ms, t)
        BY <2>3, <2>4
      <4>2. LegOutcome(ms, q.pools, t, buy, h, q.out)
        BY <3>1, <3>2, <3>3, <4>1, LegFacts
      <4> QED
        BY <3>1, <4>2 DEF LegOutcome
    <3>5. \A k \in DOMAIN qs : k # j => mb.pools[k] = qs[k]
      <4>1. y \in Nat \ {0} /\ mb.ok /\ PoolsOK(qs, t)
        BY <1>1, <1>3, <2>1
      <4>2. LegOutcome(qs, mb.pools, t, sell, y, mb.out)
        BY <3>1, <3>2, <3>3, <4>1, LegFacts
      <4> QED
        BY <3>1, <4>2 DEF LegOutcome
    <3> QED
      BY <2>2, <3>3, <3>4, <3>5 DEF qs
  <2>6. w < h
    <3>1. /\ qs[j] = q.pools[j] /\ y <= q.out
          /\ mb = Hop(qs, [pool |-> j, hitzIn |-> ~TRUE], y, t)
      <4>1. ~TRUE = FALSE
        OBVIOUS
      <4>2. qs[j] = q.pools[j] /\ y <= q.out
        BY <1>1 DEF qs, y
      <4> QED
        BY <2>1, <4>1, <4>2
    <3> HIDE DEF ms, h
    <3>2. mb.out < h
      BY <1>1, <1>3, <2>1, <2>3, <2>4, <3>1, LegBack
    <3> QED
      BY <3>2
  <2>7. b = Hop(bs, [pool |-> i, hitzIn |-> ~FALSE], w, t)
    <3>1. ~FALSE = TRUE
      OBVIOUS
    <3> QED
      BY <2>1, <3>1
  <2>8. bs[i] = m.pools[i] /\ w <= m.out
    BY <2>3, <2>5, <2>6
  <2> HIDE DEF bs, w
  <2> QED
    BY <1>1, <2>1, <2>3, <2>4, <2>7, <2>8, LegBack
<1> QED
  BY <1>7, <1>8, <1>9
-----------------------------------------------------------------------------
(* The inductive invariant.                                                *)

\* The books: the pools are covered by what the vault owns.
Covered(ps, owned) ==
    /\ SumHitz(ps) <= owned[Hitz]
    /\ \A i \in DOMAIN ps : ps[i].reserve <= owned[ps[i].asset]

\* What is renounced has no proposal left.
NothingOutlives ==
    /\ ~admin => pendingListing = None /\ pendingUpgrade = None
    /\ upgradesRenounced => pendingUpgrade = None

VaultInv ==
    /\ TypeOK
    /\ PoolsOK(pools, now)
    /\ Covered(pools, held)
    /\ NothingOutlives
    /\ Len(pools) >= Len(InitialAssets)

LEMMA VaultInvImplies == VaultInv => BooksBalance /\ now \in Nat
<1> SUFFICES ASSUME VaultInv PROVE BooksBalance /\ now \in Nat
  OBVIOUS
<1>1. now \in Nat
  BY VaultAssumption DEF VaultInv, TypeOK
<1>2. IsInjective([i \in DOMAIN pools |-> pools[i].asset])
  BY DEF VaultInv, PoolsOK, IsInjective
<1> QED
  BY <1>1, <1>2 DEF VaultInv, BooksBalance, Covered, SumHitz

\* The ledger of a pair of tokens after a trade, and after a deposit.
Traded(owned, s, d, x, y) == [owned EXCEPT ![s] = @ + x, ![d] = @ - y]
Joined(owned, a, h, amount) == [owned EXCEPT ![Hitz] = @ + h, ![a] = @ + amount]

LEMMA HeldAfterTrade ==
    ASSUME NEW owned \in [Token -> Nat], NEW s \in Token, NEW d \in Token, s # d,
           NEW x \in Nat, NEW y \in Nat, y <= owned[d],
           NEW after, after = Traded(owned, s, d, x, y)
    PROVE  /\ after \in [Token -> Nat]
           /\ \A a \in Token : after[a] = owned[a] + Change(a, s, d, x, y)
<1>1. \A a \in Token : after[a] = owned[a] + Change(a, s, d, x, y)
  BY DEF Change, Traded
<1>2. after = [a \in Token |-> after[a]]
  BY DEF Traded
<1>3. \A a \in Token : after[a] \in Nat
  BY <1>1 DEF Change
<1> QED
  BY <1>1, <1>2, <1>3

LEMMA CoveredAfterTrade ==
    ASSUME NEW ps, NEW t, PoolsOK(ps, t), NEW owned \in [Token -> Nat], Covered(ps, owned),
           NEW s \in Token, NEW d \in Token, s # d, NEW x \in Nat, NEW y \in Nat,
           NEW qs, TradeOf(ps, qs, t, s, d, x, y),
           d # Hitz => Tradable(ps, IndexOf(ps, d), d),
           NEW after, after = Traded(owned, s, d, x, y)
    PROVE  after \in [Token -> Nat] /\ Covered(qs, after)
<1>1. PoolsOK(qs, t) /\ SumHitz(ps) \in Nat /\ SumHitz(qs) \in Nat
  BY SumHitzNat DEF TradeOf
<1>2. y <= owned[d]
  <2>1. CASE d = Hitz
    <3>1. SumHitz(qs) = SumHitz(ps) - y
      BY <1>1, <2>1 DEF TradeOf, Change
    <3> QED
      BY <1>1, <2>1, <3>1 DEF Covered
  <2>2. CASE d # Hitz
    <3> DEFINE j == IndexOf(ps, d)
    <3>1. j \in DOMAIN ps /\ ps[j].asset = d
      BY <2>2 DEF Tradable
    <3> HIDE DEF j
    <3>2. ps[j].reserve \in Nat /\ qs[j].reserve \in Nat /\ ps[j].reserve <= owned[d]
      BY <1>1, <3>1, PoolFields DEF TradeOf, Covered
    <3>3. qs[j].reserve = ps[j].reserve - y
      BY <3>1, <3>2 DEF TradeOf, Change
    <3> QED
      BY <3>2, <3>3
  <2> QED
    BY <2>1, <2>2
<1>3. /\ after \in [Token -> Nat]
      /\ \A a \in Token : after[a] = owned[a] + Change(a, s, d, x, y)
  BY <1>2, HeldAfterTrade
<1>4. Hitz \in Token /\ \A a \in Asset : a \in Token
  BY DEF Token
<1>5. \A a \in Token : Change(a, s, d, x, y) \in Int
  BY DEF Change
<1>6. SumHitz(qs) <= after[Hitz]
  <2>1. SumHitz(qs) = SumHitz(ps) + Change(Hitz, s, d, x, y) /\ SumHitz(ps) <= owned[Hitz]
    BY DEF TradeOf, Covered
  <2> QED
    BY <1>1, <1>3, <1>4, <1>5, <2>1
<1>7. ASSUME NEW i \in DOMAIN qs PROVE qs[i].reserve <= after[qs[i].asset]
  <2>1. i \in DOMAIN ps
    BY DEF TradeOf
  <2>2. /\ qs[i].asset = ps[i].asset
        /\ qs[i].reserve = ps[i].reserve + Change(ps[i].asset, s, d, x, y)
        /\ ps[i].reserve <= owned[ps[i].asset]
    BY <2>1 DEF TradeOf, Covered
  <2>3. ps[i].reserve \in Nat /\ ps[i].asset \in Token
    BY <1>4, <2>1, PoolFields
  <2> QED
    BY <1>3, <1>5, <2>2, <2>3
<1> QED
  BY <1>3, <1>6, <1>7 DEF Covered

LEMMA SwapStep ==
    ASSUME VaultInv, NEW s \in Token, NEW d \in Token, NEW x \in Amount, NEW m,
           Swap(s, d, x, m)
    PROVE  /\ VaultInv'
           /\ \E y \in Nat : TradeOf(pools, pools', now, s, d, x, y)
           /\ x \in Nat \ {0}
<1> DEFINE q == Quote(pools, s, d, x, now)
           y == q.out
<1>1. /\ q.ok /\ pools' = q.pools
      /\ held' = [held EXCEPT ![s] = @ + x, ![d] = @ - y]
      /\ UNCHANGED <<governance, now>>
  BY DEF Swap
<1>2. now \in 0..MaxTime /\ PoolsOK(pools, now) /\ held \in [Token -> Nat] /\ Covered(pools, held)
      /\ x \in Int
  BY VaultAssumption DEF VaultInv, TypeOK
<1> HIDE DEF q
<1>3. /\ x \in Nat \ {0} /\ s # d /\ y \in Nat \ {0}
      /\ TradeOf(pools, q.pools, now, s, d, x, y)
      /\ \A a \in {s, d} : a # Hitz => Tradable(pools, IndexOf(pools, a), a)
  BY <1>1, <1>2, QuoteTrades DEF q
<1> HIDE DEF y
<1>4. TradeOf(pools, pools', now, s, d, x, y)
  BY <1>1, <1>3
<1>5. held' \in [Token -> Nat] /\ Covered(pools', held')
  <2>1. held' = Traded(held, s, d, x, y)
    BY <1>1 DEF Traded
  <2>2. (d # Hitz => Tradable(pools, IndexOf(pools, d), d)) /\ x \in Nat /\ y \in Nat /\ s # d
    BY <1>3
  <2> QED
    BY <1>2, <1>4, <2>1, <2>2, CoveredAfterTrade
<1>6. PoolsOK(pools', now) /\ Len(pools') = Len(pools)
  BY <1>4 DEF TradeOf
<1>7. PoolsOK(pools', now') /\ pools' \in Seq(Pool) /\ \A i \in DOMAIN pools' : pools'[i].updated <= now'
  BY <1>1, <1>6 DEF PoolsOK
<1>8. TypeOK'
  BY <1>1, <1>5, <1>7 DEF VaultInv, TypeOK, governance
<1>9. VaultInv'
  BY <1>1, <1>5, <1>6, <1>7, <1>8 DEF VaultInv, NothingOutlives, governance
<1> QED
  BY <1>3, <1>4, <1>9

\* Liquidity of both sides joins pool i.
Deepened(ps, t, i, n, h, amount) ==
    /\ PoolsOK(ps, t) /\ i \in DOMAIN ps
    /\ h \in Nat /\ amount \in Nat
    /\ n \in Pool /\ n.asset = ps[i].asset /\ n.updated <= t
    /\ n.hitz = ps[i].hitz + h /\ n.reserve = ps[i].reserve + amount

StillCovered(ps, qs, t, i, n, after) ==
    /\ PoolsOK(qs, t) /\ Len(qs) = Len(ps) /\ DOMAIN qs = DOMAIN ps
    /\ qs[i] = n /\ \A j \in DOMAIN ps : j # i => qs[j] = ps[j]
    /\ after \in [Token -> Nat] /\ Covered(qs, after)

LEMMA CoveredAfterPull ==
    ASSUME NEW ps, NEW t, NEW owned \in [Token -> Nat], Covered(ps, owned),
           NEW i, NEW n, NEW h, NEW amount, Deepened(ps, t, i, n, h, amount),
           NEW qs, qs = [ps EXCEPT ![i] = n],
           NEW after, after = Joined(owned, n.asset, h, amount)
    PROVE  StillCovered(ps, qs, t, i, n, after)
<1> USE DEF Deepened
<1> DEFINE a == n.asset
<1>1. DOMAIN qs = DOMAIN ps /\ qs[i] = n /\ \A j \in DOMAIN ps : j # i => qs[j] = ps[j]
  OBVIOUS
<1>2. PoolsOK(qs, t) /\ Len(qs) = Len(ps)
  <2>1. ps \in Seq(Pool) /\ DOMAIN ps = 1..Len(ps)
    BY DEF PoolsOK
  <2>2. qs \in Seq(Pool) /\ Len(qs) = Len(ps)
    BY <2>1, ExceptSeq
  <2>3. \A j \in DOMAIN qs : qs[j].updated <= t /\ qs[j].asset = ps[j].asset
    BY <1>1 DEF PoolsOK
  <2> QED
    BY <1>1, <2>2, <2>3 DEF PoolsOK
<1>3. SumHitz(qs) = SumHitz(ps) - ps[i].hitz + n.hitz
  <2>1. SumHitz(qs) = SumHitz(ps) - ps[i].hitz + qs[i].hitz
    BY <1>1, <1>2, SumHitzChange
  <2> QED
    BY <1>1, <2>1
<1>4. a \in Asset /\ a # Hitz /\ a \in Token /\ Hitz \in Token /\ ps[i].hitz \in Nat /\ SumHitz(ps) \in Nat
  <2>1. Hitz \notin Asset
    BY VaultAssumption
  <2> QED
    BY <2>1, PoolFields, SumHitzNat DEF Token
<1>5. after \in [Token -> Nat] /\ after[Hitz] = owned[Hitz] + h /\ after[a] = owned[a] + amount
      /\ \A b \in Token : after[b] >= owned[b]
  <2>1. \A b \in Token : after[b] = IF b = a THEN owned[b] + amount
                                    ELSE IF b = Hitz THEN owned[b] + h ELSE owned[b]
    BY <1>4 DEF Joined
  <2>2. after = [b \in Token |-> after[b]]
    BY DEF Joined
  <2>3. \A b \in Token : after[b] \in Nat /\ after[b] >= owned[b]
    BY <2>1
  <2> QED
    BY <1>4, <2>1, <2>2, <2>3
<1>6. SumHitz(qs) <= after[Hitz]
  <2>1. SumHitz(ps) <= owned[Hitz]
    BY DEF Covered
  <2> QED
    BY <1>3, <1>4, <1>5, <2>1
<1>7. ASSUME NEW j \in DOMAIN qs PROVE qs[j].reserve <= after[qs[j].asset]
  <2>1. ps[j].reserve \in Nat /\ ps[j].asset \in Token /\ ps[j].reserve <= owned[ps[j].asset]
    BY <1>1, PoolFields DEF Covered, Token
  <2>2. CASE j = i
    <3>1. qs[j].reserve = ps[j].reserve + amount /\ qs[j].asset = a /\ ps[j].asset = a
      BY <1>1, <2>2
    <3> QED
      BY <1>5, <2>1, <3>1
  <2>3. CASE j # i
    <3>1. qs[j] = ps[j] /\ after[ps[j].asset] >= owned[ps[j].asset]
      BY <1>1, <1>5, <2>1, <2>3
    <3> QED
      BY <1>5, <2>1, <3>1
  <2> QED
    BY <2>2, <2>3
<1> QED
  BY <1>1, <1>2, <1>5, <1>6, <1>7 DEF Covered, StillCovered

\* What a deposit and a seeding do to the pools and to what the vault owns.
PutIn(i, n, h, amount) ==
    /\ i \in DOMAIN pools /\ n.asset = pools[i].asset /\ n \in Pool /\ n.updated <= now
    /\ h \in Nat \ {0} /\ amount \in Nat
    /\ n.hitz = pools[i].hitz + h /\ n.reserve = pools[i].reserve + amount
    /\ pools' = [pools EXCEPT ![i] = n]
    /\ held' = [held EXCEPT ![Hitz] = @ + h, ![n.asset] = @ + amount]
    /\ UNCHANGED <<governance, now>>

LEMMA PutInStep ==
    ASSUME VaultInv, NEW i, NEW n, NEW h, NEW amount, PutIn(i, n, h, amount)
    PROVE  /\ VaultInv'
           /\ DOMAIN pools' = DOMAIN pools /\ pools'[i] = n
           /\ \A j \in DOMAIN pools : j # i => pools'[j] = pools[j]
<1> USE DEF PutIn
<1>1. PoolsOK(pools, now) /\ held \in [Token -> Nat] /\ Covered(pools, held)
  BY DEF VaultInv, TypeOK
<1>2. /\ PoolsOK(pools', now) /\ Len(pools') = Len(pools) /\ DOMAIN pools' = DOMAIN pools
      /\ pools'[i] = n /\ \A j \in DOMAIN pools : j # i => pools'[j] = pools[j]
      /\ held' \in [Token -> Nat] /\ Covered(pools', held')
  <2>1. h \in Nat /\ held' = Joined(held, n.asset, h, amount)
    BY DEF Joined
  <2>2. Deepened(pools, now, i, n, h, amount) /\ pools' = [pools EXCEPT ![i] = n]
    BY <1>1, <2>1 DEF Deepened
  <2> HIDE DEF PutIn
  <2>3. StillCovered(pools, pools', now, i, n, held')
    BY <1>1, <2>1, <2>2, CoveredAfterPull
  <2> QED
    BY <2>3 DEF StillCovered
<1>3. PoolsOK(pools', now') /\ pools' \in Seq(Pool) /\ \A j \in DOMAIN pools' : pools'[j].updated <= now'
  BY <1>2 DEF PoolsOK
<1>4. TypeOK'
  BY <1>2, <1>3 DEF VaultInv, TypeOK, governance
<1>5. VaultInv'
  BY <1>2, <1>3, <1>4 DEF VaultInv, NothingOutlives, governance
<1> QED
  BY <1>2, <1>5

LEMMA DepositStep ==
    ASSUME VaultInv, NEW a \in Asset, NEW h \in DepositHitz, NEW lo, NEW hi, Deposit(a, h, lo, hi)
    PROVE  LET i == IndexOf(pools, a)
               p == pools[i]
               amount == Matching(p, h)
               n == [p EXCEPT !.hitz = @ + h, !.reserve = @ + amount]
           IN  /\ PutIn(i, n, h, amount) /\ Seeded(p)
               /\ h * p.reserve <= amount * p.hitz
               /\ n.hitz = p.hitz + h /\ n.reserve = p.reserve + amount
               /\ n.deviation = p.deviation /\ n.updated = p.updated
<1> DEFINE i == IndexOf(pools, a)
           p == pools[i]
           amount == Matching(p, h)
           n == [p EXCEPT !.hitz = @ + h, !.reserve = @ + amount]
<1>1. /\ h > 0 /\ Listed(pools, a) /\ Seeded(p)
      /\ pools' = [pools EXCEPT ![i].hitz = @ + h, ![i].reserve = @ + amount]
      /\ held' = Pulled(a, h, amount)
      /\ UNCHANGED <<governance, now>>
  BY DEF Deposit
<1>2. PoolsOK(pools, now) /\ h \in Nat \ {0}
  BY <1>1, VaultAssumption DEF VaultInv
<1>3. i \in DOMAIN pools /\ p.asset = a
  BY <1>1, <1>2, IndexFacts
<1> HIDE DEF i
<1>4. /\ p \in Pool /\ p.hitz \in Nat \ {0} /\ p.reserve \in Nat \ {0}
      /\ p.updated \in Nat /\ p.updated <= now
  BY <1>1, <1>2, <1>3, PoolFields DEF Seeded
<1>5. pools' = [pools EXCEPT ![i] = n]
  <2>1. p = [asset |-> p.asset, hitz |-> p.hitz, reserve |-> p.reserve,
             deviation |-> p.deviation, updated |-> p.updated]
    BY <1>4 DEF Pool
  <2> QED
    BY <1>1, <1>3
<1> HIDE DEF p
<1>6. amount \in Nat /\ h * p.reserve <= amount * p.hitz
  <2>1. h \in Nat /\ p.reserve \in Nat /\ p.hitz \in Nat \ {0}
    BY <1>2, <1>4
  <2> QED
    BY <2>1, CeilFacts DEF Matching
<1> HIDE DEF amount
<1>7. /\ n.asset = a /\ n.hitz = p.hitz + h /\ n.reserve = p.reserve + amount
      /\ n.deviation = p.deviation /\ n.updated = p.updated /\ n \in Pool
  <2>1. h \in Nat /\ amount \in Nat
    BY <1>2, <1>6
  <2>2. p \in [asset : Asset, hitz : Nat, reserve : Nat, deviation : Int, updated : 0..MaxTime]
    BY <1>4 DEF Pool
  <2>3. p.hitz \in Nat /\ p.reserve \in Nat /\ p.asset = a
    BY <1>3, <1>4 DEF p
  <2>4. p.hitz + h \in Nat /\ p.reserve + amount \in Nat
    BY <2>1, <2>3
  <2> QED
    BY <2>2, <2>3, <2>4 DEF Pool
<1>8. held' = [held EXCEPT ![Hitz] = @ + h, ![n.asset] = @ + amount]
  BY <1>1, <1>7 DEF Pulled
<1> HIDE DEF n
<1>9. PutIn(i, n, h, amount)
  BY <1>1, <1>2, <1>3, <1>4, <1>5, <1>6, <1>7, <1>8 DEF PutIn, p
<1> QED
  BY <1>1, <1>6, <1>7, <1>9 DEF i, p, amount, n

-----------------------------------------------------------------------------
(* A new pool's deviation.                                                 *)

LEMMA Cancel ==
    ASSUME NEW a \in Int, NEW b \in Int, NEW w \in Nat \ {0}, a * w < b * w + w
    PROVE  a <= b
<1> SUFFICES ASSUME b + 1 <= a PROVE FALSE
  OBVIOUS
<1>1. (b + 1) * w <= a * w
  OBVIOUS
<1>2. (b + 1) * w = b * w + w
  OBVIOUS
<1> DEFINE A == a * w
           B == b * w
<1>3. A \in Int /\ B \in Int
  OBVIOUS
<1> HIDE DEF A, B
<1> QED
  BY <1>1, <1>2, <1>3 DEF A, B

\* Truncation stays between integer bounds.
LEMMA QuoBetween ==
    ASSUME NEW a \in Int, NEW w \in Nat \ {0}, NEW lo \in Int, NEW hi \in Int,
           lo * w <= a, a <= hi * w
    PROVE  lo <= Quo(a, w) /\ Quo(a, w) <= hi
<1>1. CASE a >= 0
  <2> DEFINE q == a \div w
  <2>1. a \in Nat
    BY <1>1
  <2>2. q \in Nat /\ q * w <= a /\ a < q * w + w
    BY <2>1, DivNat
  <2>3. Quo(a, w) = q
    BY <1>1 DEF Quo
  <2> HIDE DEF q
  <2> DEFINE L == lo * w
             H == hi * w
             Q == q * w
  <2>4. L \in Int /\ H \in Int /\ Q \in Int
    BY <2>2
  <2>5. L < Q + w /\ Q < H + w
    <3>1. L <= a /\ a <= H /\ Q <= a /\ a < Q + w
      BY <2>2
    <3> HIDE DEF L, H, Q
    <3> QED
      BY <2>4, <3>1
  <2>6. lo <= q /\ q <= hi
    BY <2>2, <2>5, Cancel
  <2> QED
    BY <2>3, <2>6
<1>2. CASE a < 0
  <2> DEFINE m == -a
             q == m \div w
             k == 0 - q
  <2>1. m \in Nat /\ Quo(a, w) = -q
    BY <1>2 DEF Quo
  <2>2. q \in Nat /\ q * w <= m /\ m < q * w + w
    BY <2>1, DivNat
  <2> HIDE DEF q
  <2>3. k \in Int /\ k * w = 0 - q * w /\ Quo(a, w) = k
    BY <2>1, <2>2
  <2> HIDE DEF k
  <2> DEFINE L == lo * w
             H == hi * w
             Q == q * w
             K == k * w
  <2>4. L \in Int /\ H \in Int /\ Q \in Int /\ K \in Int
    BY <2>2, <2>3
  <2>5. L < K + w /\ K < H + w
    <3>1. L <= a /\ a <= H /\ Q <= m /\ m < Q + w /\ K = 0 - Q
      BY <2>2, <2>3
    <3> HIDE DEF L, H, Q, K
    <3> QED
      BY <2>4, <3>1
  <2>6. lo <= k /\ k <= hi
    BY <2>3, <2>5, Cancel
  <2> QED
    BY <2>3, <2>6
<1> QED
  BY <1>1, <1>2

\* The HITZ-weighted average lies among the averaged.
LEMMA AverageInside ==
    ASSUME NEW ps, NEW t \in Nat, PoolsOK(ps, t)
    PROVE  /\ AverageDeviation(ps, t) \in Int
           /\ LET others == {DeviationAt(ps[j], t) : j \in {k \in DOMAIN ps : Seeded(ps[k])}}
              IN  IF others = {} THEN AverageDeviation(ps, t) = 0
                  ELSE AverageDeviation(ps, t) \in Min(others)..Max(others)
<1> DEFINE S == {i \in DOMAIN ps : Seeded(ps[i])}
           W == [i \in DOMAIN ps |-> ps[i].hitz]
           F == [i \in DOMAIN ps |-> DeviationAt(ps[i], t) * ps[i].hitz]
           weight == SumFunctionOnSet(W, S)
           total  == SumFunctionOnSet(F, S)
           others == {DeviationAt(ps[j], t) : j \in S}
           lo == Min(others)
           hi == Max(others)
<1>1. IsFiniteSet(S)
  BY DomainFinite
<1>2. \A i \in S : /\ W[i] = ps[i].hitz /\ W[i] \in Nat \ {0}
                   /\ DeviationAt(ps[i], t) \in Int
                   /\ F[i] = DeviationAt(ps[i], t) * ps[i].hitz
  BY PoolFields, DeviationInt DEF Seeded
<1>3. AverageDeviation(ps, t) = IF weight = 0 THEN 0 ELSE Quo(total, weight)
  BY DEF AverageDeviation
<1> HIDE DEF W, F
<1>4. CASE S = {}
  <2>1. weight = 0
    BY <1>4, SumEmpty
  <2> QED
    BY <1>3, <1>4, <2>1
<1>5. CASE S # {}
  <2>1. IsFiniteSet(others) /\ others # {} /\ others \in SUBSET Int
    <3> DEFINE f == [j \in S |-> DeviationAt(ps[j], t)]
    <3>1. f \in Surjection(S, others)
      BY DEF Surjection
    <3>2. IsFiniteSet(others)
      <4> HIDE DEF S, others, f
      <4> QED
        BY <1>1, <3>1, FS_Surjection
    <3> QED
      BY <1>2, <1>5, <3>2
  <2>2. lo \in Int /\ hi \in Int /\ \A i \in S : lo <= DeviationAt(ps[i], t) /\ DeviationAt(ps[i], t) <= hi
    <3>1. \A i \in S : DeviationAt(ps[i], t) \in others
      OBVIOUS
    <3> HIDE DEF others, S
    <3>2. lo \in others /\ hi \in others /\ \A v \in others : lo <= v /\ v <= hi
      BY <2>1, MinOfFinite, MaxOfFinite
    <3> QED
      BY <2>1, <3>1, <3>2
  <2> HIDE DEF S, lo, hi
  <2>3. weight \in Nat \ {0}
    <3>1. PICK a \in S : TRUE
      BY <1>5
    <3>2. weight \in Nat /\ W[a] <= weight
      BY <1>1, <1>2, SumNat
    <3> QED
      BY <1>2, <3>2
  <2> DEFINE L == [i \in S |-> lo * W[i]]
             H == [i \in S |-> hi * W[i]]
  <2>4. \A i \in S : L[i] \in Int /\ H[i] \in Int /\ F[i] \in Int /\ L[i] <= F[i] /\ F[i] <= H[i]
    <3> SUFFICES ASSUME NEW i \in S
                 PROVE  L[i] \in Int /\ H[i] \in Int /\ F[i] \in Int /\ L[i] <= F[i] /\ F[i] <= H[i]
      OBVIOUS
    <3> DEFINE v == DeviationAt(ps[i], t)
               w == W[i]
    <3>1. v \in Int /\ w \in Nat \ {0} /\ lo <= v /\ v <= hi /\ F[i] = v * w
      BY <1>2, <2>2
    <3>2. L[i] = lo * w /\ H[i] = hi * w
      OBVIOUS
    <3> HIDE DEF v, w, L, H
    <3>3. lo * w <= v * w /\ v * w <= hi * w /\ lo * w \in Int /\ hi * w \in Int /\ v * w \in Int
      BY <2>2, <3>1
    <3> QED
      BY <3>1, <3>2, <3>3
  <2>5. \A i \in S : W[i] \in Int /\ L[i] = lo * W[i] /\ H[i] = hi * W[i]
    BY <1>2
  <2> HIDE DEF L, H
  <2>6. SumFunctionOnSet(L, S) <= total /\ total <= SumFunctionOnSet(H, S) /\ total \in Int
    BY <1>1, <2>4, SumMonotone, SumInt
  <2>7. SumFunctionOnSet(L, S) = lo * weight /\ SumFunctionOnSet(H, S) = hi * weight
    BY <1>1, <2>2, <2>5, SumScale
  <2> HIDE DEF total, weight
  <2>8. lo <= Quo(total, weight) /\ Quo(total, weight) <= hi /\ Quo(total, weight) \in Int
    BY <2>2, <2>3, <2>6, <2>7, QuoBetween, QuoRange
  <2>9. AverageDeviation(ps, t) \in lo..hi
    BY <1>3, <2>2, <2>3, <2>8
  <2> QED
    BY <2>1, <2>2, <2>9 DEF lo, hi, S
<1> QED
  BY <1>4, <1>5

LEMMA SeedStep ==
    ASSUME VaultInv, NEW a \in Asset, NEW z \in SeedAmount, Seed(a, z[1], z[2])
    PROVE  LET i == IndexOf(pools, a)
               n == [asset |-> a, hitz |-> z[1], reserve |-> z[2],
                     deviation |-> AverageDeviation(pools, now), updated |-> now]
           IN  /\ PutIn(i, n, z[1], z[2]) /\ admin
               /\ pools[i].hitz = 0 /\ pools[i].reserve = 0
<1> DEFINE i == IndexOf(pools, a)
           h == z[1]
           amount == z[2]
           n == [asset |-> a, hitz |-> h, reserve |-> amount,
                 deviation |-> AverageDeviation(pools, now), updated |-> now]
<1>1. /\ admin /\ h > 0 /\ amount > 0 /\ Listed(pools, a)
      /\ pools[i].hitz = 0 /\ pools[i].reserve = 0
      /\ pools' = [pools EXCEPT ![i] = n]
      /\ held' = Pulled(a, h, amount)
      /\ UNCHANGED <<governance, now>>
  BY DEF Seed
<1>2. PoolsOK(pools, now) /\ h \in Nat \ {0} /\ amount \in Nat \ {0} /\ now \in 0..MaxTime /\ now \in Nat
  BY <1>1, VaultAssumption DEF VaultInv, TypeOK
<1>3. i \in DOMAIN pools /\ pools[i].asset = a
  BY <1>1, <1>2, IndexFacts
<1>4. AverageDeviation(pools, now) \in Int
  BY <1>2, AverageInside
<1>5. n \in Pool
  BY <1>2, <1>4 DEF Pool
<1> QED
  BY <1>1, <1>2, <1>3, <1>5 DEF PutIn, Pulled

-----------------------------------------------------------------------------
(* The other calls keep the invariant.                                     *)

LEMMA VaultInit == Init => VaultInv
<1> SUFFICES ASSUME Init PROVE VaultInv
  OBVIOUS
<1> USE DEF Init
<1>0. MaxTime \in Nat /\ InitialCode \in WasmHash /\ IsInjective(InitialAssets)
      /\ InitialAssets \in Seq(Asset)
  BY VaultAssumption
<1>1. InitialAssets \in Seq(Asset) /\ Len(InitialAssets) \in Nat
      /\ DOMAIN InitialAssets = 1..Len(InitialAssets)
      /\ \A i \in DOMAIN InitialAssets : InitialAssets[i] \in Asset
  BY <1>0
<1>2. /\ DOMAIN pools = 1..Len(InitialAssets)
      /\ \A i \in DOMAIN pools : pools[i] = EmptyPool(InitialAssets[i], 0) /\ pools[i] \in Pool
  BY <1>0, <1>1 DEF EmptyPool, Pool
<1>3. pools \in Seq(Pool) /\ Len(pools) = Len(InitialAssets)
  <2>1. pools = [i \in 1..Len(InitialAssets) |-> EmptyPool(InitialAssets[i], 0)]
    BY <1>1
  <2> QED
    BY <1>1, <1>2, <2>1
<1>4. \A i \in DOMAIN pools : /\ pools[i].asset = InitialAssets[i] /\ pools[i].hitz = 0
                              /\ pools[i].reserve = 0 /\ pools[i].updated = 0
  BY <1>2 DEF EmptyPool
<1>5. PoolsOK(pools, now)
  BY <1>0, <1>1, <1>2, <1>3, <1>4 DEF PoolsOK, IsInjective
<1>6. TypeOK
  <2>1. held \in [Token -> Nat]
    OBVIOUS
  <2>2. now \in 0..MaxTime /\ \A i \in DOMAIN pools : pools[i].updated <= now
    BY <1>0, <1>4
  <2> QED
    BY <1>0, <1>3, <2>1, <2>2 DEF TypeOK
<1>7. Covered(pools, held)
  <2> DEFINE f == [i \in DOMAIN pools |-> pools[i].hitz]
             g == [i \in DOMAIN pools |-> 0]
  <2>1. IsFiniteSet(DOMAIN pools)
    BY <1>5, DomainFinite
  <2>2. \A i \in DOMAIN pools : f[i] = 0
    BY <1>4
  <2>3. DOMAIN f = DOMAIN pools
    OBVIOUS
  <2> HIDE DEF f
  <2>4. SumFunctionOnSet(f, DOMAIN pools) = 0 * SumFunctionOnSet(f, DOMAIN pools)
    BY <2>1, <2>2, SumScale
  <2>5. SumFunctionOnSet(f, DOMAIN pools) \in Int
    BY <2>1, <2>2, SumInt
  <2>6. SumHitz(pools) = 0
    <3>1. SumHitz(pools) = SumFunctionOnSet(f, DOMAIN pools)
      BY <2>3 DEF SumHitz, SumFunction, f
    <3> QED
      BY <2>4, <2>5, <3>1
  <2>7. \A i \in DOMAIN pools : pools[i].asset \in Token
    BY <1>1, <1>2, <1>4 DEF Token
  <2>8. Hitz \in Token
    BY DEF Token
  <2> QED
    BY <1>4, <2>6, <2>7, <2>8 DEF Covered
<1> QED
  BY <1>3, <1>5, <1>6, <1>7 DEF VaultInv, NothingOutlives

LEMMA DonateStep ==
    ASSUME VaultInv, NEW g \in Gift, Donate(g[1], g[2])
    PROVE  VaultInv'
<1> USE VaultAssumption
<1>1. g[1] \in Token /\ g[2] \in Nat
  BY DEF Donate
<1>2. held' = [held EXCEPT ![g[1]] = @ + g[2]] /\ UNCHANGED <<pools, governance, now>>
  BY DEF Donate
<1>3. held \in [Token -> Nat]
  BY DEF VaultInv, TypeOK
<1>4. held' \in [Token -> Nat] /\ \A a \in Token : held'[a] >= held[a]
  BY <1>1, <1>2, <1>3
<1>5. PoolsOK(pools, now) /\ SumHitz(pools) \in Nat
  BY SumHitzNat DEF VaultInv
<1>6. Covered(pools, held')
  <2>1. Hitz \in Token /\ SumHitz(pools) <= held'[Hitz]
    BY <1>3, <1>4, <1>5 DEF VaultInv, Covered, Token
  <2>2. ASSUME NEW i \in DOMAIN pools PROVE pools[i].reserve <= held'[pools[i].asset]
    <3>1. pools[i].reserve \in Nat /\ pools[i].asset \in Token
      BY <1>5, PoolFields DEF Token
    <3> QED
      BY <1>3, <1>4, <3>1 DEF VaultInv, Covered
  <2> QED
    BY <2>1, <2>2 DEF Covered
<1>7. TypeOK'
  BY <1>2, <1>4 DEF VaultInv, TypeOK, governance
<1> QED
  BY <1>2, <1>6, <1>7 DEF VaultInv, NothingOutlives, governance

LEMMA CloseLedgerStep ==
    ASSUME VaultInv, NEW interval \in LedgerInterval, CloseLedger(interval)
    PROVE  VaultInv' /\ now' > now
<1> USE VaultAssumption
<1>1. /\ interval \in Nat \ {0} /\ now \in 0..MaxTime /\ now + interval <= MaxTime
      /\ now' = now + interval /\ UNCHANGED <<pools, governance, held>>
  BY DEF VaultInv, TypeOK, CloseLedger
<1>2. now' > now /\ now' \in 0..MaxTime
  BY <1>1
<1>3. PoolsOK(pools, now) /\ now \in Nat
  BY <1>1 DEF VaultInv
<1>4. \A i \in DOMAIN pools : pools[i].updated <= now'
  BY <1>2, <1>3, PoolFields
<1>5. PoolsOK(pools, now')
  BY <1>3, <1>4 DEF PoolsOK
<1>6. TypeOK'
  BY <1>1, <1>2, <1>4 DEF VaultInv, TypeOK, governance
<1> QED
  BY <1>1, <1>2, <1>5, <1>6 DEF VaultInv, NothingOutlives, governance

LEMMA ListAssetStep ==
    ASSUME VaultInv, NEW a \in Listable, ListAsset(a)
    PROVE  /\ VaultInv'
           /\ Len(pools') = Len(pools) + 1 /\ pools'[Len(pools) + 1].asset = a
           /\ ~Seeded(pools'[Len(pools) + 1])
           /\ \A i \in DOMAIN pools : i \in DOMAIN pools' /\ pools'[i] = pools[i]
<1>0. /\ Hitz \notin Asset /\ Listable \subseteq Asset \cup {Hitz}
      /\ Len(InitialAssets) \in Nat /\ MaxTime \in Nat
  BY VaultAssumption
<1> USE <1>0
<1> DEFINE k == Len(pools)
           e == EmptyPool(a, now)
<1>1. /\ admin /\ a # Hitz /\ ~Listed(pools, a)
      /\ pools' = Append(pools, e)
      /\ pendingListing' = None
      /\ UNCHANGED <<admin, pendingUpgrade, upgradesRenounced, code, held, now>>
  BY DEF ListAsset, CheckListable
<1>2. PoolsOK(pools, now) /\ pools \in Seq(Pool) /\ k \in Nat /\ DOMAIN pools = 1..k /\ now \in 0..MaxTime
  BY DEF VaultInv, TypeOK
<1>3. a \in Asset /\ e \in Pool
  BY <1>1, <1>2 DEF EmptyPool, Pool
<1>4. pools' \in Seq(Pool) /\ Len(pools') = k + 1 /\ DOMAIN pools' = 1..(k + 1)
      /\ pools'[k + 1] = e /\ \A i \in 1..k : pools'[i] = pools[i]
  BY <1>1, <1>2, <1>3
<1>5. e.asset = a /\ e.hitz = 0 /\ e.reserve = 0 /\ e.updated = now
  BY DEF EmptyPool
<1> HIDE DEF e, k
<1>6. \A i \in 1..(k + 1) : i = k + 1 \/ i \in 1..k
  BY <1>2
<1>7. now \in Nat
  BY <1>2
<1>8. \A i \in DOMAIN pools' : pools'[i].updated <= now
  <2>1. ASSUME NEW i \in 1..k PROVE pools'[i].updated <= now
    BY <1>2, <1>4 DEF PoolsOK
  <2>2. pools'[k + 1].updated <= now
    BY <1>4, <1>5, <1>7
  <2> QED
    BY <1>4, <1>6, <2>1, <2>2
<1>9. \A i, j \in DOMAIN pools' : pools'[i].asset = pools'[j].asset => i = j
  <2>1. \A i \in 1..k : pools[i].asset # a
    BY <1>1, <1>2 DEF Listed
  <2> QED
    BY <1>2, <1>4, <1>5, <1>6, <2>1 DEF PoolsOK
<1>10. PoolsOK(pools', now)
  BY <1>4, <1>8, <1>9 DEF PoolsOK
<1>11. SumHitz(pools') = SumHitz(pools)
  <2> DEFINE f == [i \in DOMAIN pools |-> pools[i].hitz]
             g == [i \in DOMAIN pools' |-> pools'[i].hitz]
  <2>1. /\ DOMAIN f = 1..k /\ DOMAIN g = 1..(k + 1) /\ g[k + 1] = 0
        /\ \A i \in 1..k : g[i] = f[i] /\ f[i] \in Int
    <3>1. \A i \in DOMAIN pools : pools[i].hitz \in Nat
      BY <1>2, PoolFields
    <3> QED
      BY <1>2, <1>4, <1>5, <1>6, <3>1
  <2> HIDE DEF f, g
  <2>2. IsFiniteSet(1..k) /\ k + 1 \notin 1..k /\ 1..(k + 1) = 1..k \cup {k + 1}
    <3>1. IsFiniteSet(1..k)
      BY <1>2, FS_Interval
    <3>2. k + 1 \notin 1..k /\ 1..(k + 1) = 1..k \cup {k + 1}
      <4>1. k \in Nat
        BY <1>2
      <4> QED
        BY <4>1
    <3> QED
      BY <3>1, <3>2
  <2> DEFINE D == 1..k
             z == k + 1
  <2>3. IsFiniteSet(D) /\ z \notin D /\ \A i \in D \cup {z} : g[i] \in Int
    BY <2>1, <2>2
  <2>4. \A i \in D : f[i] \in Int /\ g[i] = f[i]
    BY <2>1
  <2>5. g[z] = 0
    BY <2>1
  <2> HIDE DEF D, z
  <2>6. SumFunctionOnSet(g, D \cup {z}) = g[z] + SumFunctionOnSet(g, D)
    BY <2>3, SumAdd
  <2>7. SumFunctionOnSet(g, D) = SumFunctionOnSet(f, D) /\ SumFunctionOnSet(f, D) \in Int
    BY <2>3, <2>4, SumSame, SumInt
  <2>8. SumFunctionOnSet(g, D \cup {z}) = SumFunctionOnSet(f, D)
    BY <2>5, <2>6, <2>7
  <2>9. DOMAIN g = D \cup {z} /\ DOMAIN f = D
    BY <2>1, <2>2 DEF D, z
  <2> QED
    BY <2>8, <2>9 DEF SumHitz, SumFunction, f, g
<1>12. Covered(pools', held)
  <2>1. \A i \in DOMAIN pools' : pools'[i].reserve <= held[pools'[i].asset]
    <3>1. held \in [Token -> Nat] /\ a \in Token
      BY <1>3 DEF VaultInv, TypeOK, Token
    <3>2. ASSUME NEW i \in 1..k PROVE pools'[i].reserve <= held[pools'[i].asset]
      BY <1>2, <1>4 DEF VaultInv, Covered
    <3>3. pools'[k + 1].reserve <= held[pools'[k + 1].asset]
      <4>1. held[a] \in Nat
        BY <3>1
      <4> QED
        BY <1>4, <1>5, <4>1
    <3> QED
      BY <1>4, <1>6, <3>2, <3>3
  <2> QED
    BY <1>11, <2>1 DEF VaultInv, Covered
<1>13. TypeOK'
  BY <1>1, <1>4, <1>8 DEF VaultInv, TypeOK
<1>14. Len(pools') >= Len(InitialAssets)
  BY <1>2, <1>4 DEF VaultInv, k
<1>15. VaultInv'
  BY <1>1, <1>10, <1>12, <1>13, <1>14 DEF VaultInv, NothingOutlives
<1>16. \A i \in DOMAIN pools : i \in DOMAIN pools' /\ pools'[i] = pools[i]
  BY <1>2, <1>4
<1>17. ~Seeded(pools'[k + 1])
  BY <1>4, <1>5 DEF Seeded
<1> QED
  BY <1>4, <1>5, <1>15, <1>16, <1>17 DEF k

\* The calls that touch proposals only.
Paperwork ==
    \/ \E a \in Listable : ProposeListing(a)
    \/ CancelListing
    \/ \E h \in Installable : ProposeUpgrade(h)
    \/ CancelUpgrade
    \/ \E h \in Installable : Upgrade(h)
    \/ RenounceUpgrades
    \/ Renounce

LEMMA PaperworkStep == VaultInv /\ Paperwork => VaultInv' /\ UNCHANGED <<pools, held, now>>
<1> SUFFICES ASSUME VaultInv, Paperwork PROVE VaultInv' /\ UNCHANGED <<pools, held, now>>
  OBVIOUS
<1> USE VaultAssumption
<1>0. now \in Nat /\ now + UpgradeDelay \in Nat
  BY VaultInvImplies
<1>1. UNCHANGED <<pools, held, now>>
  BY DEF Paperwork, ProposeListing, CancelListing, ProposeUpgrade, CancelUpgrade, Upgrade,
         RenounceUpgrades, Renounce
<1>2. PoolsOK(pools', now') /\ Covered(pools', held') /\ Len(pools') >= Len(InitialAssets)
  BY <1>1 DEF VaultInv
<1>3. /\ pools' \in Seq(Pool) /\ \A i \in DOMAIN pools' : pools'[i].updated <= now'
      /\ held' \in [Token -> Nat] /\ now' \in 0..MaxTime
  BY <1>1 DEF VaultInv, TypeOK
<1>4. ASSUME NEW a \in Listable, ProposeListing(a) PROVE TypeOK' /\ NothingOutlives'
  <2>1. a \in Asset
    BY <1>4 DEF ProposeListing, CheckListable
  <2> QED
    BY <1>0, <1>3, <1>4, <2>1 DEF VaultInv, TypeOK, NothingOutlives, ProposeListing
<1>5. ASSUME CancelListing PROVE TypeOK' /\ NothingOutlives'
  BY <1>3, <1>5 DEF VaultInv, TypeOK, NothingOutlives, CancelListing
<1>6. ASSUME NEW h \in Installable, ProposeUpgrade(h) PROVE TypeOK' /\ NothingOutlives'
  BY <1>0, <1>3, <1>6 DEF VaultInv, TypeOK, NothingOutlives, ProposeUpgrade
<1>7. ASSUME CancelUpgrade PROVE TypeOK' /\ NothingOutlives'
  BY <1>3, <1>7 DEF VaultInv, TypeOK, NothingOutlives, CancelUpgrade
<1>8. ASSUME NEW h \in Installable, Upgrade(h) PROVE TypeOK' /\ NothingOutlives'
  BY <1>3, <1>8 DEF VaultInv, TypeOK, NothingOutlives, Upgrade
<1>9. ASSUME RenounceUpgrades PROVE TypeOK' /\ NothingOutlives'
  BY <1>3, <1>9 DEF VaultInv, TypeOK, NothingOutlives, RenounceUpgrades
<1>10. ASSUME Renounce PROVE TypeOK' /\ NothingOutlives'
  BY <1>3, <1>10 DEF VaultInv, TypeOK, NothingOutlives, Renounce, ListingAfterRenounce
<1>11. TypeOK' /\ NothingOutlives'
  BY <1>4, <1>5, <1>6, <1>7, <1>8, <1>9, <1>10 DEF Paperwork
<1> QED
  BY <1>1, <1>2, <1>11 DEF VaultInv

\* Every call, one by one.
LEMMA NextCases ==
    ASSUME Next
    PROVE  \/ \E s, d \in Token, x \in Amount, m \in {0} \cup Amount : Swap(s, d, x, m)
           \/ \E a \in Asset, h \in DepositHitz, w \in Window : Deposit(a, h, w[1], w[2])
           \/ \E a \in Asset, z \in SeedAmount : Seed(a, z[1], z[2])
           \/ \E g \in Gift : Donate(g[1], g[2])
           \/ \E a \in Listable : ListAsset(a)
           \/ Paperwork
           \/ \E interval \in LedgerInterval : CloseLedger(interval)
BY DEF Next, Trade, Govern, Paperwork

LEMMA VaultStep == VaultInv /\ [Next]_vars => VaultInv'
<1> SUFFICES ASSUME VaultInv, [Next]_vars PROVE VaultInv'
  OBVIOUS
<1>1. CASE UNCHANGED vars
  BY <1>1 DEF vars, governance, VaultInv, TypeOK, NothingOutlives
<1>2. CASE Next
  <2>1. ASSUME NEW s \in Token, NEW d \in Token, NEW x \in Amount, NEW m, Swap(s, d, x, m)
        PROVE  VaultInv'
    BY <2>1, SwapStep
  <2>2. ASSUME NEW a \in Asset, NEW h \in DepositHitz, NEW w \in Window, Deposit(a, h, w[1], w[2])
        PROVE  VaultInv'
    BY <2>2, DepositStep, PutInStep
  <2>3. ASSUME NEW a \in Asset, NEW z \in SeedAmount, Seed(a, z[1], z[2]) PROVE VaultInv'
    BY <2>3, SeedStep, PutInStep
  <2>4. ASSUME NEW g \in Gift, Donate(g[1], g[2]) PROVE VaultInv'
    BY <2>4, DonateStep
  <2>5. ASSUME NEW a \in Listable, ListAsset(a) PROVE VaultInv'
    BY <2>5, ListAssetStep
  <2>6. ASSUME NEW interval \in LedgerInterval, CloseLedger(interval) PROVE VaultInv'
    BY <2>6, CloseLedgerStep
  <2>7. ASSUME Paperwork PROVE VaultInv'
    BY <2>7, PaperworkStep
  <2> QED
    BY <1>2, <2>1, <2>2, <2>3, <2>4, <2>5, <2>6, <2>7, NextCases
<1> QED
  BY <1>1, <1>2

LEMMA VaultInvariant == Spec => []VaultInv
BY VaultInit, VaultStep, PTL DEF Spec

\* lib.rs:1-50.  "Reserves equal the vault's token balances": in every reachable
\* state all pools together share no more HITZ than the vault owns, each has its
\* asset covered, and no asset has two pools, whatever is traded, deposited,
\* seeded, listed or sent to the vault directly.
THEOREM BooksAlwaysBalance == Spec => []BooksBalance
<1>1. VaultInv => BooksBalance
  BY VaultInvImplies
<1> QED
  BY <1>1, VaultInvariant, PTL

\* "Round trips lose money", in every reachable state, on any scale of the
\* arithmetic and whatever the fee: what comes back is less than what went in,
\* over one hop or two.
THEOREM RoundTripsAlwaysLose == Spec => []RoundTripsLose
<1>1. VaultInv => RoundTripsLose
  <2> SUFFICES ASSUME VaultInv, NEW s \in Token, NEW t \in Token, NEW x \in Amount,
                      Quote(pools, s, t, x, now).ok,
                      Quote(Quote(pools, s, t, x, now).pools, t, s,
                            Quote(pools, s, t, x, now).out, now).ok
               PROVE  Quote(Quote(pools, s, t, x, now).pools, t, s,
                            Quote(pools, s, t, x, now).out, now).out < x
    BY DEF RoundTripsLose
  <2>1. now \in 0..MaxTime /\ PoolsOK(pools, now) /\ x \in Int
    BY VaultAssumption DEF VaultInv, TypeOK
  <2> QED
    BY <2>1, RoundTrip
<1> QED
  BY <1>1, VaultInvariant, PTL
-----------------------------------------------------------------------------
(* What no call does.                                                      *)

\* "k never decreases in any pool": no call whatever shrinks the product of
\* any pool's reserves.
THEOREM ProductsNeverShrink == Spec => KNeverDecreases
<1> DEFINE Grows == \A i \in DOMAIN pools :
                      pools'[i].hitz * pools'[i].reserve >= pools[i].hitz * pools[i].reserve
<1>1. VaultInv /\ [Next]_vars => [Grows]_vars
  <2> SUFFICES ASSUME VaultInv, Next PROVE Grows
    OBVIOUS
  <2>0. PoolsOK(pools, now)
        /\ \A i \in DOMAIN pools : pools[i].hitz \in Nat /\ pools[i].reserve \in Nat
    BY PoolFields DEF VaultInv
  <2>1. \A i \in DOMAIN pools : pools[i].hitz * pools[i].reserve >= pools[i].hitz * pools[i].reserve
    BY <2>0
  <2>2. ASSUME NEW s \in Token, NEW d \in Token, NEW x \in Amount, NEW m, Swap(s, d, x, m)
        PROVE  Grows
    BY <2>2, SwapStep DEF TradeOf
  <2>3. ASSUME NEW i, NEW n, NEW h, NEW amount, PutIn(i, n, h, amount) PROVE Grows
    <3>1. /\ i \in DOMAIN pools /\ pools'[i] = n
          /\ n.hitz = pools[i].hitz + h /\ n.reserve = pools[i].reserve + amount
          /\ h \in Nat /\ amount \in Nat
          /\ \A j \in DOMAIN pools : j # i => pools'[j] = pools[j]
      BY <2>3, PutInStep DEF PutIn
    <3> DEFINE H == pools[i].hitz
               R == pools[i].reserve
    <3>2. (H + h) * (R + amount) >= H * R
      <4>1. H \in Nat /\ R \in Nat /\ h \in Nat /\ amount \in Nat
        BY <2>0, <3>1
      <4> HIDE DEF H, R
      <4>2. (H + h) * (R + amount) = H * R + H * amount + h * R + h * amount
        BY <4>1
      <4>3. H * R \in Nat /\ H * amount \in Nat /\ h * R \in Nat /\ h * amount \in Nat
        BY <4>1
      <4> QED
        BY <4>2, <4>3
    <3> QED
      BY <2>1, <3>1, <3>2
  <2>4. ASSUME NEW a \in Asset, NEW h \in DepositHitz, NEW w \in Window, Deposit(a, h, w[1], w[2])
        PROVE  Grows
    BY <2>3, <2>4, DepositStep
  <2>5. ASSUME NEW a \in Asset, NEW z \in SeedAmount, Seed(a, z[1], z[2]) PROVE Grows
    BY <2>3, <2>5, SeedStep
  <2>6. ASSUME UNCHANGED pools PROVE Grows
    BY <2>1, <2>6
  <2>7. ASSUME NEW a \in Listable, ListAsset(a) PROVE Grows
    BY <2>1, <2>7, ListAssetStep
  <2>8. ASSUME NEW g \in Gift, Donate(g[1], g[2]) PROVE Grows
    BY <2>6, <2>8 DEF Donate
  <2>9. ASSUME NEW interval \in LedgerInterval, CloseLedger(interval) PROVE Grows
    BY <2>6, <2>9 DEF CloseLedger
  <2>10. ASSUME Paperwork PROVE Grows
    BY <2>6, <2>10, PaperworkStep
  <2> HIDE DEF Grows
  <2> QED
    BY <2>2, <2>4, <2>5, <2>7, <2>8, <2>9, <2>10, NextCases
<1> QED
  BY <1>1, VaultInvariant, PTL DEF Spec, KNeverDecreases

\* The step form of LiquidityComesInFairly.
NoDilution ==
    \A i \in DOMAIN pools :
        (/\ Seeded(pools[i])
         /\ pools'[i].hitz > pools[i].hitz /\ pools'[i].reserve > pools[i].reserve)
        => /\ pools'[i].reserve * pools[i].hitz >= pools[i].reserve * pools'[i].hitz
           /\ DeviationAt(pools'[i], now) = DeviationAt(pools[i], now)

StartsInside ==
    \A i \in DOMAIN pools : (~Seeded(pools[i]) /\ Seeded(pools'[i])) =>
        LET others == {DeviationAt(pools[j], now) : j \in {k \in DOMAIN pools : Seeded(pools[k])}}
        IN  IF others = {} THEN pools'[i].deviation = 0
            ELSE pools'[i].deviation \in Min(others)..Max(others)

\* A deposit adds to both sides of one pool, its asset rounded up; a seeding
\* fills one empty pool; no other call does either.
LEMMA LiquiditySteps == VaultInv /\ Next => NoDilution /\ StartsInside
<1> SUFFICES ASSUME VaultInv, Next PROVE NoDilution /\ StartsInside
  OBVIOUS
<1>0. /\ PoolsOK(pools, now) /\ now \in Nat
      /\ \A i \in DOMAIN pools : pools[i].hitz \in Nat /\ pools[i].reserve \in Nat
                                 /\ pools[i].asset \in Asset
  BY PoolFields, VaultInvImplies DEF VaultInv
<1>1. ASSUME NEW s \in Token, NEW d \in Token, NEW x \in Amount, NEW m, Swap(s, d, x, m)
      PROVE  NoDilution /\ StartsInside
  <2>1. PICK y \in Nat : TradeOf(pools, pools', now, s, d, x, y)
    BY <1>1, SwapStep
  <2>2. x \in Nat
    BY <1>1, SwapStep
  <2>3. ASSUME NEW i \in DOMAIN pools
        PROVE  /\ Seeded(pools'[i]) <=> Seeded(pools[i])
               /\ ~(pools'[i].hitz > pools[i].hitz /\ pools'[i].reserve > pools[i].reserve)
    <3>1. /\ Seeded(pools'[i]) <=> Seeded(pools[i])
          /\ pools'[i].reserve = pools[i].reserve + Change(pools[i].asset, s, d, x, y)
          /\ pools[i].asset = s => pools'[i].hitz <= pools[i].hitz
      BY <2>1 DEF TradeOf
    <3>2. PoolsOK(pools', now) /\ i \in DOMAIN pools'
      BY <2>1 DEF TradeOf
    <3>3. pools'[i].hitz \in Nat
      BY <3>2, PoolFields
    <3> QED
      BY <1>0, <2>2, <3>1, <3>3 DEF Change
  <2> QED
    BY <2>3 DEF NoDilution, StartsInside
<1>2. ASSUME NEW a \in Asset, NEW h \in DepositHitz, NEW w \in Window, Deposit(a, h, w[1], w[2])
      PROVE  NoDilution /\ StartsInside
  <2> DEFINE i == IndexOf(pools, a)
             p == pools[i]
             amount == Matching(p, h)
             n == [p EXCEPT !.hitz = @ + h, !.reserve = @ + amount]
  <2>1. /\ PutIn(i, n, h, amount) /\ Seeded(p)
        /\ h * p.reserve <= amount * p.hitz
        /\ n.hitz = p.hitz + h /\ n.reserve = p.reserve + amount
        /\ n.deviation = p.deviation /\ n.updated = p.updated
    BY <1>2, DepositStep
  <2> HIDE DEF i, n, amount
  <2>2. /\ i \in DOMAIN pools /\ pools'[i] = n /\ h \in Nat /\ amount \in Nat
        /\ \A j \in DOMAIN pools : j # i => pools'[j] = pools[j]
    BY <2>1, PutInStep DEF PutIn
  <2>3. p.hitz \in Nat /\ p.reserve \in Nat
    BY <1>0, <2>2
  <2> HIDE DEF p
  <2>4. (p.reserve + amount) * p.hitz >= p.reserve * (p.hitz + h)
    <3>1. /\ (p.reserve + amount) * p.hitz = p.reserve * p.hitz + amount * p.hitz
          /\ p.reserve * (p.hitz + h) = p.reserve * p.hitz + h * p.reserve
      BY <2>2, <2>3
    <3> DEFINE A == p.reserve * p.hitz
               B == amount * p.hitz
               C == h * p.reserve
    <3>2. A \in Int /\ B \in Int /\ C \in Int /\ C <= B
      BY <2>1, <2>2, <2>3
    <3> HIDE DEF A, B, C
    <3>3. A + B >= A + C
      BY <3>2
    <3> QED
      BY <3>1, <3>3 DEF A, B, C
  <2>5. DeviationAt(n, now) = DeviationAt(p, now)
    BY <2>1 DEF DeviationAt
  <2>6. NoDilution
    <3> SUFFICES ASSUME NEW j \in DOMAIN pools, pools'[j].hitz > pools[j].hitz
                 PROVE  /\ pools'[j].reserve * pools[j].hitz >= pools[j].reserve * pools'[j].hitz
                        /\ DeviationAt(pools'[j], now) = DeviationAt(pools[j], now)
      BY DEF NoDilution
    <3>1. j = i
      BY <1>0, <2>2
    <3>2. pools'[j] = n /\ pools[j] = p
      BY <2>2, <3>1 DEF p
    <3> QED
      BY <2>1, <2>4, <2>5, <3>2
  <2>7. StartsInside
    <3>1. \A j \in DOMAIN pools : Seeded(pools'[j]) => Seeded(pools[j])
      BY <2>1, <2>2 DEF p
    <3> QED
      BY <3>1 DEF StartsInside
  <2> QED
    BY <2>6, <2>7
<1>3. ASSUME NEW a \in Asset, NEW z \in SeedAmount, Seed(a, z[1], z[2])
      PROVE  NoDilution /\ StartsInside
  <2> DEFINE i == IndexOf(pools, a)
             n == [asset |-> a, hitz |-> z[1], reserve |-> z[2],
                   deviation |-> AverageDeviation(pools, now), updated |-> now]
             others == {DeviationAt(pools[j], now) : j \in {k \in DOMAIN pools : Seeded(pools[k])}}
  <2>1. PutIn(i, n, z[1], z[2]) /\ ~Seeded(pools[i])
    BY <1>3, SeedStep DEF Seeded
  <2>2. n.deviation = AverageDeviation(pools, now)
    OBVIOUS
  <2> HIDE DEF i, n
  <2>3. i \in DOMAIN pools /\ pools'[i] = n /\ \A j \in DOMAIN pools : j # i => pools'[j] = pools[j]
    BY <2>1, PutInStep DEF PutIn
  <2>4. IF others = {} THEN n.deviation = 0 ELSE n.deviation \in Min(others)..Max(others)
    BY <1>0, <2>2, AverageInside
  <2>5. NoDilution
    BY <1>0, <2>1, <2>3 DEF NoDilution
  <2> HIDE DEF others
  <2>6. StartsInside
    <3>1. \A j \in DOMAIN pools : ~Seeded(pools[j]) /\ Seeded(pools'[j]) => pools'[j] = n
      BY <2>3
    <3> QED
      BY <2>4, <3>1 DEF StartsInside, others
  <2> QED
    BY <2>5, <2>6
<1>4. ASSUME \A i \in DOMAIN pools : pools'[i] = pools[i] PROVE NoDilution /\ StartsInside
  BY <1>0, <1>4 DEF NoDilution, StartsInside
<1>5. ASSUME NEW a \in Listable, ListAsset(a) PROVE NoDilution /\ StartsInside
  BY <1>4, <1>5, ListAssetStep
<1>6. ASSUME NEW g \in Gift, Donate(g[1], g[2]) PROVE NoDilution /\ StartsInside
  BY <1>4, <1>6 DEF Donate
<1>7. ASSUME NEW interval \in LedgerInterval, CloseLedger(interval) PROVE NoDilution /\ StartsInside
  BY <1>4, <1>7 DEF CloseLedger
<1>8. ASSUME Paperwork PROVE NoDilution /\ StartsInside
  BY <1>4, <1>8, PaperworkStep
<1> QED
  BY <1>1, <1>2, <1>3, <1>5, <1>6, <1>7, <1>8, NextCases

\* Adding liquidity never makes HITZ cheaper for the next trader, and "a new
\* pool starts where the others already are": the weighted average, however it
\* truncates, lies within the deviations it averages.
THEOREM LiquidityAlwaysFair == Spec => LiquidityComesInFairly
<1>1. VaultInv /\ [Next]_vars => [NoDilution]_vars
  BY LiquiditySteps
<1>2. VaultInv /\ [Next]_vars => [StartsInside]_vars
  BY LiquiditySteps
<1>3. Spec => [][NoDilution]_vars /\ [][StartsInside]_vars
  BY <1>1, <1>2, VaultInvariant, PTL DEF Spec
<1> QED
  BY <1>3 DEF LiquidityComesInFairly, DepositsNeverDilute, SeedStartsInside, NoDilution, StartsInside
-----------------------------------------------------------------------------
(* The timelocks.                                                          *)

\* What a call may do to a proposal and to what it installs.
LEMMA TimelockInits == Init => ListingTimelock!Init /\ UpgradeTimelock!Init
<1> SUFFICES ASSUME Init PROVE ListingTimelock!Init /\ UpgradeTimelock!Init
  OBVIOUS
<1>1. Len(pools) = Len(InitialAssets)
  <2>1. InitialAssets \in Seq(Asset) /\ DOMAIN InitialAssets = 1..Len(InitialAssets)
        /\ Len(InitialAssets) \in Nat
    BY VaultAssumption
  <2>2. pools = [i \in 1..Len(InitialAssets) |-> EmptyPool(InitialAssets[i], 0)]
    BY <2>1 DEF Init
  <2> QED
    BY <2>1, <2>2
<1> QED
  BY <1>1 DEF Init, ListingTimelock!Init, UpgradeTimelock!Init

\* The frame: a call that leaves a clock's variables alone stutters on it.
LEMMA ListingFrame ==
    ASSUME PoolsOK(pools, now), PoolsOK(pools', now'), Len(pools') = Len(pools),
           \A i \in DOMAIN pools : pools'[i].asset = pools[i].asset,
           Len(InitialAssets) \in Nat, Len(pools) >= Len(InitialAssets), Len(InitialAssets) > 0,
           UNCHANGED <<pendingListing, now>>
    PROVE  UNCHANGED ListingTimelock!vars
<1>1. Len(pools) \in DOMAIN pools
  BY DEF PoolsOK
<1>2. Last(pools').asset = Last(pools).asset
  BY <1>1 DEF Last
<1> QED
  BY <1>2 DEF ListingTimelock!vars

LEMMA ListingStep ==
    ASSUME VaultInv, [Next]_vars
    PROVE  [ListingTimelock!Next]_(ListingTimelock!vars)
<1> USE VaultAssumption
<1>0. /\ VaultInv' /\ PoolsOK(pools, now) /\ PoolsOK(pools', now')
      /\ Len(InitialAssets) \in Nat /\ Len(InitialAssets) > 0 /\ Len(pools) \in Nat
      /\ Len(pools) >= Len(InitialAssets) /\ now \in Nat /\ UpgradeDelay \in Nat
  <2>1. VaultInv'
    BY VaultStep
  <2>2. Len(pools) \in Nat
    BY DEF VaultInv, TypeOK
  <2> QED
    BY <2>1, <2>2, VaultInvImplies DEF VaultInv
<1>1. ASSUME Len(pools') = Len(pools), \A i \in DOMAIN pools : pools'[i].asset = pools[i].asset,
             UNCHANGED <<pendingListing, now>>
      PROVE  UNCHANGED ListingTimelock!vars
  BY <1>0, <1>1, ListingFrame
<1>2. ASSUME NEW s \in Token, NEW d \in Token, NEW x \in Amount, NEW m, Swap(s, d, x, m)
      PROVE  UNCHANGED ListingTimelock!vars
  <2>1. PICK y \in Nat : TradeOf(pools, pools', now, s, d, x, y)
    BY <1>2, SwapStep
  <2>2. UNCHANGED <<pendingListing, now>>
    BY <1>2 DEF Swap, governance
  <2> QED
    BY <1>1, <2>1, <2>2 DEF TradeOf
<1>3. ASSUME NEW i, NEW n, NEW h, NEW amount, PutIn(i, n, h, amount)
      PROVE  UNCHANGED ListingTimelock!vars
  <2>1. /\ DOMAIN pools' = DOMAIN pools /\ pools'[i] = n /\ n.asset = pools[i].asset
        /\ \A j \in DOMAIN pools : j # i => pools'[j] = pools[j]
        /\ UNCHANGED <<pendingListing, now>>
    BY <1>3, PutInStep DEF PutIn, governance
  <2>2. Len(pools') = Len(pools)
    <3>1. Len(pools') \in Nat /\ DOMAIN pools' = 1..Len(pools') /\ DOMAIN pools = 1..Len(pools)
      BY <1>0 DEF PoolsOK
    <3>2. 1..Len(pools') = 1..Len(pools) /\ Len(pools) \in Nat /\ Len(pools') \in Nat
      BY <1>0, <2>1, <3>1
    <3> QED
      BY <3>2, SameLength
  <2> QED
    BY <1>1, <2>1, <2>2
<1>4. ASSUME NEW a \in Asset, NEW h \in DepositHitz, NEW w \in Window, Deposit(a, h, w[1], w[2])
      PROVE  UNCHANGED ListingTimelock!vars
  BY <1>3, <1>4, DepositStep
<1>5. ASSUME NEW a \in Asset, NEW z \in SeedAmount, Seed(a, z[1], z[2])
      PROVE  UNCHANGED ListingTimelock!vars
  BY <1>3, <1>5, SeedStep
<1>6. ASSUME UNCHANGED <<pools, pendingListing, now>> PROVE UNCHANGED ListingTimelock!vars
  BY <1>6 DEF ListingTimelock!vars
<1>7. ASSUME NEW g \in Gift, Donate(g[1], g[2]) PROVE UNCHANGED ListingTimelock!vars
  BY <1>6, <1>7 DEF Donate, governance
<1>8. ASSUME NEW interval \in LedgerInterval, CloseLedger(interval)
      PROVE  ListingTimelock!Next
  <2>1. now' > now /\ UNCHANGED <<pools, pendingListing>>
    BY <1>8, CloseLedgerStep DEF CloseLedger, governance
  <2> QED
    BY <2>1 DEF ListingTimelock!Next, ListingTimelock!Tick
<1>9. ASSUME NEW a \in Listable, ListAsset(a)
      PROVE  ListingTimelock!Next
  <2>1. /\ pendingListing # None /\ pendingListing.asset = a
        /\ now >= pendingListing.eta /\ pendingListing' = None /\ now' = now
    BY <1>9 DEF ListAsset, Due
  <2>2. pendingListing \in [asset : Asset, eta : Nat]
    BY <2>1 DEF VaultInv, TypeOK
  <2>3. Len(pools') = Len(pools) + 1 /\ pools'[Len(pools) + 1].asset = a
    BY <1>9, ListAssetStep
  <2>4. Last(pools').asset = a /\ Len(pools') # Len(InitialAssets)
    BY <1>0, <2>3 DEF Last
  <2>5. now - (pendingListing.eta - UpgradeDelay) >= UpgradeDelay
    BY <1>0, <2>1, <2>2
  <2>6. [item |-> pendingListing.asset, since |-> pendingListing.eta - UpgradeDelay] # None
    BY <2>2
  <2> QED
    BY <2>1, <2>4, <2>5, <2>6 DEF ListingTimelock!Next, ListingTimelock!Install
<1>10. ASSUME NEW a \in Listable, ProposeListing(a)
       PROVE  ListingTimelock!Next
  <2>1. a \in Asset /\ pendingListing' = [asset |-> a, eta |-> now + UpgradeDelay]
        /\ UNCHANGED <<pools, now>>
    BY <1>10 DEF ProposeListing, CheckListable
  <2>2. pendingListing' # None /\ pendingListing'.eta - UpgradeDelay = now
    BY <1>0, <2>1
  <2>3. ListingTimelock!Propose(a)
    BY <2>1, <2>2 DEF ListingTimelock!Propose
  <2> QED
    BY <2>1, <2>3 DEF ListingTimelock!Next
<1>11. ASSUME pendingListing' = None, UNCHANGED <<pools, now>>
       PROVE  ListingTimelock!Next \/ UNCHANGED ListingTimelock!vars
  <2>1. CASE pendingListing = None
    BY <1>6, <1>11, <2>1
  <2>2. CASE pendingListing # None
    <3>1. pendingListing \in [asset : Asset, eta : Nat]
      BY <2>2 DEF VaultInv, TypeOK
    <3>2. [item |-> pendingListing.asset, since |-> pendingListing.eta - UpgradeDelay] # None
      BY <3>1
    <3> QED
      BY <1>11, <2>2, <3>2 DEF ListingTimelock!Next, ListingTimelock!Withdraw
  <2> QED
    BY <2>1, <2>2
<1>12. ASSUME Paperwork PROVE ListingTimelock!Next \/ UNCHANGED ListingTimelock!vars
  <2>1. \/ \E a \in Listable : ProposeListing(a)
        \/ pendingListing' = None /\ UNCHANGED <<pools, now>>
        \/ UNCHANGED <<pools, pendingListing, now>>
    BY <1>12 DEF Paperwork, CancelListing, ProposeUpgrade, CancelUpgrade, Upgrade,
                 RenounceUpgrades, Renounce, ListingAfterRenounce
  <2> QED
    BY <1>6, <1>10, <1>11, <2>1
<1>13. CASE UNCHANGED vars
  BY <1>6, <1>13 DEF vars, governance
<1>14. CASE Next
  BY <1>2, <1>4, <1>5, <1>7, <1>8, <1>9, <1>12, <1>14, NextCases
<1> QED
  BY <1>13, <1>14

LEMMA UpgradeStep ==
    ASSUME VaultInv, [Next]_vars
    PROVE  [UpgradeTimelock!Next]_(UpgradeTimelock!vars)
<1> USE VaultAssumption
<1>0. now \in Nat /\ UpgradeDelay \in Nat
  BY VaultInvImplies
<1>1. ASSUME UNCHANGED <<code, pendingUpgrade, now>> PROVE UNCHANGED UpgradeTimelock!vars
  BY <1>1 DEF UpgradeTimelock!vars
<1>2. ASSUME NEW h \in Installable, ProposeUpgrade(h) PROVE UpgradeTimelock!Next
  <2>1. h \in WasmHash /\ pendingUpgrade' = [wasm_hash |-> h, eta |-> now + UpgradeDelay]
        /\ UNCHANGED <<code, now>>
    BY <1>2 DEF ProposeUpgrade
  <2>2. pendingUpgrade' # None /\ pendingUpgrade'.eta - UpgradeDelay = now
    BY <1>0, <2>1
  <2>3. UpgradeTimelock!Propose(h)
    BY <2>1, <2>2 DEF UpgradeTimelock!Propose
  <2> QED
    BY <2>1, <2>3 DEF UpgradeTimelock!Next
<1>3. ASSUME NEW h \in Installable, Upgrade(h) PROVE UpgradeTimelock!Next
  <2>1. /\ pendingUpgrade # None /\ pendingUpgrade.wasm_hash = h /\ code' = h
        /\ now >= pendingUpgrade.eta /\ pendingUpgrade' = None /\ now' = now
    BY <1>3 DEF Upgrade, Due
  <2>2. pendingUpgrade \in [wasm_hash : WasmHash, eta : Nat]
    BY <2>1 DEF VaultInv, TypeOK
  <2>3. now - (pendingUpgrade.eta - UpgradeDelay) >= UpgradeDelay
    BY <1>0, <2>1, <2>2
  <2>4. [item |-> pendingUpgrade.wasm_hash, since |-> pendingUpgrade.eta - UpgradeDelay] # None
    BY <2>2
  <2> QED
    BY <2>1, <2>3, <2>4 DEF UpgradeTimelock!Next, UpgradeTimelock!Install
<1>4. ASSUME pendingUpgrade' = None, UNCHANGED <<code, now>>
      PROVE  UpgradeTimelock!Next \/ UNCHANGED UpgradeTimelock!vars
  <2>1. CASE pendingUpgrade = None
    BY <1>1, <1>4, <2>1
  <2>2. CASE pendingUpgrade # None
    <3>1. pendingUpgrade \in [wasm_hash : WasmHash, eta : Nat]
      BY <2>2 DEF VaultInv, TypeOK
    <3>2. [item |-> pendingUpgrade.wasm_hash, since |-> pendingUpgrade.eta - UpgradeDelay] # None
      BY <3>1
    <3> QED
      BY <1>4, <2>2, <3>2 DEF UpgradeTimelock!Next, UpgradeTimelock!Withdraw
  <2> QED
    BY <2>1, <2>2
<1>5. ASSUME NEW interval \in LedgerInterval, CloseLedger(interval) PROVE UpgradeTimelock!Next
  <2>1. now' > now /\ UNCHANGED <<code, pendingUpgrade>>
    BY <1>5, CloseLedgerStep DEF CloseLedger, governance
  <2> QED
    BY <2>1 DEF UpgradeTimelock!Next, UpgradeTimelock!Tick
<1>6. ASSUME Trade PROVE UNCHANGED UpgradeTimelock!vars
  <2>1. UNCHANGED <<code, pendingUpgrade, now>>
    BY <1>6 DEF Trade, Swap, Deposit, Seed, Donate, governance
  <2> QED
    BY <1>1, <2>1
<1>7. ASSUME Govern PROVE UpgradeTimelock!Next \/ UNCHANGED UpgradeTimelock!vars
  <2>1. \/ \E h \in Installable : ProposeUpgrade(h)
        \/ \E h \in Installable : Upgrade(h)
        \/ pendingUpgrade' = None /\ UNCHANGED <<code, now>>
        \/ UNCHANGED <<code, pendingUpgrade, now>>
    BY <1>7 DEF Govern, ProposeListing, CancelListing, ListAsset, CancelUpgrade,
                RenounceUpgrades, Renounce
  <2> QED
    BY <1>1, <1>2, <1>3, <1>4, <2>1
<1>8. CASE UNCHANGED vars
  BY <1>1, <1>8 DEF vars, governance
<1> QED
  BY <1>5, <1>6, <1>7, <1>8 DEF Next

\* The step form of RenouncedIsFinal.
Final ==
    /\ ~admin => /\ ~admin'
                 /\ DOMAIN pools' = DOMAIN pools /\ code' = code
                 /\ \A i \in DOMAIN pools : Seeded(pools'[i]) <=> Seeded(pools[i])
                 /\ pendingListing' = None /\ pendingUpgrade' = None
    /\ upgradesRenounced => /\ upgradesRenounced' /\ code' = code
                            /\ pendingUpgrade' = None

LEMMA RenouncedStep == VaultInv /\ Next => Final
<1> SUFFICES ASSUME VaultInv, Next PROVE Final
  OBVIOUS
<1>0. NothingOutlives
  BY DEF VaultInv
<1>1. ASSUME UNCHANGED governance,
             ~admin => DOMAIN pools' = DOMAIN pools
                       /\ \A i \in DOMAIN pools : Seeded(pools'[i]) <=> Seeded(pools[i])
      PROVE  Final
  BY <1>0, <1>1 DEF Final, NothingOutlives, governance
<1>2. ASSUME NEW s \in Token, NEW d \in Token, NEW x \in Amount, NEW m, Swap(s, d, x, m)
      PROVE  Final
  <2>1. UNCHANGED governance
    BY <1>2 DEF Swap
  <2>2. DOMAIN pools' = DOMAIN pools
        /\ \A i \in DOMAIN pools : Seeded(pools'[i]) <=> Seeded(pools[i])
    BY <1>2, SwapStep DEF TradeOf
  <2> QED
    BY <1>1, <2>1, <2>2
<1>3. ASSUME NEW a \in Asset, NEW h \in DepositHitz, NEW w \in Window, Deposit(a, h, w[1], w[2])
      PROVE  Final
  <2> DEFINE i == IndexOf(pools, a)
             p == pools[i]
             amount == Matching(p, h)
             n == [p EXCEPT !.hitz = @ + h, !.reserve = @ + amount]
  <2>1. /\ PutIn(i, n, h, amount) /\ Seeded(p)
        /\ n.hitz = p.hitz + h /\ n.reserve = p.reserve + amount
    BY <1>3, DepositStep
  <2> HIDE DEF i, n, amount
  <2>2. /\ DOMAIN pools' = DOMAIN pools /\ pools'[i] = n /\ i \in DOMAIN pools
        /\ h \in Nat /\ amount \in Nat /\ UNCHANGED governance
        /\ \A j \in DOMAIN pools : j # i => pools'[j] = pools[j]
    BY <2>1, PutInStep DEF PutIn
  <2>3. p.hitz \in Nat /\ p.reserve \in Nat
    BY <2>2, PoolFields DEF VaultInv
  <2>4. Seeded(n)
    BY <2>1, <2>2, <2>3 DEF Seeded
  <2> QED
    BY <1>1, <2>1, <2>2, <2>4
<1>4. ASSUME NEW a \in Asset, NEW z \in SeedAmount, Seed(a, z[1], z[2]) PROVE Final
  <2>1. admin /\ UNCHANGED governance
    BY <1>4 DEF Seed
  <2> QED
    BY <1>1, <2>1
<1>5. ASSUME UNCHANGED <<pools, governance>> PROVE Final
  BY <1>1, <1>5
<1>6. ASSUME NEW g \in Gift, Donate(g[1], g[2]) PROVE Final
  BY <1>5, <1>6 DEF Donate
<1>7. ASSUME NEW interval \in LedgerInterval, CloseLedger(interval) PROVE Final
  BY <1>5, <1>7 DEF CloseLedger
<1>8. ASSUME NEW a \in Listable, ListAsset(a) PROVE Final
  BY <1>0, <1>8 DEF ListAsset, Final, NothingOutlives
<1>9. ASSUME Paperwork PROVE Final
  <2>1. UNCHANGED pools
    BY <1>9, PaperworkStep
  <2>2. /\ admin /\ (upgradesRenounced => upgradesRenounced' /\ code' = code /\ pendingUpgrade' = None)
    BY <1>0, <1>9 DEF Paperwork, NothingOutlives, ProposeListing, CancelListing, ProposeUpgrade,
                      CancelUpgrade, Upgrade, RenounceUpgrades, Renounce
  <2> QED
    BY <2>2 DEF Final
<1> QED
  BY <1>2, <1>3, <1>4, <1>6, <1>7, <1>8, <1>9, NextCases

\* lib.rs:608-729.  Listings and upgrades implement the timelock, each on its
\* own clock, and what is renounced stays renounced: with no bound on the number
\* of proposals, cancellations and re-proposals, nothing is listed or installed
\* that was not the one public proposal for UpgradeDelay.
THEOREM AdminChangesAlwaysWait == Spec => AdminChangesAreTimelocked
<1>1. Init => ListingTimelock!Init /\ UpgradeTimelock!Init
  BY TimelockInits
<1>2. VaultInv /\ [Next]_vars => [ListingTimelock!Next]_(ListingTimelock!vars)
  BY ListingStep
<1>3. VaultInv /\ [Next]_vars => [UpgradeTimelock!Next]_(UpgradeTimelock!vars)
  BY UpgradeStep
<1>4. VaultInv /\ [Next]_vars => [Final]_vars
  BY RenouncedStep
<1>5. Spec => ListingTimelock!Spec
  BY <1>1, <1>2, VaultInvariant, PTL DEF Spec, ListingTimelock!Spec
<1>6. Spec => UpgradeTimelock!Spec
  BY <1>1, <1>3, VaultInvariant, PTL DEF Spec, UpgradeTimelock!Spec
<1>7. Spec => [][Final]_vars
  BY <1>4, VaultInvariant, PTL DEF Spec
<1>8. Spec => RenouncedIsFinal
  BY <1>7 DEF RenouncedIsFinal, Final
<1> QED
  BY <1>5, <1>6, <1>8 DEF AdminChangesAreTimelocked
=============================================================================
