----------------------------- MODULE SumTheorems -----------------------------
(***************************************************************************)
(* What the proofs need of recursion and of sums: a loop that counts a     *)
(* measure down has a value, and the sum of a function over a finite set   *)
(* (SumFunctionOnSet of Functions) can be taken apart at any element.      *)
(* Step and value of a loop are functions, so that the lemmas are first    *)
(* order and can be cited for any of them.                                 *)
(***************************************************************************)
EXTENDS FiniteSetsExt, FiniteSetTheorems, WellFoundedInduction, TLAPS

\* A set of naturals that is not empty has a least element.
LEMMA LeastNatural ==
    ASSUME NEW T \in SUBSET Nat, T # {}
    PROVE  \E n \in T : \A m \in T : n <= m
<1> DEFINE less == OpToRel(<, Nat)
<1>1. PICK n \in T : \A m \in T : ~ (<<m, n>> \in less)
  <2> HIDE DEF less
  <2>1. IsWellFoundedOn(less, Nat)
    BY NatLessThanWellFounded DEF less
  <2> QED
    BY <2>1, WFMin
<1>2. \A m \in T : ~ (m < n)
  BY <1>1 DEF OpToRel
<1> QED
  BY <1>2

\* And a finite set of integers that is not empty has its greatest and least
\* elements: Max and Min name them.
LEMMA MaxOfFinite ==
    ASSUME NEW S \in SUBSET Int, IsFiniteSet(S), S # {}
    PROVE  Max(S) \in S /\ \A x \in S : x <= Max(S)
<1> DEFINE Has(T) == \E x \in T : \A y \in T : y <= x
           wrong  == {n \in Nat : \E T \in SUBSET S : Cardinality(T) = n /\ T # {} /\ ~Has(T)}
<1>0. ASSUME NEW T \in SUBSET S PROVE IsFiniteSet(T) /\ Cardinality(T) \in Nat
  BY FS_Subset, FS_CardinalityType
<1>1. wrong = {}
  <2> SUFFICES ASSUME wrong # {} PROVE FALSE
    OBVIOUS
  <2>1. PICK n \in wrong : \A m \in wrong : n <= m
    BY LeastNatural
  <2>2. PICK T \in SUBSET S : Cardinality(T) = n /\ T # {} /\ ~Has(T)
    BY <2>1
  <2>3. PICK a \in T : TRUE
    BY <2>2
  <2>4. Has(T \ {a})
    <3>1. Cardinality(T \ {a}) = n - 1
      BY <1>0, <2>2, FS_RemoveElement
    <3>2. Cardinality(T \ {a}) \notin wrong /\ Cardinality(T \ {a}) \in Nat
      <4>1. Cardinality(T \ {a}) \in Nat /\ n \in Nat
        BY <1>0
      <4> HIDE DEF wrong
      <4> QED
        BY <2>1, <3>1, <4>1
    <3>3. T \ {a} # {}
      <4>1. T # {a}
        BY <2>2
      <4> QED
        BY <2>3, <4>1
    <3> QED
      BY <3>2, <3>3
  <2>5. PICK x \in T \ {a} : \A y \in T \ {a} : y <= x
    BY <2>4
  <2>6. a \in Int /\ x \in Int /\ \A y \in T : y \in Int
    OBVIOUS
  <2>7. CASE a <= x
    <3>1. \A y \in T : y <= x
      BY <2>5, <2>7
    <3> QED
      BY <2>2, <2>5, <3>1
  <2>8. CASE ~(a <= x)
    <3>1. \A y \in T : y <= a
      BY <2>5, <2>6, <2>8
    <3> QED
      BY <2>2, <2>3, <3>1
  <2> QED
    BY <2>7, <2>8
<1>2. Has(S)
  BY <1>0, <1>1
<1>3. \E x \in S : \A y \in S : x >= y
  BY <1>2
<1>4. Max(S) \in S /\ \A y \in S : Max(S) >= y
  BY <1>3 DEF Max
<1> QED
  BY <1>4

LEMMA MinOfFinite ==
    ASSUME NEW S \in SUBSET Int, IsFiniteSet(S), S # {}
    PROVE  Min(S) \in S /\ \A x \in S : Min(S) <= x
<1> DEFINE T == {0 - x : x \in S}
           f == [x \in S |-> 0 - x]
<1>1. T \in SUBSET Int /\ T # {} /\ \A x \in S : x \in Int /\ 0 - x \in T
  <2>1. \A x \in S : x \in Int /\ 0 - x \in Int
    OBVIOUS
  <2>2. PICK x \in S : TRUE
    OBVIOUS
  <2>3. 0 - x \in T
    OBVIOUS
  <2> QED
    BY <2>1, <2>3
<1>2. IsFiniteSet(T)
  <2>1. f \in Surjection(S, T)
    BY DEF Surjection
  <2> QED
    BY <2>1, FS_Surjection
<1>3. Max(T) \in T /\ \A y \in T : y <= Max(T)
  BY <1>1, <1>2, MaxOfFinite
<1>4. PICK x \in S : Max(T) = 0 - x
  BY <1>3
<1>5. ASSUME NEW y \in S PROVE x <= y
  <2>1. 0 - y \in T /\ x \in Int /\ y \in Int
    BY <1>1
  <2> HIDE DEF T
  <2> QED
    BY <1>3, <1>4, <2>1
<1>6. \E z \in S : \A y \in S : z <= y
  BY <1>5
<1>7. Min(S) \in S /\ \A y \in S : Min(S) <= y
  BY <1>6 DEF Min
<1> QED
  BY <1>7

-----------------------------------------------------------------------------
(* Recursion.                                                              *)

\* A loop on D with values in V, whose measure counts down until it stops.
CountsDown(D, V, mu, stop, val, next, step) ==
    /\ mu \in [D -> Nat] /\ val \in [D -> V] /\ next \in [D -> D]
    /\ step \in [D \X V -> V]
    /\ \A d \in D : ~stop[d] => mu[next[d]] < mu[d]

\* f computes the loop on D: where it stops its value is val, elsewhere the
\* step of the value at the next place.
Computes(f, D, stop, val, next, step) ==
    \A d \in D : f[d] = IF stop[d] THEN val[d] ELSE step[<<d, f[next[d]]>>]

\* The places from which the measure counts less than n.
Below(n, D, mu) == {d \in D : mu[d] < n}

\* The loop's value is one up to any measure, and unique.
LEMMA LoopUnique ==
    ASSUME NEW D, NEW mu \in [D -> Nat], NEW stop, NEW val, NEW next \in [D -> D], NEW step,
           \A d \in D : ~stop[d] => mu[next[d]] < mu[d],
           NEW n \in Nat, NEW m \in Nat, NEW g, NEW h,
           Computes(g, Below(n, D, mu), stop, val, next, step),
           Computes(h, Below(m, D, mu), stop, val, next, step)
    PROVE  \A d \in Below(n, D, mu) \cap Below(m, D, mu) : g[d] = h[d]
<1> DEFINE B == Below(n, D, mu) \cap Below(m, D, mu)
           differ == {k \in Nat : \E d \in B : mu[d] = k /\ g[d] # h[d]}
<1> SUFFICES ASSUME differ # {} PROVE FALSE
  BY DEF Below
<1>1. PICK k \in differ : \A j \in differ : k <= j
  BY LeastNatural
<1>2. PICK d \in B : mu[d] = k /\ g[d] # h[d]
  BY <1>1
<1>3. d \in D /\ mu[d] \in Nat
  BY DEF Below
<1>4. CASE stop[d]
  BY <1>2, <1>4 DEF Computes
<1>5. CASE ~stop[d]
  <2>1. next[d] \in D /\ mu[next[d]] \in Nat /\ mu[next[d]] < k
    BY <1>2, <1>3, <1>5
  <2>2. next[d] \in B
    BY <1>2, <2>1 DEF Below
  <2>3. g[next[d]] = h[next[d]]
    BY <1>1, <2>1, <2>2
  <2> QED
    BY <1>2, <1>5, <2>3 DEF Computes
<1> QED
  BY <1>4, <1>5

LEMMA LoopBelow ==
    ASSUME NEW D, NEW V, NEW mu, NEW stop, NEW val, NEW next, NEW step,
           CountsDown(D, V, mu, stop, val, next, step),
           NEW n \in Nat
    PROVE  \E g \in [Below(n, D, mu) -> V] :
              Computes(g, Below(n, D, mu), stop, val, next, step)
<1> USE DEF CountsDown
<1> DEFINE Has(k) == \E g \in [Below(k, D, mu) -> V] :
                        Computes(g, Below(k, D, mu), stop, val, next, step)
           missing == {k \in Nat : ~Has(k)}
<1> SUFFICES ASSUME missing # {} PROVE FALSE
  OBVIOUS
<1>1. PICK k \in missing : \A j \in missing : k <= j
  BY LeastNatural
<1>2. k # 0
  <2>1. Below(0, D, mu) = {}
    BY DEF Below
  <2>2. [d \in {} |-> val[d]] \in [Below(0, D, mu) -> V]
    BY <2>1
  <2>3. Has(0)
    BY <2>1, <2>2 DEF Computes
  <2> QED
    BY <1>1, <2>3
<1>3. k - 1 \in Nat /\ Has(k - 1)
  <2>1. k - 1 \in Nat /\ ~(k <= k - 1)
    BY <1>2
  <2> QED
    BY <1>1, <2>1
<1>4. PICK g \in [Below(k - 1, D, mu) -> V] :
         Computes(g, Below(k - 1, D, mu), stop, val, next, step)
  BY <1>3
<1> DEFINE h == [d \in Below(k, D, mu) |->
                    IF stop[d] THEN val[d] ELSE step[<<d, g[next[d]]>>]]
<1>5. ASSUME NEW d \in Below(k, D, mu), ~stop[d]
      PROVE  next[d] \in Below(k - 1, D, mu) /\ g[next[d]] \in V
  <2>1. d \in D /\ next[d] \in D /\ mu[d] \in Nat /\ mu[next[d]] \in Nat
        /\ mu[d] < k /\ mu[next[d]] < mu[d]
    BY <1>5 DEF Below
  <2> QED
    BY <1>1, <2>1 DEF Below
<1>6. h \in [Below(k, D, mu) -> V]
  <2> SUFFICES ASSUME NEW d \in Below(k, D, mu)
               PROVE  (IF stop[d] THEN val[d] ELSE step[<<d, g[next[d]]>>]) \in V
    OBVIOUS
  <2>1. d \in D
    BY DEF Below
  <2> QED
    BY <1>5, <2>1
<1>7. ASSUME NEW d \in Below(k, D, mu), ~stop[d] PROVE h[next[d]] = g[next[d]]
  <2>1. next[d] \in Below(k - 1, D, mu)
    BY <1>5, <1>7
  <2>2. next[d] \in Below(k, D, mu)
    BY <1>1, <2>1 DEF Below
  <2>3. g[next[d]] = IF stop[next[d]] THEN val[next[d]] ELSE step[<<next[d], g[next[next[d]]]>>]
    BY <1>4, <2>1 DEF Computes
  <2> QED
    BY <2>2, <2>3
<1>8. Computes(h, Below(k, D, mu), stop, val, next, step)
  BY <1>7 DEF Computes
<1> QED
  BY <1>1, <1>6, <1>8

\* A loop whose measure counts down has one value everywhere.
LEMMA LoopTheorem ==
    ASSUME NEW D, NEW V, NEW mu, NEW stop, NEW val, NEW next, NEW step,
           CountsDown(D, V, mu, stop, val, next, step)
    PROVE  \E f \in [D -> V] :
              f = [d \in D |-> IF stop[d] THEN val[d] ELSE step[<<d, f[next[d]]>>]]
<1> USE DEF CountsDown
<1> DEFINE Good(g, k) == g \in [Below(k, D, mu) -> V]
                         /\ Computes(g, Below(k, D, mu), stop, val, next, step)
           G(k) == CHOOSE g : Good(g, k)
           f == [d \in D |-> G(mu[d] + 1)[d]]
<1>1. ASSUME NEW k \in Nat PROVE Good(G(k), k)
  <2>1. \E g : Good(g, k)
    BY LoopBelow
  <2> QED
    BY <2>1
<1> HIDE DEF G
<1>2. ASSUME NEW d \in D PROVE mu[d] + 1 \in Nat /\ d \in Below(mu[d] + 1, D, mu)
  BY DEF Below
<1>3. f \in [D -> V]
  BY <1>1, <1>2
<1>4. ASSUME NEW d \in D
      PROVE  f[d] = IF stop[d] THEN val[d] ELSE step[<<d, f[next[d]]>>]
  <2> DEFINE g == G(mu[d] + 1)
  <2>1. Good(g, mu[d] + 1)
    BY <1>1, <1>2
  <2>2. g[d] = IF stop[d] THEN val[d] ELSE step[<<d, g[next[d]]>>]
    BY <1>2, <2>1 DEF Computes
  <2>3. ASSUME ~stop[d] PROVE f[next[d]] = g[next[d]]
    <3> DEFINE h == G(mu[next[d]] + 1)
    <3>1. next[d] \in D /\ mu[next[d]] < mu[d]
      BY <2>3
    <3>2. next[d] \in Below(mu[next[d]] + 1, D, mu) \cap Below(mu[d] + 1, D, mu)
      BY <3>1 DEF Below
    <3>3. Good(h, mu[next[d]] + 1) /\ mu[next[d]] + 1 \in Nat /\ mu[d] + 1 \in Nat
      BY <1>1, <1>2, <3>1
    <3> HIDE DEF g, h
    <3>4. h[next[d]] = g[next[d]]
      BY <2>1, <3>2, <3>3, LoopUnique
    <3> QED
      BY <3>1, <3>4 DEF h
  <2> QED
    BY <2>2, <2>3
<1>5. f = [d \in D |-> IF stop[d] THEN val[d] ELSE step[<<d, f[next[d]]>>]]
  BY <1>4
<1> QED
  BY <1>3, <1>5

\* g is in V where the loop stops, and where its next round's value is.
StaysIn(D, V, mu, stop, next, g) ==
    /\ mu \in [D -> Nat] /\ next \in [D -> D]
    /\ \A d \in D : ~stop[d] => mu[next[d]] < mu[d]
    /\ \A d \in D : stop[d] \/ g[next[d]] \in V => g[d] \in V

\* What holds where it stops and survives a round holds everywhere: a loop
\* stays in the set V its rounds keep it in.
LEMMA LoopInduction ==
    ASSUME NEW D, NEW V, NEW mu, NEW stop, NEW next, NEW g,
           StaysIn(D, V, mu, stop, next, g)
    PROVE  \A d \in D : g[d] \in V
<1> USE DEF StaysIn
<1> DEFINE wrong == {n \in Nat : \E d \in D : mu[d] = n /\ g[d] \notin V}
<1> SUFFICES ASSUME wrong # {} PROVE FALSE
  OBVIOUS
<1>1. PICK n \in wrong : \A m \in wrong : n <= m
  BY LeastNatural
<1>2. PICK d \in D : mu[d] = n /\ g[d] \notin V
  BY <1>1
<1>3. ~stop[d] /\ g[next[d]] \notin V
  BY <1>2
<1>4. next[d] \in D /\ mu[next[d]] \in Nat /\ mu[next[d]] < n
  BY <1>2, <1>3
<1>5. mu[next[d]] \in wrong
  BY <1>3, <1>4
<1> QED
  BY <1>1, <1>4, <1>5

\* A loop that only moves on: its value is that of the place it stops at.
MovesOn(D, V, mu, stop, val, next) ==
    /\ mu \in [D -> Nat] /\ val \in [D -> V] /\ next \in [D -> D]
    /\ \A d \in D : ~stop[d] => mu[next[d]] < mu[d]

LEMMA WhileTheorem ==
    ASSUME NEW D, NEW V, NEW mu, NEW stop, NEW val, NEW next, MovesOn(D, V, mu, stop, val, next)
    PROVE  \E f \in [D -> V] : f = [d \in D |-> IF stop[d] THEN val[d] ELSE f[next[d]]]
<1> USE DEF MovesOn
<1> DEFINE step == [q \in D \X V |-> q[2]]
<1>1. step \in [D \X V -> V]
  OBVIOUS
<1>2. \A d \in D, v \in V : step[<<d, v>>] = v
  OBVIOUS
<1> HIDE DEF step
<1>3. CountsDown(D, V, mu, stop, val, next, step)
  BY <1>1 DEF CountsDown
<1>4. PICK f \in [D -> V] :
         f = [d \in D |-> IF stop[d] THEN val[d] ELSE step[<<d, f[next[d]]>>]]
  BY <1>3, LoopTheorem
<1>5. \A d \in D : step[<<d, f[next[d]]>>] = f[next[d]]
  BY <1>2
<1>6. f = [d \in D |-> IF stop[d] THEN val[d] ELSE f[next[d]]]
  BY <1>4, <1>5
<1> QED
  BY <1>6

\* Where a loop stops that started in a set its rounds do not leave.
LEMMA WhileStaysIn ==
    ASSUME NEW D, NEW V, NEW mu, NEW stop, NEW val, NEW next, MovesOn(D, V, mu, stop, val, next),
           NEW f, f = [d \in D |-> IF stop[d] THEN val[d] ELSE f[next[d]]],
           NEW kept \in SUBSET D, \A d \in kept : ~stop[d] => next[d] \in kept
    PROVE  \A d \in kept : \E e \in kept : stop[e] /\ f[d] = val[e]
<1> DEFINE Ends(d) == \E e \in kept : stop[e] /\ f[d] = val[e]
           g == [d \in D |-> IF d \in kept => Ends(d) THEN 1 ELSE 0]
<1>1. \A d \in D : f[d] = IF stop[d] THEN val[d] ELSE f[next[d]]
  OBVIOUS
<1>2. ASSUME NEW d \in D, stop[d] \/ g[next[d]] \in {1} PROVE g[d] \in {1}
  <2> SUFFICES ASSUME d \in kept PROVE Ends(d)
    OBVIOUS
  <2>1. CASE stop[d]
    BY <1>1, <2>1
  <2>2. CASE ~stop[d]
    <3>1. next[d] \in kept /\ next[d] \in D
      BY <2>2
    <3>2. Ends(next[d])
      BY <1>2, <2>2, <3>1
    <3>3. f[d] = f[next[d]]
      BY <1>1, <2>2
    <3> QED
      BY <3>2, <3>3
  <2> QED
    BY <2>1, <2>2
<1> HIDE DEF g
<1>3. StaysIn(D, {1}, mu, stop, next, g)
  BY <1>2 DEF StaysIn, MovesOn
<1>4. \A d \in D : g[d] \in {1}
  BY <1>3, LoopInduction
<1> QED
  BY <1>4 DEF g
-----------------------------------------------------------------------------
(* Sums over finite sets.                                                  *)

\* What SumFunctionOnSet does with a subset of S: add a chosen element's value
\* to the sum of the others.
SumLoop(iter, f, S) ==
    iter = [s \in SUBSET S |->
               IF s = {} THEN 0
               ELSE f[CHOOSE x \in s : TRUE] + iter[s \ {CHOOSE x \in s : TRUE}]]

LEMMA SumIsLoop ==
    ASSUME NEW f, NEW S
    PROVE  SumFunctionOnSet(f, S) = (CHOOSE iter : SumLoop(iter, f, S))[S]
BY DEF SumFunctionOnSet, FoldFunctionOnSet, MapThenFoldSet, SumLoop

LEMMA SumLoopExists ==
    ASSUME NEW f, NEW S, IsFiniteSet(S), \A x \in S : f[x] \in Int
    PROVE  \E iter \in [SUBSET S -> Int] : SumLoop(iter, f, S)
<1> DEFINE D     == SUBSET S
           any(s) == CHOOSE x \in s : TRUE
           mu    == [s \in D |-> Cardinality(s)]
           stop  == [s \in D |-> s = {}]
           val   == [s \in D |-> 0]
           next  == [s \in D |-> s \ {any(s)}]
           step  == [p \in D \X Int |-> IF p[1] = {} THEN 0 ELSE f[any(p[1])] + p[2]]
<1>1. ASSUME NEW s \in D
      PROVE  /\ IsFiniteSet(s) /\ Cardinality(s) \in Nat
             /\ s # {} => any(s) \in s /\ Cardinality(s \ {any(s)}) < Cardinality(s)
  <2>1. IsFiniteSet(s) /\ Cardinality(s) \in Nat
    BY FS_Subset, FS_CardinalityType
  <2>2. ASSUME s # {} PROVE any(s) \in s
    BY <2>2
  <2> HIDE DEF any
  <2>3. ASSUME s # {} PROVE Cardinality(s \ {any(s)}) < Cardinality(s)
    <3>1. Cardinality(s \ {any(s)}) = Cardinality(s) - 1
      BY <2>1, <2>2, <2>3, FS_RemoveElement
    <3> QED
      BY <2>1, <3>1
  <2> QED
    BY <2>1, <2>2, <2>3
<1> HIDE DEF any
<1>2. mu \in [D -> Nat] /\ val \in [D -> Int] /\ next \in [D -> D]
  <2>1. \A s \in D : s \ {any(s)} \in D
    OBVIOUS
  <2>2. \A s \in D : Cardinality(s) \in Nat
    BY <1>1
  <2> HIDE DEF D
  <2> QED
    BY <2>1, <2>2
<1>3. step \in [D \X Int -> Int]
  <2> SUFFICES ASSUME NEW p \in D \X Int, p[1] # {} PROVE f[any(p[1])] + p[2] \in Int
    OBVIOUS
  <2>1. p[1] \in D /\ p[2] \in Int
    OBVIOUS
  <2>2. any(p[1]) \in S
    BY <1>1, <2>1
  <2> QED
    BY <2>1, <2>2
<1>4. \A s \in D : ~stop[s] => mu[next[s]] < mu[s]
  BY <1>1, <1>2
<1> HIDE DEF mu, stop, val, next, step
<1>5. PICK iter \in [D -> Int] :
         iter = [s \in D |-> IF stop[s] THEN val[s] ELSE step[<<s, iter[next[s]]>>]]
  <2> HIDE DEF D
  <2>1. CountsDown(D, Int, mu, stop, val, next, step)
    BY <1>2, <1>3, <1>4 DEF CountsDown
  <2> QED
    BY <2>1, LoopTheorem
<1>6. ASSUME NEW s \in D
      PROVE  (IF stop[s] THEN val[s] ELSE step[<<s, iter[next[s]]>>])
               = IF s = {} THEN 0 ELSE f[any(s)] + iter[s \ {any(s)}]
  <2>1. next[s] \in D /\ iter[next[s]] \in Int
    BY <1>2
  <2> QED
    BY <2>1 DEF stop, val, next, step
<1>7. SumLoop(iter, f, S)
  BY <1>5, <1>6 DEF SumLoop, any
<1> QED
  BY <1>5, <1>7

\* Two loops give one sum to every set they both are defined on.
LEMMA SumLoopUnique ==
    ASSUME NEW f, NEW S, NEW T, IsFiniteSet(S), NEW g, NEW h,
           SumLoop(g, f, S), SumLoop(h, f, T)
    PROVE  \A s \in SUBSET (S \cap T) : g[s] = h[s]
<1> DEFINE differ == {n \in Nat : \E s \in SUBSET (S \cap T) : Cardinality(s) = n /\ g[s] # h[s]}
<1>0. ASSUME NEW s \in SUBSET (S \cap T) PROVE IsFiniteSet(s) /\ Cardinality(s) \in Nat
  BY FS_Subset, FS_CardinalityType
<1> SUFFICES ASSUME differ # {} PROVE FALSE
  BY <1>0
<1>1. PICK n \in differ : \A m \in differ : n <= m
  BY LeastNatural
<1>2. PICK s \in SUBSET (S \cap T) : Cardinality(s) = n /\ g[s] # h[s]
  BY <1>1
<1> DEFINE x == CHOOSE x \in s : TRUE
<1>3. s # {} /\ x \in s
  BY <1>2 DEF SumLoop
<1>4. Cardinality(s \ {x}) \in Nat /\ Cardinality(s \ {x}) < n
  <2> HIDE DEF x
  <2>1. Cardinality(s \ {x}) = n - 1
    BY <1>0, <1>2, <1>3, FS_RemoveElement
  <2> QED
    BY <1>0, <2>1
<1>5. g[s \ {x}] = h[s \ {x}]
  <2> HIDE DEF x
  <2>1. s \ {x} \in SUBSET (S \cap T)
    OBVIOUS
  <2> QED
    BY <1>1, <1>4, <2>1
<1>6. g[s] = f[x] + g[s \ {x}] /\ h[s] = f[x] + h[s \ {x}]
  BY <1>3 DEF SumLoop
<1> QED
  BY <1>2, <1>5, <1>6

\* The definition's own recursion, from one set to a smaller.
LEMMA SumUnfold ==
    ASSUME NEW f, NEW S, IsFiniteSet(S), \A x \in S : f[x] \in Int
    PROVE  /\ SumFunctionOnSet(f, S) \in Int
           /\ S = {} => SumFunctionOnSet(f, S) = 0
           /\ S # {} => LET x == CHOOSE x \in S : TRUE
                        IN  x \in S /\ SumFunctionOnSet(f, S) = f[x] + SumFunctionOnSet(f, S \ {x})
<1> DEFINE it(T) == CHOOSE iter : SumLoop(iter, f, T)
<1>1. ASSUME NEW T \in SUBSET S PROVE SumLoop(it(T), f, T)
  BY FS_Subset, SumLoopExists
<1>2. PICK g \in [SUBSET S -> Int] : SumLoop(g, f, S)
  BY SumLoopExists
<1>3. ASSUME NEW T \in SUBSET S PROVE SumFunctionOnSet(f, T) = g[T]
  <2>1. SumFunctionOnSet(f, T) = it(T)[T]
    BY SumIsLoop
  <2> HIDE DEF it
  <2>2. \A s \in SUBSET (S \cap T) : g[s] = it(T)[s]
    BY <1>1, <1>2, SumLoopUnique
  <2> QED
    BY <2>1, <2>2
<1> HIDE DEF it
<1>4. SumFunctionOnSet(f, S) = g[S] /\ g[S] \in Int
  BY <1>2, <1>3
<1>5. S = {} => g[S] = 0
  BY <1>2 DEF SumLoop
<1>6. ASSUME S # {}, NEW x, x = CHOOSE y \in S : TRUE
      PROVE  x \in S /\ SumFunctionOnSet(f, S) = f[x] + SumFunctionOnSet(f, S \ {x})
  <2>1. x \in S
    BY <1>6
  <2>2. g[S] = f[x] + g[S \ {x}]
    BY <1>2, <1>6 DEF SumLoop
  <2> QED
    BY <1>3, <1>4, <2>1, <2>2
<1> QED
  BY <1>4, <1>5, <1>6

LEMMA SumEmpty == ASSUME NEW f PROVE SumFunctionOnSet(f, {}) = 0
BY FS_EmptySet, SumUnfold

LEMMA SumInt ==
    ASSUME NEW f, NEW S, IsFiniteSet(S), \A x \in S : f[x] \in Int
    PROVE  SumFunctionOnSet(f, S) \in Int
BY SumUnfold

\* Any element may be taken out first.
LEMMA SumRemove ==
    ASSUME NEW f, NEW S, IsFiniteSet(S), \A x \in S : f[x] \in Int, NEW a \in S
    PROVE  SumFunctionOnSet(f, S) = f[a] + SumFunctionOnSet(f, S \ {a})
<1> DEFINE Sum(T) == SumFunctionOnSet(f, T)
           wrong == {n \in Nat : \E T \in SUBSET S : Cardinality(T) = n
                                    /\ \E b \in T : Sum(T) # f[b] + Sum(T \ {b})}
<1>0. ASSUME NEW T \in SUBSET S
      PROVE  /\ IsFiniteSet(T) /\ Cardinality(T) \in Nat /\ Sum(T) \in Int
             /\ \A x \in T : f[x] \in Int
  BY FS_Subset, FS_CardinalityType, SumInt
<1> SUFFICES ASSUME wrong # {} PROVE FALSE
  BY <1>0
<1>1. PICK n \in wrong : \A m \in wrong : n <= m
  BY LeastNatural
<1>2. PICK T \in SUBSET S : Cardinality(T) = n /\ \E b \in T : Sum(T) # f[b] + Sum(T \ {b})
  BY <1>1
<1>3. PICK b \in T : Sum(T) # f[b] + Sum(T \ {b})
  BY <1>2
<1>4. PICK x \in T : Sum(T) = f[x] + Sum(T \ {x})
  <2> HIDE DEF Sum
  <2>1. T # {}
    BY <1>3
  <2> QED
    BY <1>0, <2>1, SumUnfold DEF Sum
<1>5. x # b
  BY <1>3, <1>4
<1>6. ASSUME NEW U \in SUBSET T, U # T, NEW c \in U PROVE Sum(U) = f[c] + Sum(U \ {c})
  <2> HIDE DEF Sum
  <2>1. Cardinality(U) < n
    BY <1>0, <1>2, <1>6, FS_Subset
  <2>2. Cardinality(U) \in Nat /\ n \in Nat /\ U \in SUBSET S
    BY <1>0
  <2>3. Cardinality(U) \notin wrong
    BY <1>1, <2>1, <2>2
  <2> QED
    BY <2>2, <2>3
<1>7. Sum(T \ {x}) = f[b] + Sum((T \ {x}) \ {b}) /\ Sum(T \ {b}) = f[x] + Sum((T \ {b}) \ {x})
  <2> HIDE DEF Sum
  <2> QED
    BY <1>5, <1>6
<1>8. (T \ {x}) \ {b} = (T \ {b}) \ {x}
  OBVIOUS
<1> DEFINE others == Sum((T \ {x}) \ {b})
<1>9. f[b] \in Int /\ f[x] \in Int /\ others \in Int
  <2> HIDE DEF Sum
  <2> QED
    BY <1>0
<1>10. Sum(T) = f[x] + (f[b] + others) /\ Sum(T \ {b}) = f[x] + others
  <2> HIDE DEF Sum
  <2> QED
    BY <1>4, <1>7, <1>8
<1> HIDE DEF Sum, others
<1> QED
  BY <1>3, <1>9, <1>10

\* Sums are monotone, element by element.
LEMMA SumMonotone ==
    ASSUME NEW f, NEW g, NEW S, IsFiniteSet(S),
           \A x \in S : f[x] \in Int /\ g[x] \in Int /\ f[x] <= g[x]
    PROVE  SumFunctionOnSet(f, S) <= SumFunctionOnSet(g, S)
<1> DEFINE F(T) == SumFunctionOnSet(f, T)
           G(T) == SumFunctionOnSet(g, T)
           wrong == {n \in Nat : \E T \in SUBSET S : Cardinality(T) = n /\ ~(F(T) <= G(T))}
<1>0. ASSUME NEW T \in SUBSET S
      PROVE  /\ IsFiniteSet(T) /\ Cardinality(T) \in Nat
             /\ F(T) \in Int /\ G(T) \in Int
  BY FS_Subset, FS_CardinalityType, SumInt
<1> SUFFICES ASSUME wrong # {} PROVE FALSE
  BY <1>0
<1>1. PICK n \in wrong : \A m \in wrong : n <= m
  BY LeastNatural
<1>2. PICK T \in SUBSET S : Cardinality(T) = n /\ ~(F(T) <= G(T))
  BY <1>1
<1>3. T # {}
  BY <1>2, SumEmpty
<1>4. PICK a \in T : TRUE
  BY <1>3
<1>5. F(T) = f[a] + F(T \ {a}) /\ G(T) = g[a] + G(T \ {a})
  BY <1>0, SumRemove
<1> HIDE DEF F, G
<1>6. F(T \ {a}) <= G(T \ {a})
  <2>1. Cardinality(T \ {a}) = n - 1
    BY <1>0, <1>2, FS_RemoveElement
  <2>2. T \ {a} \in SUBSET S /\ Cardinality(T \ {a}) \in Nat /\ Cardinality(T \ {a}) < n
    BY <1>0, <2>1
  <2>3. Cardinality(T \ {a}) \notin wrong
    BY <1>1, <2>2
  <2> QED
    BY <2>2, <2>3
<1>7. f[a] \in Int /\ g[a] \in Int /\ f[a] <= g[a] /\ F(T \ {a}) \in Int /\ G(T \ {a}) \in Int
  BY <1>0
<1> QED
  BY <1>2, <1>5, <1>6, <1>7

\* Only the values on the set matter.
LEMMA SumSame ==
    ASSUME NEW f, NEW g, NEW S, IsFiniteSet(S),
           \A x \in S : f[x] \in Int /\ g[x] = f[x]
    PROVE  SumFunctionOnSet(g, S) = SumFunctionOnSet(f, S)
<1>1. SumFunctionOnSet(f, S) \in Int /\ SumFunctionOnSet(g, S) \in Int
  BY SumInt
<1>2. SumFunctionOnSet(f, S) <= SumFunctionOnSet(g, S)
  BY SumMonotone
<1>3. SumFunctionOnSet(g, S) <= SumFunctionOnSet(f, S)
  BY SumMonotone
<1> QED
  BY <1>1, <1>2, <1>3

\* One value changes: so does the sum, by as much.
LEMMA SumChange ==
    ASSUME NEW f, NEW g, NEW S, IsFiniteSet(S), NEW a \in S,
           \A x \in S : f[x] \in Int /\ g[x] \in Int,
           \A x \in S \ {a} : g[x] = f[x]
    PROVE  SumFunctionOnSet(g, S) = SumFunctionOnSet(f, S) - f[a] + g[a]
<1>1. IsFiniteSet(S \ {a})
  BY FS_Subset
<1>2. SumFunctionOnSet(g, S \ {a}) = SumFunctionOnSet(f, S \ {a})
  BY <1>1, SumSame
<1>3. /\ SumFunctionOnSet(f, S) = f[a] + SumFunctionOnSet(f, S \ {a})
      /\ SumFunctionOnSet(g, S) = g[a] + SumFunctionOnSet(g, S \ {a})
  BY SumRemove
<1>4. SumFunctionOnSet(f, S \ {a}) \in Int /\ f[a] \in Int /\ g[a] \in Int
  BY <1>1, SumInt
<1> QED
  BY <1>2, <1>3, <1>4

\* One element joins.
LEMMA SumAdd ==
    ASSUME NEW f, NEW S, IsFiniteSet(S), NEW a, a \notin S,
           \A x \in S \cup {a} : f[x] \in Int
    PROVE  SumFunctionOnSet(f, S \cup {a}) = f[a] + SumFunctionOnSet(f, S)
<1>1. IsFiniteSet(S \cup {a})
  BY FS_AddElement
<1>2. (S \cup {a}) \ {a} = S
  OBVIOUS
<1> QED
  BY <1>1, <1>2, SumRemove

\* A common factor.
LEMMA SumScale ==
    ASSUME NEW f, NEW g, NEW S, IsFiniteSet(S), NEW c \in Int,
           \A x \in S : f[x] \in Int /\ g[x] = c * f[x]
    PROVE  SumFunctionOnSet(g, S) = c * SumFunctionOnSet(f, S)
<1> DEFINE F(T) == SumFunctionOnSet(f, T)
           G(T) == SumFunctionOnSet(g, T)
           wrong == {n \in Nat : \E T \in SUBSET S : Cardinality(T) = n /\ G(T) # c * F(T)}
<1>0. ASSUME NEW T \in SUBSET S
      PROVE  /\ IsFiniteSet(T) /\ Cardinality(T) \in Nat
             /\ F(T) \in Int /\ G(T) \in Int
  <2>1. IsFiniteSet(T)
    BY FS_Subset
  <2>2. \A x \in T : f[x] \in Int /\ g[x] \in Int
    OBVIOUS
  <2> QED
    BY <2>1, <2>2, FS_CardinalityType, SumInt
<1> SUFFICES ASSUME wrong # {} PROVE FALSE
  BY <1>0
<1>1. PICK n \in wrong : \A m \in wrong : n <= m
  BY LeastNatural
<1>2. PICK T \in SUBSET S : Cardinality(T) = n /\ G(T) # c * F(T)
  BY <1>1
<1>3. T # {}
  <2>1. F({}) = 0 /\ G({}) = 0 /\ c * 0 = 0
    BY SumEmpty
  <2> HIDE DEF F, G
  <2> QED
    BY <1>2, <2>1
<1>4. PICK a \in T : TRUE
  BY <1>3
<1>5. F(T) = f[a] + F(T \ {a}) /\ G(T) = g[a] + G(T \ {a})
  <2>1. \A x \in T : f[x] \in Int /\ g[x] \in Int
    OBVIOUS
  <2> QED
    BY <1>0, <2>1, SumRemove
<1> HIDE DEF F, G
<1>6. G(T \ {a}) = c * F(T \ {a})
  <2>1. Cardinality(T \ {a}) = n - 1
    BY <1>0, <1>2, FS_RemoveElement
  <2>2. T \ {a} \in SUBSET S /\ Cardinality(T \ {a}) \in Nat /\ Cardinality(T \ {a}) < n
    BY <1>0, <2>1
  <2>3. Cardinality(T \ {a}) \notin wrong
    <3>1. n \in Nat
      OBVIOUS
    <3> HIDE DEF wrong
    <3> QED
      BY <1>1, <2>2, <3>1
  <2> QED
    BY <2>2, <2>3
<1>7. f[a] \in Int /\ g[a] = c * f[a] /\ F(T \ {a}) \in Int
  BY <1>0
<1>8. c * (f[a] + F(T \ {a})) = c * f[a] + c * F(T \ {a})
  BY <1>7
<1> QED
  BY <1>2, <1>5, <1>6, <1>7, <1>8

\* A sum of naturals is a natural, at least each of its terms.
LEMMA SumNat ==
    ASSUME NEW f, NEW S, IsFiniteSet(S), \A x \in S : f[x] \in Nat
    PROVE  /\ SumFunctionOnSet(f, S) \in Nat
           /\ \A a \in S : f[a] <= SumFunctionOnSet(f, S)
<1> DEFINE zero == [x \in S |-> 0]
<1>1. ASSUME NEW T \in SUBSET S PROVE SumFunctionOnSet(f, T) \in Int /\ SumFunctionOnSet(f, T) >= 0
  <2>1. IsFiniteSet(T) /\ SumFunctionOnSet(f, T) \in Int
    BY FS_Subset, SumInt
  <2>2. SumFunctionOnSet(zero, T) <= SumFunctionOnSet(f, T)
    BY <2>1, SumMonotone
  <2>3. SumFunctionOnSet(zero, T) = 0 * SumFunctionOnSet(f, T)
    BY <2>1, SumScale
  <2> QED
    BY <2>1, <2>2, <2>3
<1>2. ASSUME NEW a \in S PROVE f[a] <= SumFunctionOnSet(f, S)
  <2>1. SumFunctionOnSet(f, S) = f[a] + SumFunctionOnSet(f, S \ {a})
    BY SumRemove
  <2> QED
    BY <1>1, <2>1
<1> QED
  BY <1>1, <1>2

\* Two disjoint sets.
LEMMA SumUnion ==
    ASSUME NEW f, NEW S, NEW T, IsFiniteSet(S), IsFiniteSet(T), S \cap T = {},
           \A x \in S \cup T : f[x] \in Int
    PROVE  SumFunctionOnSet(f, S \cup T) = SumFunctionOnSet(f, S) + SumFunctionOnSet(f, T)
<1> DEFINE Sum(U) == SumFunctionOnSet(f, U)
           wrong == {n \in Nat : \E U \in SUBSET T : Cardinality(U) = n
                                    /\ Sum(S \cup U) # Sum(S) + Sum(U)}
<1>0. ASSUME NEW U \in SUBSET T
      PROVE  /\ IsFiniteSet(U) /\ Cardinality(U) \in Nat /\ IsFiniteSet(S \cup U)
             /\ Sum(U) \in Int /\ Sum(S \cup U) \in Int /\ Sum(S) \in Int
  <2>1. IsFiniteSet(U)
    BY FS_Subset
  <2>2. IsFiniteSet(S \cup U)
    BY <2>1, FS_Union
  <2> QED
    BY <2>1, <2>2, FS_CardinalityType, SumInt
<1> SUFFICES ASSUME wrong # {} PROVE FALSE
  BY <1>0
<1>1. PICK n \in wrong : \A m \in wrong : n <= m
  BY LeastNatural
<1>2. PICK U \in SUBSET T : Cardinality(U) = n /\ Sum(S \cup U) # Sum(S) + Sum(U)
  BY <1>1
<1> HIDE DEF wrong
<1>3. U # {}
  <2>1. Sum({}) = 0 /\ Sum(S \cup {}) = Sum(S)
    <3>1. S \cup {} = S
      OBVIOUS
    <3> QED
      BY <3>1, SumEmpty
  <2>2. Sum(S) \in Int
    BY <1>0
  <2> HIDE DEF Sum
  <2>3. Sum(S \cup {}) = Sum(S) + Sum({})
    BY <2>1, <2>2
  <2> QED
    BY <1>2, <2>3
<1>4. PICK a \in U : TRUE
  BY <1>3
<1> DEFINE V == U \ {a}
<1>5. Sum(U) = f[a] + Sum(V)
  <2>1. IsFiniteSet(U) /\ \A x \in U : f[x] \in Int
    BY <1>0
  <2> QED
    BY <2>1, SumRemove
<1>6. Sum(S \cup U) = f[a] + Sum(S \cup V)
  <2>1. (S \cup U) \ {a} = S \cup V
    OBVIOUS
  <2> DEFINE W == S \cup U
  <2>2. a \in W /\ IsFiniteSet(W) /\ \A x \in W : f[x] \in Int
    BY <1>0
  <2> HIDE DEF W
  <2>3. SumFunctionOnSet(f, W) = f[a] + SumFunctionOnSet(f, W \ {a})
    BY <2>2, SumRemove
  <2> QED
    BY <2>1, <2>3 DEF W
<1> HIDE DEF Sum
<1>7. Sum(S \cup V) = Sum(S) + Sum(V)
  <2>1. Cardinality(V) = n - 1
    BY <1>0, <1>2, FS_RemoveElement
  <2>2. V \in SUBSET T
    OBVIOUS
  <2> HIDE DEF V
  <2>3. Cardinality(V) \in Nat /\ Cardinality(V) < n
    <3>1. Cardinality(V) \in Nat /\ Cardinality(U) \in Nat
      BY <1>0, <2>2
    <3> QED
      BY <1>2, <2>1, <3>1
  <2>4. Cardinality(V) \notin wrong
    <3>1. n \in Nat
      BY DEF wrong
    <3> QED
      BY <1>1, <2>3, <3>1
  <2> QED
    BY <2>2, <2>3, <2>4 DEF wrong
<1>8. f[a] \in Int /\ Sum(V) \in Int /\ Sum(S) \in Int /\ Sum(S \cup V) \in Int
  <2>1. V \in SUBSET T
    OBVIOUS
  <2> HIDE DEF V
  <2> QED
    BY <1>0, <2>1
<1> HIDE DEF V, wrong
<1> QED
  BY <1>2, <1>5, <1>6, <1>7, <1>8

\* The sizes of the groups a key divides a finite set into add up to its size.
LEMMA GroupsAddUp ==
    ASSUME NEW S, IsFiniteSet(S), NEW T, IsFiniteSet(T), NEW key \in [S -> T], NEW g,
           \A t \in T : g[t] = Cardinality({x \in S : key[x] = t})
    PROVE  SumFunctionOnSet(g, T) = Cardinality(S)
<1> DEFINE Of(U) == {x \in S : key[x] \in U}
           wrong == {n \in Nat : \E U \in SUBSET T : Cardinality(U) = n
                                    /\ SumFunctionOnSet(g, U) # Cardinality(Of(U))}
<1>0. /\ \A t \in T : g[t] \in Int
      /\ \A U \in SUBSET T : IsFiniteSet(U) /\ Cardinality(U) \in Nat
                             /\ IsFiniteSet(Of(U)) /\ Cardinality(Of(U)) \in Nat
      /\ Of(T) = S
  <2>1. ASSUME NEW R \in SUBSET S PROVE IsFiniteSet(R) /\ Cardinality(R) \in Nat
    BY FS_Subset, FS_CardinalityType
  <2>2. ASSUME NEW U \in SUBSET T PROVE IsFiniteSet(U) /\ Cardinality(U) \in Nat
    BY FS_Subset, FS_CardinalityType
  <2>3. \A t \in T : {x \in S : key[x] = t} \in SUBSET S
    OBVIOUS
  <2>4. \A U \in SUBSET T : Of(U) \in SUBSET S
    OBVIOUS
  <2>5. \A t \in T : g[t] \in Int
    <3> SUFFICES ASSUME NEW t \in T PROVE g[t] \in Int
      OBVIOUS
    <3> DEFINE R == {x \in S : key[x] = t}
    <3>1. R \in SUBSET S /\ g[t] = Cardinality(R)
      OBVIOUS
    <3> HIDE DEF R
    <3> QED
      BY <2>1, <3>1
  <2>6. \A U \in SUBSET T : IsFiniteSet(Of(U)) /\ Cardinality(Of(U)) \in Nat
    <3> HIDE DEF Of
    <3> QED
      BY <2>1, <2>4
  <2> QED
    BY <2>2, <2>5, <2>6
<1>1. wrong = {}
  <2> SUFFICES ASSUME wrong # {} PROVE FALSE
    OBVIOUS
  <2>1. PICK n \in wrong : \A m \in wrong : n <= m
    BY LeastNatural
  <2>2. PICK U \in SUBSET T : Cardinality(U) = n /\ SumFunctionOnSet(g, U) # Cardinality(Of(U))
    BY <2>1
  <2> HIDE DEF wrong
  <2>3. U # {}
    <3>1. Of({}) = {}
      OBVIOUS
    <3> HIDE DEF Of
    <3>2. SumFunctionOnSet(g, {}) = 0 /\ Cardinality(Of({})) = 0
      BY <3>1, SumEmpty, FS_EmptySet
    <3> QED
      BY <2>2, <3>2
  <2>4. PICK t \in U : TRUE
    BY <2>3
  <2> DEFINE V == U \ {t}
             R == {x \in S : key[x] = t}
  <2>5. SumFunctionOnSet(g, U) = g[t] + SumFunctionOnSet(g, V)
    <3>1. IsFiniteSet(U) /\ \A x \in U : g[x] \in Int
      BY <1>0
    <3> QED
      BY <3>1, SumRemove
  <2>6. V \in SUBSET T /\ Cardinality(V) = n - 1 /\ Cardinality(V) \in Nat /\ n \in Nat
    <3>1. V \in SUBSET T /\ IsFiniteSet(U) /\ n \in Nat
      BY <1>0 DEF wrong
    <3>2. Cardinality(V) = n - 1
      BY <2>2, <3>1, FS_RemoveElement
    <3> HIDE DEF V
    <3> QED
      BY <1>0, <3>1, <3>2
  <2>7. Of(U) = Of(V) \cup R /\ Of(V) \cap R = {} /\ R \in SUBSET S
    OBVIOUS
  <2>8. g[t] = Cardinality(R)
    OBVIOUS
  <2> HIDE DEF V, R, Of
  <2>9. SumFunctionOnSet(g, V) = Cardinality(Of(V))
    <3>1. Cardinality(V) < n
      BY <2>6
    <3>2. Cardinality(V) \notin wrong
      BY <2>1, <2>6, <3>1
    <3> QED
      BY <2>6, <3>2 DEF wrong
  <2>10. IsFiniteSet(R) /\ IsFiniteSet(Of(V)) /\ Cardinality(R) \in Nat /\ Cardinality(Of(V)) \in Nat
    BY <1>0, <2>6, <2>7, FS_Subset, FS_CardinalityType
  <2>11. Cardinality(Of(U)) = Cardinality(Of(V)) + Cardinality(R)
    <3> DEFINE W == Of(V)
    <3>1. Cardinality(W \cap R) = 0 /\ W \cup R = Of(U)
      BY <2>7, FS_EmptySet
    <3>2. IsFiniteSet(W) /\ IsFiniteSet(R) /\ Cardinality(R) \in Nat /\ Cardinality(W) \in Nat
      BY <2>10
    <3> HIDE DEF W
    <3>3. Cardinality(W \cup R) = Cardinality(W) + Cardinality(R) - Cardinality(W \cap R)
      BY <3>2, FS_Union
    <3>4. Cardinality(W \cup R) = Cardinality(W) + Cardinality(R)
      BY <3>1, <3>2, <3>3
    <3> QED
      BY <3>1, <3>4 DEF W
  <2> QED
    BY <2>2, <2>5, <2>8, <2>9, <2>10, <2>11
<1>2. SumFunctionOnSet(g, T) = Cardinality(Of(T))
  <2> HIDE DEF Of
  <2>1. T \in SUBSET T /\ Cardinality(T) \in Nat
    BY <1>0
  <2> QED
    BY <1>1, <2>1
<1> HIDE DEF Of
<1> QED
  BY <1>0, <1>2

\* So are the values of its elements, summed group by group.
LEMMA SumGroups ==
    ASSUME NEW S, IsFiniteSet(S), NEW T, IsFiniteSet(T), NEW key \in [S -> T],
           NEW f, \A x \in S : f[x] \in Int, NEW part, NEW g,
           \A t \in T : /\ part[t] \in SUBSET S /\ \A x \in S : x \in part[t] <=> key[x] = t
                       /\ g[t] = SumFunctionOnSet(f, part[t])
    PROVE  SumFunctionOnSet(g, T) = SumFunctionOnSet(f, S)
<1> DEFINE Of(U) == {x \in S : key[x] \in U}
           Sum(R) == SumFunctionOnSet(f, R)
           wrong == {n \in Nat : \E U \in SUBSET T : Cardinality(U) = n
                                    /\ SumFunctionOnSet(g, U) # Sum(Of(U))}
<1>0. /\ \A t \in T : g[t] \in Int
      /\ \A U \in SUBSET T : IsFiniteSet(U) /\ Cardinality(U) \in Nat
      /\ \A R \in SUBSET S : IsFiniteSet(R) /\ Sum(R) \in Int /\ \A x \in R : f[x] \in Int
      /\ Of(T) = S
  <2>1. ASSUME NEW R \in SUBSET S
        PROVE  IsFiniteSet(R) /\ Sum(R) \in Int /\ \A x \in R : f[x] \in Int
    <3>1. IsFiniteSet(R) /\ \A x \in R : f[x] \in Int
      BY FS_Subset
    <3> QED
      BY <3>1, SumInt
  <2>2. ASSUME NEW U \in SUBSET T PROVE IsFiniteSet(U) /\ Cardinality(U) \in Nat
    BY FS_Subset, FS_CardinalityType
  <2>3. ASSUME NEW t \in T PROVE g[t] \in Int
    <3>1. part[t] \in SUBSET S /\ g[t] = Sum(part[t])
      OBVIOUS
    <3> HIDE DEF Sum
    <3> QED
      BY <2>1, <3>1
  <2>4. Of(T) = S
    OBVIOUS
  <2> HIDE DEF Of, Sum
  <2> QED
    BY <2>1, <2>2, <2>3, <2>4
<1>1. wrong = {}
  <2> SUFFICES ASSUME wrong # {} PROVE FALSE
    OBVIOUS
  <2>1. PICK n \in wrong : \A m \in wrong : n <= m
    BY LeastNatural
  <2>2. PICK U \in SUBSET T : Cardinality(U) = n /\ SumFunctionOnSet(g, U) # Sum(Of(U))
    BY <2>1
  <2> HIDE DEF wrong
  <2>3. U # {}
    <3>1. Of({}) = {}
      OBVIOUS
    <3> HIDE DEF Of
    <3>2. SumFunctionOnSet(g, {}) = 0 /\ Sum(Of({})) = 0
      BY <3>1, SumEmpty
    <3> QED
      BY <2>2, <3>2
  <2>4. PICK t \in U : TRUE
    BY <2>3
  <2> DEFINE V == U \ {t}
             R == part[t]
  <2>5. SumFunctionOnSet(g, U) = g[t] + SumFunctionOnSet(g, V)
    <3>1. IsFiniteSet(U) /\ \A x \in U : g[x] \in Int
      BY <1>0
    <3> QED
      BY <3>1, SumRemove
  <2>6. V \in SUBSET T /\ Cardinality(V) = n - 1 /\ Cardinality(V) \in Nat /\ n \in Nat
    <3>1. V \in SUBSET T /\ IsFiniteSet(U) /\ n \in Nat
      BY <1>0 DEF wrong
    <3>2. Cardinality(V) = n - 1
      BY <2>2, <3>1, FS_RemoveElement
    <3> HIDE DEF V
    <3> QED
      BY <1>0, <3>1, <3>2
  <2>7. Of(U) = Of(V) \cup R /\ Of(V) \cap R = {} /\ R \in SUBSET S /\ Of(V) \in SUBSET S
    OBVIOUS
  <2>8. g[t] = Sum(R)
    OBVIOUS
  <2> HIDE DEF V, R, Of
  <2>9. SumFunctionOnSet(g, V) = Sum(Of(V))
    <3>1. Cardinality(V) < n
      BY <2>6
    <3>2. Cardinality(V) \notin wrong
      BY <2>1, <2>6, <3>1
    <3> QED
      BY <2>6, <3>2 DEF wrong
  <2>10. Sum(Of(U)) = Sum(Of(V)) + Sum(R)
    <3> DEFINE W == Of(V)
    <3>1. W \cap R = {} /\ W \cup R = Of(U)
      BY <2>7
    <3>2. IsFiniteSet(W) /\ IsFiniteSet(R) /\ \A x \in W \cup R : f[x] \in Int
      BY <1>0, <2>7
    <3> HIDE DEF W
    <3>3. Sum(W \cup R) = Sum(W) + Sum(R)
      BY <3>1, <3>2, SumUnion
    <3> QED
      BY <3>1, <3>3 DEF W
  <2>11. Sum(R) \in Int /\ Sum(Of(V)) \in Int
    BY <1>0, <2>7
  <2> HIDE DEF Sum
  <2> QED
    BY <2>2, <2>5, <2>8, <2>9, <2>10, <2>11
<1>2. SumFunctionOnSet(g, T) = Sum(Of(T))
  <2> HIDE DEF Of, Sum
  <2>1. T \in SUBSET T /\ Cardinality(T) \in Nat
    BY <1>0
  <2> QED
    BY <1>1, <2>1
<1> HIDE DEF Of
<1> QED
  BY <1>0, <1>2
-----------------------------------------------------------------------------
(* Newton's iteration for a square root, on naturals.                      *)

\* Truncating division, characterised by multiplication.
LEMMA Division ==
    ASSUME NEW m \in Nat, NEW a \in Nat \ {0}
    PROVE  /\ m \div a \in Nat
           /\ (m \div a) * a <= m
           /\ m < (m \div a + 1) * a
BY SMT

\* Half a natural number, rounded down.
LEMMA Halving ==
    ASSUME NEW s \in Nat
    PROVE  /\ s \div 2 \in Nat
           /\ 2 * (s \div 2) <= s
           /\ s <= 2 * (s \div 2) + 1
BY SMT

\* The arithmetic-geometric mean inequality, on naturals.
LEMMA MeanSquare ==
    ASSUME NEW a \in Nat, NEW b \in Nat, NEW c \in Nat, a + b <= 2 * c
    PROVE  a * b <= c * c
<1>1. 4 * (a * b) <= (a + b) * (a + b)
  <2>1. (a - b) * (a - b) >= 0
    BY SMT
  <2>2. (a + b) * (a + b) = 4 * (a * b) + (a - b) * (a - b)
    BY SMT
  <2>. QED BY <2>1, <2>2, SMT
<1>2. (a + b) * (a + b) <= (2 * c) * (2 * c)
  BY SMT
<1>3. (2 * c) * (2 * c) = 4 * (c * c)
  BY SMT
<1>. QED BY <1>1, <1>2, <1>3, SMT

\* One Newton step from any positive number lands at or above the root.
LEMMA IterateAboveRoot ==
    ASSUME NEW m \in Nat, NEW a \in Nat \ {0}
    PROVE  LET z == (a + m \div a) \div 2
           IN  z \in Nat /\ m < (z + 1) * (z + 1)
<1> DEFINE q == m \div a
           z == (a + q) \div 2
<1>1. q \in Nat /\ m < (q + 1) * a
  BY Division
<1>2. z \in Nat /\ a + q <= 2 * z + 1
  BY <1>1, Halving, a + q \in Nat
<1> HIDE DEF q, z
<1>3. (q + 1) * a <= (z + 1) * (z + 1)
  BY <1>1, <1>2, (q + 1) + a <= 2 * (z + 1), q + 1 \in Nat, z + 1 \in Nat, MeanSquare
<1>4. m < (z + 1) * (z + 1)
  BY <1>1, <1>2, <1>3, SMT
<1>. QED BY <1>2, <1>4 DEF q, z

\* It stays positive for arguments the loop sees.
LEMMA IteratePositive ==
    ASSUME NEW m \in Nat, m > 1, NEW a \in Nat \ {0}
    PROVE  (a + m \div a) \div 2 > 0
<1> DEFINE q == m \div a
<1>1. q \in Nat /\ m < (q + 1) * a
  BY Division
<1> HIDE DEF q
<1>2. a + q >= 2
  <2>1. CASE q = 0
    BY <1>1, <2>1, SMT
  <2>2. CASE q > 0
    BY <1>1, <2>2, SMT
  <2>. QED BY <1>1, <2>1, <2>2, SMT
<1>. QED BY <1>1, <1>2, SMT DEF q

\* When the next iterate is not smaller, the root has been reached.
LEMMA StopsAtRoot ==
    ASSUME NEW m \in Nat, NEW a \in Nat \ {0}, ~((a + m \div a) \div 2 < a)
    PROVE  a * a <= m
<1> DEFINE q == m \div a
<1>1. q \in Nat /\ q * a <= m
  BY Division
<1>2. q >= a
  BY <1>1, Halving, a + q \in Nat, SMT
<1> HIDE DEF q
<1>3. a * a <= q * a
  BY <1>1, <1>2, SMT
<1>. QED BY <1>1, <1>3, SMT

-----------------------------------------------------------------------------
(* Folds over a sequence.                                                  *)

\* The largest of the first k numbers is k.
LEMMA PrefixOfNat ==
    ASSUME NEW n \in Nat, NEW k \in 1..n
    PROVE  Max(1..k) = k /\ (1..k) \ {k} = 1..(k - 1) /\ 1..k # {} /\ 1..k \in SUBSET (1..n)
<1>1. IsFiniteSet(1..k) /\ 1..k # {} /\ 1..k \in SUBSET Int
  <2>1. IsFiniteSet(1..k)
    BY FS_Interval, 1 \in Int, k \in Int
  <2>2. k \in 1..k
    OBVIOUS
  <2> QED
    BY <2>1, <2>2
<1>2. Max(1..k) \in 1..k /\ \A x \in 1..k : x <= Max(1..k)
  BY <1>1, MaxOfFinite
<1> QED
  BY <1>2

\* A set of places of a sequence is finite and has a last one.
LEMMA SubsetOfPrefix ==
    ASSUME NEW n \in Nat, NEW s \in SUBSET (1..n)
    PROVE  /\ IsFiniteSet(s) /\ s \in SUBSET Int /\ Cardinality(s) \in Nat
           /\ s # {} => Max(s) \in s
<1>1. IsFiniteSet(1..n)
  BY FS_Interval, 1 \in Int, n \in Int
<1>2. IsFiniteSet(s)
  BY <1>1, FS_Subset
<1>3. Cardinality(s) \in Nat
  BY <1>2, FS_CardinalityType
<1>4. s \in SUBSET Int
  OBVIOUS
<1> QED
  BY <1>2, <1>3, <1>4, MaxOfFinite

\* g folds step over the first n numbers, the largest outermost.
Folds(g, n, base, step) ==
    g = [s \in SUBSET (1..n) |-> IF s = {} THEN base ELSE step[<<Max(s), g[s \ {Max(s)}]>>]]

\* A fold whose step stays in V has a value in V for every set of places.
LEMMA FoldTheorem ==
    ASSUME NEW n \in Nat, NEW V, NEW base \in V, NEW step \in [(1..n) \X V -> V]
    PROVE  \E g \in [SUBSET (1..n) -> V] : Folds(g, n, base, step)
<1> DEFINE D == SUBSET (1..n)
           stop == [s \in D |-> s = {}]
           val == [s \in D |-> base]
           next == [s \in D |-> IF s = {} THEN {} ELSE s \ {Max(s)}]
           mu == [s \in D |-> Cardinality(s)]
           stp == [d \in D \X V |-> IF d[1] = {} THEN base ELSE step[<<Max(d[1]), d[2]>>]]
<1>1. \A s \in D : IsFiniteSet(s) /\ s \in SUBSET Int /\ Cardinality(s) \in Nat
  BY SubsetOfPrefix
<1>2. \A s \in D : s # {} => Max(s) \in s
  BY <1>1, MaxOfFinite
<1>3. ASSUME NEW s \in D, s # {} PROVE Cardinality(s \ {Max(s)}) < Cardinality(s)
  <2>1. Cardinality(s \ {Max(s)}) = Cardinality(s) - 1
    BY <1>1, <1>2, <1>3, FS_RemoveElement
  <2> QED
    BY <1>1, <2>1
<1>4. mu \in [D -> Nat] /\ val \in [D -> V] /\ next \in [D -> D]
  BY <1>1
<1>5. stp \in [D \X V -> V]
  <2>1. ASSUME NEW d \in D \X V, d[1] # {} PROVE step[<<Max(d[1]), d[2]>>] \in V
    <3>1. <<Max(d[1]), d[2]>> \in (1..n) \X V
      BY <1>2, <2>1
    <3> QED
      BY <3>1
  <2> QED
    BY <2>1
<1>6. \A s \in D : ~stop[s] => mu[next[s]] < mu[s]
  BY <1>3
<1>7. CountsDown(D, V, mu, stop, val, next, stp)
  BY <1>4, <1>5, <1>6 DEF CountsDown
<1>8. PICK g \in [D -> V] : g = [s \in D |-> IF stop[s] THEN val[s] ELSE stp[<<s, g[next[s]]>>]]
  <2> HIDE DEF D, stop, val, next, mu, stp
  <2> QED
    BY <1>7, LoopTheorem
<1>9. ASSUME NEW s \in D
      PROVE  (IF stop[s] THEN val[s] ELSE stp[<<s, g[next[s]]>>])
               = IF s = {} THEN base ELSE step[<<Max(s), g[s \ {Max(s)}]>>]
  BY <1>9
<1> QED
  BY <1>8, <1>9 DEF Folds

\* Induction up to n.
LEMMA StepsCoverPrefix ==
    ASSUME NEW n \in Nat, NEW good \in SUBSET (0..n), 0 \in good,
           \A k \in 1..n : k - 1 \in good => k \in good
    PROVE  \A k \in 0..n : k \in good
<1> DEFINE bad == (0..n) \ good
<1> SUFFICES ASSUME bad # {} PROVE FALSE
  OBVIOUS
<1>1. PICK k \in bad : \A m \in bad : k <= m
  <2>1. bad \in SUBSET Nat
    OBVIOUS
  <2> HIDE DEF bad
  <2> QED
    BY <2>1, LeastNatural
<1>2. k \in 1..n /\ k - 1 \in 0..n /\ ~(k <= k - 1)
  BY <1>1
<1>3. k - 1 \in good
  BY <1>1, <1>2
<1> QED
  BY <1>1, <1>2, <1>3

\* What holds at the start and is kept by each step holds all along.
LEMMA FoldStays ==
    ASSUME NEW n \in Nat, NEW V, NEW f, f[0] \in V,
           \A k \in 1..n : f[k - 1] \in V => f[k] \in V
    PROVE  \A k \in 0..n : f[k] \in V
<1> DEFINE good == {k \in 0..n : f[k] \in V}
<1>1. 0 \in good /\ \A k \in 1..n : k - 1 \in good => k \in good
  OBVIOUS
<1>2. good \in SUBSET (0..n)
  OBVIOUS
<1>3. \A k \in 0..n : k \in good
  <2> HIDE DEF good
  <2> QED
    BY <1>1, <1>2, StepsCoverPrefix
<1> QED
  BY <1>3

\* h unfolds the fold, wherever its value so far is in V.
Unfolds(h, n, V, base, step) ==
    /\ h[{}] = base
    /\ \A s \in SUBSET (1..n) : s # {} /\ h[s \ {Max(s)}] \in V
                                  => h[s] = step[<<Max(s), h[s \ {Max(s)}]>>]

\* h unfolds the fold if anything does: it is chosen to.
IsFold(h, n, V, base, step) ==
    \A g \in [SUBSET (1..n) -> V] : Folds(g, n, base, step) => Unfolds(h, n, V, base, step)

\* f[k] is the value after k elements.
RunsFrom(f, n, base, step) ==
    f[0] = base /\ \A k \in 1..n : f[k] = step[<<k, f[k - 1]>>]

HasRun(h, n, V, base, step) ==
    \E f \in [0..n -> V] : RunsFrom(f, n, base, step) /\ h[1..n] = f[n]

\* A fold is a run over the sequence, that never leaves V.
LEMMA FoldRun ==
    ASSUME NEW n \in Nat, NEW V, NEW base \in V, NEW step \in [(1..n) \X V -> V], NEW h,
           IsFold(h, n, V, base, step)
    PROVE  HasRun(h, n, V, base, step)
<1>1. Unfolds(h, n, V, base, step)
  BY FoldTheorem DEF IsFold
<1> DEFINE f == [k \in 0..n |-> h[1..k]]
<1>2. f[0] = base
  <2>1. 1..0 = {}
    OBVIOUS
  <2> QED
    BY <1>1, <2>1 DEF Unfolds
<1>3. ASSUME NEW k \in 1..n, f[k - 1] \in V PROVE f[k] = step[<<k, f[k - 1]>>] /\ f[k] \in V
  <2>1. k - 1 \in 0..n /\ k \in 0..n
    OBVIOUS
  <2>2. f[k] = h[1..k] /\ f[k - 1] = h[1..(k - 1)]
    BY <2>1
  <2> HIDE DEF f
  <2>3. f[k] = step[<<k, f[k - 1]>>]
    <3>1. Max(1..k) = k /\ (1..k) \ {k} = 1..(k - 1) /\ 1..k # {} /\ 1..k \in SUBSET (1..n)
      BY PrefixOfNat
    <3>2. h[(1..k) \ {Max(1..k)}] \in V
      BY <1>3, <2>2, <3>1
    <3>3. h[1..k] = step[<<Max(1..k), h[(1..k) \ {Max(1..k)}]>>]
      BY <1>1, <3>1, <3>2 DEF Unfolds
    <3> QED
      BY <2>2, <3>1, <3>3
  <2> QED
    BY <1>3, <2>3
<1>4. \A k \in 0..n : f[k] \in V
  <2> HIDE DEF f
  <2> QED
    BY <1>2, <1>3, FoldStays
<1>5. \A k \in 1..n : f[k] = step[<<k, f[k - 1]>>]
  <2>1. \A k \in 1..n : k - 1 \in 0..n
    OBVIOUS
  <2> HIDE DEF f
  <2> QED
    BY <1>3, <1>4, <2>1
<1>6. f \in [0..n -> V] /\ h[1..n] = f[n]
  BY <1>4
<1> HIDE DEF f
<1> QED
  BY <1>2, <1>5, <1>6 DEF RunsFrom, HasRun
=============================================================================
