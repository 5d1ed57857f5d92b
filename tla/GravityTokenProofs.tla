------------------------- MODULE GravityTokenProofs -------------------------
(***************************************************************************)
(* What GravityToken guarantees for every set of addresses, contracts and  *)
(* hashes and every bound, proved.                                         *)
(***************************************************************************)
EXTENDS GravityToken, SumTheorems, SequenceTheorems

-----------------------------------------------------------------------------
\* The enumeration index: lists without repetition.

\* Inserting (pool_list_insert) adds exactly the element and no duplicate.
LEMMA InsertLemma ==
    ASSUME NEW S, NEW s \in Seq(S), NEW x \in S, IsInjective(s)
    PROVE  /\ ListInsert(s, x) \in Seq(S)
           /\ ToSet(ListInsert(s, x)) = ToSet(s) \cup {x}
           /\ IsInjective(ListInsert(s, x))
<1> DEFINE t == Append(s, x)
<1>1. /\ t \in Seq(S)
      /\ Len(t) = Len(s) + 1
      /\ \A i \in 1..Len(s) : t[i] = s[i]
      /\ t[Len(s) + 1] = x
  BY AppendProperties
<1>2. Len(s) \in Nat /\ DOMAIN s = 1..Len(s) /\ DOMAIN t = 1..Len(t)
  BY <1>1, LenProperties
<1>3. CASE Contains(s, x)
  BY <1>2, <1>3 DEF ListInsert, Contains, ToSet
<1>4. CASE ~Contains(s, x)
  <2> HIDE DEF t
  <2>1. ListInsert(s, x) = t
    BY <1>4 DEF ListInsert, t
  <2>2. ToSet(t) = ToSet(s) \cup {x}
    BY <1>1, <1>2 DEF ToSet
  <2>3. IsInjective(t)
    <3>1. SUFFICES ASSUME NEW i \in 1..Len(t), NEW j \in 1..Len(t), t[i] = t[j]
                   PROVE  i = j
      BY <1>2 DEF IsInjective
    <3>2. CASE i \in 1..Len(s) /\ j \in 1..Len(s)
      BY <1>1, <1>2, <3>1, <3>2 DEF IsInjective
    <3>3. CASE i = Len(s) + 1 \/ j = Len(s) + 1
      BY <1>1, <1>2, <1>4, <3>1, <3>3 DEF Contains
    <3> QED
      BY <1>1, <1>2, <3>2, <3>3
  <2> QED
    BY <1>1, <2>1, <2>2, <2>3
<1> QED
  BY <1>3, <1>4

\* Removing (pool_list_remove) removes exactly the element.
LEMMA RemoveLemma ==
    ASSUME NEW S, NEW s \in Seq(S), NEW x, IsInjective(s)
    PROVE  /\ ListRemove(s, x) \in Seq(S)
           /\ ToSet(ListRemove(s, x)) = ToSet(s) \ {x}
           /\ IsInjective(ListRemove(s, x))
<1>1. /\ Len(s) \in Nat /\ DOMAIN s = 1..Len(s)
      /\ \A i \in 1..Len(s) : s[i] \in S
  BY LenProperties, ElementOfSeq
<1>2. CASE ~Contains(s, x)
  BY <1>1, <1>2 DEF ListRemove, RemoveFirst, Contains, ToSet
<1>3. CASE Contains(s, x)
  <2>1. PICK k \in 1..Len(s) : s[k] = x
    BY <1>3 DEF Contains
  <2>2. {i \in 1..Len(s) : s[i] = x} = {k}
    BY <1>1, <2>1 DEF IsInjective
  <2>3. Min({k}) = k
    BY <2>1 DEF Min
  <2>4. SelectInSeq(s, LAMBDA v : v = x) = k
    BY <2>2, <2>3 DEF SelectInSeq
  <2> DEFINE f == SubSeq(s, 1, k - 1)
             g == SubSeq(s, k + 1, Len(s))
             t == f \o g
  <2>5. ListRemove(s, x) = t
    BY <2>1, <2>4 DEF ListRemove, RemoveFirst, RemoveAt
  <2>6. /\ f \in Seq(S) /\ Len(f) = k - 1
        /\ \A i \in 1..(k - 1) : f[i] = s[i]
    <3>1. 1 \in Int /\ k - 1 \in Int /\ \A i \in 1..(k - 1) : s[i] \in S
      BY <1>1, <2>1
    <3> QED
      BY <1>1, <2>1, <3>1, SubSeqProperties
  <2>7. /\ g \in Seq(S) /\ Len(g) = Len(s) - k
        /\ \A i \in 1..(Len(s) - k) : g[i] = s[k + i]
    <3>1. /\ k + 1 \in Int /\ Len(s) \in Int
          /\ \A i \in (k + 1)..Len(s) : s[i] \in S
      BY <1>1, <2>1
    <3>2. /\ g \in Seq(S)
          /\ Len(g) = IF k + 1 <= Len(s) THEN Len(s) - (k + 1) + 1 ELSE 0
          /\ \A i \in 1..(Len(s) - (k + 1) + 1) : g[i] = s[k + 1 + i - 1]
      BY <3>1, SubSeqProperties
    <3> HIDE DEF g
    <3>3. Len(g) = Len(s) - k
      <4>0. k \in Int /\ k <= Len(s) /\ Len(s) \in Int
        BY <1>1, <2>1
      <4>1. CASE k < Len(s)
        <5>1. k + 1 <= Len(s) /\ Len(s) - (k + 1) + 1 = Len(s) - k
          BY <1>1, <2>1, <4>1
        <5> QED
          BY <3>2, <5>1
      <4>2. CASE ~(k < Len(s))
        <5>1. ~(k + 1 <= Len(s)) /\ Len(s) - k = 0
          BY <4>0, <4>2
        <5> QED
          BY <3>2, <5>1
      <4> QED
        BY <4>1, <4>2
    <3>4. ASSUME NEW i \in 1..(Len(s) - k)
          PROVE  g[i] = s[k + i]
      <4>1. i \in 1..(Len(s) - (k + 1) + 1) /\ k + 1 + i - 1 = k + i
        BY <1>1, <2>1
      <4> QED
        BY <3>2, <4>1
    <3> QED
      BY <3>2, <3>3, <3>4
  <2> HIDE DEF f, g
  <2>8. /\ t \in Seq(S) /\ Len(t) = Len(s) - 1
        /\ \A i \in 1..(Len(s) - 1) : t[i] = IF i < k THEN s[i] ELSE s[i + 1]
    <3>1. /\ t \in Seq(S) /\ Len(t) = Len(f) + Len(g)
          /\ \A i \in 1..(Len(f) + Len(g)) :
                t[i] = IF i <= Len(f) THEN f[i] ELSE g[i - Len(f)]
      BY <2>6, <2>7, ConcatProperties
    <3>2. Len(t) = Len(s) - 1
      BY <1>1, <2>1, <2>6, <2>7, <3>1
    <3>3. ASSUME NEW i \in 1..(Len(s) - 1)
          PROVE  t[i] = IF i < k THEN s[i] ELSE s[i + 1]
      <4> HIDE DEF t
      <4>1. t[i] = IF i <= k - 1 THEN f[i] ELSE g[i - (k - 1)]
        BY <1>1, <2>1, <2>6, <2>7, <3>1
      <4>2. CASE i < k
        BY <1>1, <2>1, <2>6, <4>1, <4>2
      <4>3. CASE i >= k
        <5>1. i - (k - 1) \in 1..(Len(s) - k)
          BY <1>1, <2>1, <4>3
        <5>2. g[i - (k - 1)] = s[k + (i - (k - 1))]
          BY <2>7, <5>1
        <5> QED
          BY <1>1, <2>1, <4>1, <4>3, <5>2
      <4> QED
        BY <2>1, <4>2, <4>3
    <3> QED
      BY <3>1, <3>2, <3>3
  <2> HIDE DEF t
  <2>9. DOMAIN t = 1..(Len(s) - 1)
    BY <2>8, LenProperties
  <2>10. ToSet(t) = ToSet(s) \ {x}
    <3>1. ASSUME NEW i \in 1..(Len(s) - 1)
          PROVE  t[i] \in ToSet(s) \ {x}
      <4>1. PICK j \in 1..Len(s) : t[i] = s[j] /\ j # k
        BY <1>1, <2>1, <2>8
      <4>2. s[j] # x
        BY <2>2, <4>1
      <4> QED
        BY <1>1, <4>1, <4>2 DEF ToSet
    <3>2. ASSUME NEW i \in 1..Len(s), s[i] # x
          PROVE  s[i] \in ToSet(t)
      <4>1. CASE i < k
        BY <1>1, <2>1, <2>8, <2>9, <4>1 DEF ToSet
      <4>2. CASE i > k
        <5>1. i - 1 \in 1..(Len(s) - 1) /\ t[i - 1] = s[i]
          BY <1>1, <2>1, <2>8, <4>2
        <5> QED
          BY <2>9, <5>1 DEF ToSet
      <4> QED
        BY <2>1, <3>2, <4>1, <4>2
    <3> QED
      BY <1>1, <2>9, <3>1, <3>2 DEF ToSet
  <2>11. IsInjective(t)
    <3>1. SUFFICES ASSUME NEW i \in 1..(Len(s) - 1), NEW j \in 1..(Len(s) - 1),
                          t[i] = t[j]
                   PROVE  i = j
      BY <2>9 DEF IsInjective
    <3>2. \A m, n \in 1..Len(s) : s[m] = s[n] => m = n
      BY <1>1 DEF IsInjective
    <3> QED
      BY <1>1, <2>1, <2>8, <3>1, <3>2
  <2> QED
    BY <2>5, <2>8, <2>10, <2>11
<1> QED
  BY <1>2, <1>3

-----------------------------------------------------------------------------
\* The inductive invariant.

\* renounce_admin keeps the admin key, so initialize never runs again.
RenouncedKeepsAdmin == renounced => admin # None

IInv ==
    /\ TypeOK
    /\ IndexMatchesRegistry
    /\ InfrastructureNeverVaulted
    /\ DriftOnlyOnRegistered
    /\ FinalRegistryIsBound
    /\ RenouncedKeepsAdmin

\* A grant is the pair of its owner and its spender.
LEMMA GrantPair ==
    ASSUME NEW g \in Grant
    PROVE  /\ g[1] \in Address /\ g[2] \in Address
           /\ <<g[1], g[2]>> = g
BY AddressAssumption

\* Syncing a flag yields flags and leaves those of pools and routers alone.
LEMMA SyncLemma ==
    ASSUME NEW flags \in [Address -> BOOLEAN], NEW x \in Address,
           NEW amount, NEW mass
    PROVE  /\ SyncVaultFlag(flags, x, amount, mass) \in [Address -> BOOLEAN]
           /\ \A z \in Address :
                 z # x \/ IsInfrastructure(z) =>
                     SyncVaultFlag(flags, x, amount, mass)[z] = flags[z]
           /\ ~IsInfrastructure(x) =>
                 SyncVaultFlag(flags, x, amount, mass)[x]
                    = (amount > CurrentLimit(mass))
BY DEF SyncVaultFlag

\* Only a registered address drifts.
LEMMA DriftedIsRegistered ==
    ASSUME NEW x \in Address, HasDrifted(x)
    PROVE  IsInfrastructure(x)
BY DEF HasDrifted, DriftedFrom, IsInfrastructure, IsPool, IsRouter

\* The drift records after a call are records and belong to registered
\* addresses.
LEMMA CheckLemma ==
    ASSUME TypeOK, DriftOnlyOnRegistered, NEW S
    PROVE  /\ CheckIntegrity(S) \in [Address -> Hash \cup {None}]
           /\ \A x \in Address :
                 CheckIntegrity(S)[x] # None => IsInfrastructure(x)
BY DriftedIsRegistered DEF CheckIntegrity, TypeOK, DriftOnlyOnRegistered

\* What transfer and transfer_from do to the holdings.
LEMMA MoveLemma ==
    ASSUME IInv, NEW from \in Address, NEW to \in Address, NEW amount \in Int,
           MoveBalance(from, to, amount)
    PROVE  /\ balance' \in [Address -> Nat]
           /\ totalMass' \in Nat
           /\ vaulted' \in [Address -> BOOLEAN]
           /\ drift' \in [Address -> Hash \cup {None}]
           /\ InfrastructureNeverVaulted'
           /\ DriftOnlyOnRegistered'
<1> USE DEF IInv
<1> DEFINE moved == [balance EXCEPT ![from] = @ - amount, ![to] = @ + amount]
           mass  == MassAfterMove(from, to, amount)
           gated == EscapeOnTry(from)
           sent  == SyncVaultFlag(gated, from, moved[from], mass)
<1>1. balance' \in [Address -> Nat]
  <2>1. amount > 0 /\ from # to /\ balance[from] >= amount
    BY DEF MoveBalance, TransferAccepted, HasFunds
  <2>2. balance' = moved
    BY DEF MoveBalance
  <2>3. /\ balance \in [Address -> Nat]
        /\ balance[from] - amount \in Nat
        /\ balance[to] + amount \in Nat
    BY <2>1 DEF TypeOK
  <2> QED
    BY <2>1, <2>2, <2>3
<1>2. totalMass' \in Nat
  BY DEF MoveBalance, TransferAccepted, MassAfterMove, TypeOK
<1>3. /\ vaulted' \in [Address -> BOOLEAN]
      /\ \A z \in Address : IsInfrastructure(z) => vaulted'[z] = vaulted[z]
  <2>1. vaulted \in [Address -> BOOLEAN]
    BY DEF TypeOK
  <2>2. /\ gated \in [Address -> BOOLEAN]
        /\ \A z \in Address : IsInfrastructure(z) => gated[z] = vaulted[z]
    BY <2>1, SyncLemma DEF EscapeOnTry
  <2> HIDE DEF gated, mass
  <2>3. /\ sent \in [Address -> BOOLEAN]
        /\ \A z \in Address : IsInfrastructure(z) => sent[z] = gated[z]
    BY <2>2, SyncLemma
  <2> HIDE DEF sent, moved
  <2>4. /\ SyncVaultFlag(sent, to, moved[to], mass) \in [Address -> BOOLEAN]
        /\ \A z \in Address : IsInfrastructure(z) =>
              SyncVaultFlag(sent, to, moved[to], mass)[z] = sent[z]
    BY <2>3, SyncLemma
  <2>5. vaulted' = SyncVaultFlag(sent, to, moved[to], mass)
    BY DEF MoveBalance, sent, gated, moved, mass
  <2> QED
    BY <2>2, <2>3, <2>4, <2>5
<1>4. UNCHANGED <<approvedPools, approvedRouters>>
  BY DEF MoveBalance, registry
<1>5. InfrastructureNeverVaulted'
  BY <1>3, <1>4
     DEF InfrastructureNeverVaulted, IsInfrastructure, IsPool, IsRouter
<1>6. /\ drift' \in [Address -> Hash \cup {None}]
      /\ \A x \in Address : drift'[x] # None => IsInfrastructure(x)
  BY CheckLemma DEF MoveBalance
<1>7. DriftOnlyOnRegistered'
  BY <1>4, <1>6 DEF DriftOnlyOnRegistered, IsInfrastructure, IsPool, IsRouter
<1> QED
  BY <1>1, <1>2, <1>3, <1>5, <1>6, <1>7

\* What burn and burn_from do to the holdings.
LEMMA BurnLemma ==
    ASSUME IInv, NEW from \in Address, NEW amount \in Int,
           BurnBalance(from, amount)
    PROVE  /\ balance' \in [Address -> Nat]
           /\ totalSupply' \in 0..MaxSupply
           /\ totalMass' \in Nat
           /\ vaulted' \in [Address -> BOOLEAN]
           /\ drift' \in [Address -> Hash \cup {None}]
           /\ InfrastructureNeverVaulted'
           /\ DriftOnlyOnRegistered'
<1> USE DEF IInv
<1>1. /\ balance' \in [Address -> Nat]
      /\ totalMass' \in Nat
  BY DEF BurnBalance, HasFunds, TypeOK
<1>2. totalSupply' \in 0..MaxSupply
  <2>1. /\ totalSupply \in Int /\ totalSupply <= MaxSupply /\ MaxSupply \in Int
        /\ totalSupply >= amount /\ amount > 0
    BY NumberAssumption DEF BurnBalance, TypeOK
  <2>2. totalSupply' = totalSupply - amount
    BY DEF BurnBalance, SupplyAfterBurn
  <2> QED
    BY <2>1, <2>2
<1>3. /\ vaulted' \in [Address -> BOOLEAN]
      /\ \A z \in Address : IsInfrastructure(z) => vaulted'[z] = vaulted[z]
  <2>1. vaulted \in [Address -> BOOLEAN]
    BY DEF TypeOK
  <2>2. vaulted' = SyncVaultFlag(vaulted, from, balance[from], totalMass)
    BY DEF BurnBalance, EscapeOnTry
  <2> QED
    BY <2>1, <2>2, SyncLemma
<1>4. UNCHANGED <<approvedPools, approvedRouters>>
  BY DEF BurnBalance, registry
<1>5. InfrastructureNeverVaulted'
  BY <1>3, <1>4
     DEF InfrastructureNeverVaulted, IsInfrastructure, IsPool, IsRouter
<1>6. /\ drift' \in [Address -> Hash \cup {None}]
      /\ \A x \in Address : drift'[x] # None => IsInfrastructure(x)
  BY CheckLemma DEF BurnBalance
<1>7. DriftOnlyOnRegistered'
  BY <1>4, <1>6 DEF DriftOnlyOnRegistered, IsInfrastructure, IsPool, IsRouter
<1> QED
  BY <1>1, <1>2, <1>3, <1>5, <1>6, <1>7

\* Spending an allowance leaves allowances behind.
LEMMA SpendLemma ==
    ASSUME TypeOK, NEW g \in Grant, NEW amount \in Int, amount > 0,
           SpendAllowance(g[1], g[2], amount)
    PROVE  /\ allowance' \in [Grant -> [amount : Nat, expiry : Nat]]
           /\ \A h \in Grant \ {g} : allowance'[h] = allowance[h]
           /\ sequence <= allowance[g].expiry
           /\ allowance'[g].amount = allowance[g].amount - amount
<1>1. <<g[1], g[2]>> = g
  BY GrantPair
<1>2. /\ allowance[g].amount \in Nat /\ allowance[g].expiry \in Nat
      /\ allowance \in [Grant -> [amount : Nat, expiry : Nat]]
      /\ sequence \in Nat
  BY DEF TypeOK
<1>3. /\ sequence <= allowance[g].expiry
      /\ ReadAllowance(g[1], g[2]) = allowance[g].amount
      /\ allowance[g].amount >= amount
  BY <1>1, <1>2 DEF SpendAllowance, ReadAllowance
<1>4. allowance' = [allowance EXCEPT ![g].amount = allowance[g].amount - amount]
  BY <1>1, <1>3 DEF SpendAllowance
<1> QED
  BY <1>2, <1>3, <1>4
\* The empty token satisfies the inductive invariant.
LEMMA InitIInv == Init => IInv
<1> SUFFICES ASSUME Init PROVE IInv
  OBVIOUS
<1> USE DEF Init
<1>1. TypeOK
  <2>1. <<>> \in Seq(Address)
    BY EmptySeq
  <2>2. 0 \in 0..MaxSupply
    BY NumberAssumption
  <2>3. /\ ZeroHash \in Hash /\ InitialCode \in WasmHash
        /\ allowance \in [Grant -> [amount : Nat, expiry : Nat]]
    BY HashAssumption DEF Hash
  <2> QED
    BY <2>1, <2>2, <2>3 DEF TypeOK
<1>2. IndexMatchesRegistry
  <2>1. ToSet(<<>>) = {} /\ IsInjective(<<>>)
    BY DEF ToSet, IsInjective
  <2> QED
    BY <2>1 DEF IndexMatchesRegistry, IsPool, IsRouter
<1>3. /\ InfrastructureNeverVaulted
      /\ DriftOnlyOnRegistered
      /\ FinalRegistryIsBound
      /\ RenouncedKeepsAdmin
  BY DEF InfrastructureNeverVaulted, DriftOnlyOnRegistered,
         FinalRegistryIsBound, RenouncedKeepsAdmin
<1> QED
  BY <1>1, <1>2, <1>3 DEF IInv

\* No step of a holder or spender breaks the inductive invariant.
LEMMA HolderStepIInv ==
    ASSUME IInv, HolderStep
    PROVE  IInv'
<1> DEFINE Governance == <<registry, lifecycle, live, ledger>>
<1>1. ASSUME UNCHANGED Governance, TypeOK'
      PROVE  /\ IndexMatchesRegistry'
             /\ FinalRegistryIsBound'
             /\ RenouncedKeepsAdmin'
  BY <1>1 DEF IInv, IndexMatchesRegistry, FinalRegistryIsBound,
              RenouncedKeepsAdmin, IsPool, IsRouter, registry, lifecycle
<1>2. ASSUME NEW from \in Address, NEW to \in Address, NEW amount \in Amount,
             Transfer(from, to, amount)
      PROVE  IInv'
  <2>1. amount \in Int /\ MoveBalance(from, to, amount)
    BY <1>2, NumberAssumption DEF Transfer
  <2>2. UNCHANGED Governance /\ UNCHANGED <<totalSupply, allowance>>
    BY <1>2, <2>1 DEF Transfer, MoveBalance
  <2>3. TypeOK'
    BY <2>1, <2>2, MoveLemma
       DEF IInv, TypeOK, registry, lifecycle, ledger
  <2> QED
    BY <1>1, <2>1, <2>2, <2>3, MoveLemma DEF IInv
<1>3. ASSUME NEW g \in Grant, NEW to \in Address, NEW amount \in Amount,
             TransferFrom(g[2], g[1], to, amount)
      PROVE  IInv'
  <2>1. /\ amount \in Int /\ amount > 0 /\ g[1] \in Address
        /\ MoveBalance(g[1], to, amount)
        /\ SpendAllowance(g[1], g[2], amount)
    BY <1>3, NumberAssumption, GrantPair
       DEF TransferFrom, MoveBalance, TransferAccepted
  <2>2. UNCHANGED Governance /\ UNCHANGED totalSupply
    BY <2>1 DEF MoveBalance
  <2>3. allowance' \in [Grant -> [amount : Nat, expiry : Nat]]
    BY <2>1, SpendLemma DEF IInv
  <2>4. TypeOK'
    BY <2>1, <2>2, <2>3, MoveLemma
       DEF IInv, TypeOK, registry, lifecycle, ledger
  <2> QED
    BY <1>1, <2>1, <2>2, <2>4, MoveLemma DEF IInv
<1>4. ASSUME NEW from \in Address, NEW amount \in Amount, Burn(from, amount)
      PROVE  IInv'
  <2>1. amount \in Int /\ BurnBalance(from, amount)
    BY <1>4, NumberAssumption DEF Burn
  <2>2. UNCHANGED Governance /\ UNCHANGED allowance
    BY <1>4, <2>1 DEF Burn, BurnBalance
  <2>3. TypeOK'
    BY <2>1, <2>2, BurnLemma
       DEF IInv, TypeOK, registry, lifecycle, ledger
  <2> QED
    BY <1>1, <2>1, <2>2, <2>3, BurnLemma DEF IInv
<1>5. ASSUME NEW g \in Grant, NEW amount \in Amount,
             BurnFrom(g[2], g[1], amount)
      PROVE  IInv'
  <2>1. /\ amount \in Int /\ amount > 0 /\ g[1] \in Address
        /\ BurnBalance(g[1], amount)
        /\ SpendAllowance(g[1], g[2], amount)
    BY <1>5, NumberAssumption, GrantPair DEF BurnFrom, BurnBalance
  <2>2. UNCHANGED Governance
    BY <2>1 DEF BurnBalance
  <2>3. allowance' \in [Grant -> [amount : Nat, expiry : Nat]]
    BY <2>1, SpendLemma DEF IInv
  <2>4. TypeOK'
    BY <2>1, <2>2, <2>3, BurnLemma
       DEF IInv, TypeOK, registry, lifecycle, ledger
  <2> QED
    BY <1>1, <2>1, <2>2, <2>4, BurnLemma DEF IInv
<1>6. ASSUME NEW g \in Grant, NEW amount \in Amount, NEW e \in Expiration,
             Approve(g[1], g[2], amount, e)
      PROVE  IInv'
  <2>1. /\ UNCHANGED Governance /\ UNCHANGED <<holdings, drift>>
        /\ amount \in Nat /\ e \in Nat
    BY <1>6, NumberAssumption DEF Approve
  <2>2. allowance' \in [Grant -> [amount : Nat, expiry : Nat]]
    BY <1>6, <2>1, GrantPair DEF IInv, TypeOK, Approve
  <2>3. TypeOK'
    BY <2>1, <2>2 DEF IInv, TypeOK, registry, lifecycle, ledger, holdings
  <2>4. InfrastructureNeverVaulted' /\ DriftOnlyOnRegistered'
    BY <2>1 DEF IInv, InfrastructureNeverVaulted, DriftOnlyOnRegistered,
                IsInfrastructure, IsPool, IsRouter, registry, holdings
  <2> QED
    BY <1>1, <2>1, <2>3, <2>4 DEF IInv
<1> QED
  BY <1>2, <1>3, <1>4, <1>5, <1>6 DEF HolderStep
\* No action of the admin breaks the inductive invariant.
LEMMA AdminStepIInv ==
    ASSUME IInv, AdminStep
    PROVE  IInv'
<1> USE DEF IInv
<1>1. ASSUME NEW a \in AdminCandidate, Initialize(a) \/ SetAdmin(a)
      PROVE  IInv'
  <2>1. a \in Address /\ a # None
    BY AddressAssumption
  <2>2. /\ UNCHANGED <<renounced, pendingUpgrade, code, registry, drift, balance,
                       vaulted, allowance, live, ledger>>
        /\ admin' = a
        /\ totalSupply' \in {0, totalSupply} /\ totalMass' \in {0, totalMass}
    BY <1>1 DEF Initialize, SetAdmin, holdings
  <2>3. 0 \in 0..MaxSupply
    BY NumberAssumption
  <2>4. TypeOK'
    BY <2>1, <2>2, <2>3 DEF TypeOK, registry, ledger
  <2> QED
    BY <2>1, <2>2, <2>4
       DEF IndexMatchesRegistry, InfrastructureNeverVaulted,
           DriftOnlyOnRegistered, FinalRegistryIsBound, RenouncedKeepsAdmin,
           IsInfrastructure, IsPool, IsRouter, registry
<1>2. ASSUME NEW to \in Address, NEW amount \in Amount, Mint(to, amount)
      PROVE  IInv'
  <2> DEFINE credited == balance[to] + amount
             mass == IF IsPool(to) THEN totalMass + amount ELSE totalMass
  <2>1. amount \in Int /\ amount > 0
    BY <1>2, NumberAssumption DEF Mint
  <2>2. UNCHANGED <<allowance, registry, lifecycle, live, ledger>>
    BY <1>2 DEF Mint
  <2>3. balance' \in [Address -> Nat] /\ totalMass' \in Nat
    BY <1>2, <2>1 DEF Mint, TypeOK
  <2>4. totalSupply' \in 0..MaxSupply
    BY <1>2, <2>1, NumberAssumption DEF Mint, WithinCap, TypeOK
  <2>5. /\ vaulted' \in [Address -> BOOLEAN]
        /\ \A z \in Address : IsInfrastructure(z) => vaulted'[z] = vaulted[z]
    <3>1. vaulted \in [Address -> BOOLEAN]
      BY DEF TypeOK
    <3>2. vaulted' = SyncVaultFlag(vaulted, to, credited, mass)
      BY <1>2 DEF Mint
    <3> HIDE DEF credited, mass
    <3> QED
      BY <3>1, <3>2, SyncLemma
  <2>6. /\ drift' \in [Address -> Hash \cup {None}]
        /\ \A x \in Address : drift'[x] # None => IsInfrastructure(x)
    BY <1>2, CheckLemma DEF Mint
  <2>7. TypeOK'
    BY <2>2, <2>3, <2>4, <2>5, <2>6 DEF TypeOK, registry, lifecycle, ledger
  <2> QED
    BY <2>2, <2>5, <2>6, <2>7
       DEF IndexMatchesRegistry, InfrastructureNeverVaulted,
           DriftOnlyOnRegistered, FinalRegistryIsBound, RenouncedKeepsAdmin,
           IsInfrastructure, IsPool, IsRouter, registry, lifecycle
<1>3. ASSUME NEW x \in PoolCandidate, RegisterPoolAddress(x)
      PROVE  IInv'
  <2>1. /\ x \in Address /\ live[x] \in Hash /\ live[x] # None
        /\ ~renounced /\ admin # None
    BY <1>3, AddressAssumption, HashAssumption
       DEF TypeOK, Hash, RegisterPoolAddress, AdminActive
  <2>2. UNCHANGED <<approvedRouters, routerList, balance, totalSupply, allowance,
                    lifecycle, live, ledger>>
    BY <1>3 DEF RegisterPoolAddress
  <2>3. /\ approvedPools' = [approvedPools EXCEPT ![x] = live[x]]
        /\ vaulted' = [vaulted EXCEPT ![x] = FALSE]
        /\ drift' = [drift EXCEPT ![x] = None]
        /\ poolList' = ListInsert(poolList, x)
    BY <1>3 DEF RegisterPoolAddress, FlagCleared
  <2>4. totalMass' \in Nat
    BY <1>3, <2>1 DEF RegisterPoolAddress, MassAfterRegistration, TypeOK
  <2>5. /\ poolList' \in Seq(Address)
        /\ ToSet(poolList') = ToSet(poolList) \cup {x}
        /\ IsInjective(poolList')
    <3>1. poolList \in Seq(Address) /\ IsInjective(poolList)
      BY DEF TypeOK, IndexMatchesRegistry
    <3>2. poolList' = ListInsert(poolList, x) /\ x \in Address
      BY <2>1, <2>3
    <3> QED
      BY <3>1, <3>2, InsertLemma
  <2>6. TypeOK'
    BY <2>1, <2>2, <2>3, <2>4, <2>5 DEF TypeOK, lifecycle, ledger
  <2>7. IndexMatchesRegistry'
    BY <2>1, <2>2, <2>3, <2>5
       DEF IndexMatchesRegistry, IsPool, IsRouter, TypeOK
  <2>8. InfrastructureNeverVaulted' /\ DriftOnlyOnRegistered'
    BY <2>1, <2>2, <2>3
       DEF InfrastructureNeverVaulted, DriftOnlyOnRegistered, TypeOK,
           IsInfrastructure, IsPool, IsRouter
  <2> QED
    BY <2>1, <2>2, <2>6, <2>7, <2>8
       DEF FinalRegistryIsBound, RenouncedKeepsAdmin, lifecycle
<1>4. ASSUME NEW x \in PoolCandidate, RemovePoolAddress(x)
      PROVE  IInv'
  <2>1. x \in Address /\ ~renounced /\ admin # None
    BY <1>4, AddressAssumption DEF RemovePoolAddress, AdminActive
  <2>2. UNCHANGED <<approvedRouters, routerList, balance, vaulted, totalSupply,
                    allowance, lifecycle, live, ledger>>
    BY <1>4 DEF RemovePoolAddress
  <2>3. /\ approvedPools' = [approvedPools EXCEPT ![x] = None]
        /\ poolList' = ListRemove(poolList, x)
        /\ drift' = IF IsPool(x) THEN [drift EXCEPT ![x] = None] ELSE drift
    BY <1>4 DEF RemovePoolAddress
  <2>4. totalMass' \in Nat
    BY <1>4, <2>1 DEF RemovePoolAddress, TypeOK
  <2>5. /\ poolList' \in Seq(Address)
        /\ ToSet(poolList') = ToSet(poolList) \ {x}
        /\ IsInjective(poolList')
    <3>1. poolList \in Seq(Address) /\ IsInjective(poolList)
      BY DEF TypeOK, IndexMatchesRegistry
    <3>2. poolList' = ListRemove(poolList, x)
      BY <2>3
    <3> QED
      BY <3>1, <3>2, RemoveLemma
  <2>6. TypeOK'
    BY <2>1, <2>2, <2>3, <2>4, <2>5 DEF TypeOK, lifecycle, ledger
  <2>7. IndexMatchesRegistry'
    BY <2>1, <2>2, <2>3, <2>5
       DEF IndexMatchesRegistry, IsPool, IsRouter, TypeOK
  <2>8. InfrastructureNeverVaulted' /\ DriftOnlyOnRegistered'
    BY <2>1, <2>2, <2>3
       DEF InfrastructureNeverVaulted, DriftOnlyOnRegistered, TypeOK,
           IsInfrastructure, IsPool, IsRouter
  <2> QED
    BY <2>1, <2>2, <2>6, <2>7, <2>8
       DEF FinalRegistryIsBound, RenouncedKeepsAdmin, lifecycle
<1>5. ASSUME NEW x \in RouterCandidate, RegisterRouterAddress(x)
      PROVE  IInv'
  <2>1. /\ x \in Address /\ live[x] \in Hash /\ live[x] # None
        /\ ~renounced /\ admin # None
    BY <1>5, AddressAssumption, HashAssumption
       DEF TypeOK, Hash, RegisterRouterAddress, AdminActive
  <2>2. UNCHANGED <<approvedPools, poolList, balance, totalSupply, totalMass,
                    allowance, lifecycle, live, ledger>>
    BY <1>5 DEF RegisterRouterAddress
  <2>3. /\ approvedRouters' = [approvedRouters EXCEPT ![x] = live[x]]
        /\ vaulted' = [vaulted EXCEPT ![x] = FALSE]
        /\ drift' = [drift EXCEPT ![x] = None]
        /\ routerList' = ListInsert(routerList, x)
    BY <1>5 DEF RegisterRouterAddress, FlagCleared
  <2>4. /\ routerList' \in Seq(Address)
        /\ ToSet(routerList') = ToSet(routerList) \cup {x}
        /\ IsInjective(routerList')
    <3>1. routerList \in Seq(Address) /\ IsInjective(routerList)
      BY DEF TypeOK, IndexMatchesRegistry
    <3>2. routerList' = ListInsert(routerList, x) /\ x \in Address
      BY <2>1, <2>3
    <3> QED
      BY <3>1, <3>2, InsertLemma
  <2>5. TypeOK'
    BY <2>1, <2>2, <2>3, <2>4 DEF TypeOK, lifecycle, ledger
  <2>6. IndexMatchesRegistry'
    BY <2>1, <2>2, <2>3, <2>4
       DEF IndexMatchesRegistry, IsPool, IsRouter, TypeOK
  <2>7. InfrastructureNeverVaulted' /\ DriftOnlyOnRegistered'
    BY <2>1, <2>2, <2>3
       DEF InfrastructureNeverVaulted, DriftOnlyOnRegistered, TypeOK,
           IsInfrastructure, IsPool, IsRouter
  <2> QED
    BY <2>1, <2>2, <2>5, <2>6, <2>7
       DEF FinalRegistryIsBound, RenouncedKeepsAdmin, lifecycle
<1>6. ASSUME NEW x \in RouterCandidate, RemoveRouterAddress(x)
      PROVE  IInv'
  <2>1. x \in Address /\ ~renounced /\ admin # None
    BY <1>6, AddressAssumption DEF RemoveRouterAddress, AdminActive
  <2>2. UNCHANGED <<approvedPools, poolList, holdings, allowance, lifecycle,
                    live, ledger>>
    BY <1>6 DEF RemoveRouterAddress
  <2>3. /\ approvedRouters' = [approvedRouters EXCEPT ![x] = None]
        /\ routerList' = ListRemove(routerList, x)
        /\ drift' = IF IsRouter(x) THEN [drift EXCEPT ![x] = None] ELSE drift
    BY <1>6 DEF RemoveRouterAddress
  <2>4. /\ routerList' \in Seq(Address)
        /\ ToSet(routerList') = ToSet(routerList) \ {x}
        /\ IsInjective(routerList')
    <3>1. routerList \in Seq(Address) /\ IsInjective(routerList)
      BY DEF TypeOK, IndexMatchesRegistry
    <3>2. routerList' = ListRemove(routerList, x)
      BY <2>3
    <3> QED
      BY <3>1, <3>2, RemoveLemma
  <2>5. TypeOK'
    BY <2>1, <2>2, <2>3, <2>4 DEF TypeOK, lifecycle, ledger, holdings
  <2>6. IndexMatchesRegistry'
    BY <2>1, <2>2, <2>3, <2>4
       DEF IndexMatchesRegistry, IsPool, IsRouter, TypeOK
  <2>7. InfrastructureNeverVaulted' /\ DriftOnlyOnRegistered'
    BY <2>1, <2>2, <2>3
       DEF InfrastructureNeverVaulted, DriftOnlyOnRegistered, TypeOK,
           IsInfrastructure, IsPool, IsRouter, holdings
  <2> QED
    BY <2>1, <2>2, <2>5, <2>6, <2>7
       DEF FinalRegistryIsBound, RenouncedKeepsAdmin, lifecycle
<1>7. ASSUME NEW hash \in Proposal, ProposeUpgrade(hash) \/ Upgrade(hash)
      PROVE  IInv'
  <2>1. hash \in WasmHash /\ timestamp + UpgradeDelay \in Nat
    BY HashAssumption, NumberAssumption DEF TypeOK
  <2>2. /\ UNCHANGED <<admin, renounced, registry, drift, holdings, allowance,
                       live, ledger>>
        /\ code' \in WasmHash
        /\ pendingUpgrade' \in {None} \cup [wasm_hash : WasmHash, eta : Nat]
    BY <1>7, <2>1 DEF ProposeUpgrade, UpgradeEta, Upgrade, TypeOK
  <2>3. TypeOK'
    BY <2>2 DEF TypeOK, registry, holdings, ledger
  <2> QED
    BY <2>2, <2>3
       DEF IndexMatchesRegistry, InfrastructureNeverVaulted,
           DriftOnlyOnRegistered, FinalRegistryIsBound, RenouncedKeepsAdmin,
           IsInfrastructure, IsPool, IsRouter, registry, holdings
<1>8. CASE CancelUpgrade
  <2>1. TypeOK'
    BY <1>8 DEF CancelUpgrade, TypeOK, registry, holdings, ledger
  <2> QED
    BY <1>8, <2>1
       DEF CancelUpgrade, IndexMatchesRegistry, InfrastructureNeverVaulted,
           DriftOnlyOnRegistered, FinalRegistryIsBound, RenouncedKeepsAdmin,
           IsInfrastructure, IsPool, IsRouter, registry, holdings
<1>9. CASE RenounceAdmin
  <2>1. /\ UNCHANGED <<admin, code, registry, drift, holdings, allowance, live,
                       ledger>>
        /\ renounced' = TRUE /\ pendingUpgrade' = None /\ admin # None
    BY <1>9 DEF RenounceAdmin, AdminKept, AdminActive
  <2>2. TypeOK'
    BY <2>1 DEF TypeOK, registry, holdings, ledger
  <2>3. FinalRegistryIsBound'
    <3>1. SUFFICES ASSUME NEW x \in Address
                   PROVE  approvedPools[x] # ZeroHash /\ approvedRouters[x] # ZeroHash
      BY <2>1 DEF FinalRegistryIsBound, registry
    <3>2. CASE approvedPools[x] = ZeroHash
      <4>1. x \in ToSet(poolList)
        BY <3>2, HashAssumption DEF IndexMatchesRegistry, IsPool
      <4> QED
        BY <1>9, <3>2, <4>1 DEF ToSet, RenounceAdmin, RegistryFinal
    <3>3. CASE approvedRouters[x] = ZeroHash
      <4>1. x \in ToSet(routerList)
        BY <3>3, HashAssumption DEF IndexMatchesRegistry, IsRouter
      <4> QED
        BY <1>9, <3>3, <4>1 DEF ToSet, RenounceAdmin, RegistryFinal
    <3> QED
      BY <3>2, <3>3
  <2> QED
    BY <2>1, <2>2, <2>3
       DEF IndexMatchesRegistry, InfrastructureNeverVaulted,
           DriftOnlyOnRegistered, RenouncedKeepsAdmin,
           IsInfrastructure, IsPool, IsRouter, registry, holdings
<1> QED
  BY <1>1, <1>2, <1>3, <1>4, <1>5, <1>6, <1>7, <1>8, <1>9 DEF AdminStep

\* Nor does the environment: ledgers and foreign bytecode are in no conjunct.
LEMMA EnvironmentStepIInv ==
    ASSUME IInv, EnvironmentStep
    PROVE  IInv'
<1> USE DEF IInv
<1>1. CASE CloseLedger
  <2>1. sequence' \in Nat /\ timestamp' \in Nat
    BY <1>1, NumberAssumption DEF CloseLedger, TypeOK
  <2>2. TypeOK'
    BY <1>1, <2>1 DEF CloseLedger, TypeOK, lifecycle, registry, holdings
  <2> QED
    BY <1>1, <2>2
       DEF CloseLedger, IndexMatchesRegistry, InfrastructureNeverVaulted,
           DriftOnlyOnRegistered, FinalRegistryIsBound, RenouncedKeepsAdmin,
           IsInfrastructure, IsPool, IsRouter, lifecycle, registry, holdings
<1>2. ASSUME NEW c \in Contract, NEW hash \in Hash, ChangeContract(c, hash)
      PROVE  IInv'
  <2>1. live' \in [Address -> Hash]
    BY <1>2 DEF ChangeContract, TypeOK
  <2>2. TypeOK'
    BY <1>2, <2>1 DEF ChangeContract, TypeOK, lifecycle, registry, holdings, ledger
  <2> QED
    BY <1>2, <2>2
       DEF ChangeContract, IndexMatchesRegistry, InfrastructureNeverVaulted,
           DriftOnlyOnRegistered, FinalRegistryIsBound, RenouncedKeepsAdmin,
           IsInfrastructure, IsPool, IsRouter, lifecycle, registry, holdings
<1> QED
  BY <1>1, <1>2 DEF EnvironmentStep

\* Every step, the stuttering one included, keeps the inductive invariant.
LEMMA StepIInv == IInv /\ [Next]_vars => IInv'
<1> SUFFICES ASSUME IInv, [Next]_vars PROVE IInv'
  OBVIOUS
<1>1. CASE UNCHANGED vars
  BY <1>1 DEF vars, lifecycle, registry, holdings, ledger, IInv, TypeOK,
              IndexMatchesRegistry, InfrastructureNeverVaulted,
              DriftOnlyOnRegistered, FinalRegistryIsBound, RenouncedKeepsAdmin,
              IsInfrastructure, IsPool, IsRouter
<1>2. CASE Next
  BY <1>2, HolderStepIInv, AdminStepIInv, EnvironmentStepIInv DEF Next
<1> QED
  BY <1>1, <1>2

\* The inductive invariant holds in every reachable state.
THEOREM Invariance == Spec => []IInv
BY InitIInv, StepIInv, PTL DEF Spec

\* Balances, accumulators and storage entries keep their types; in particular
\* no balance, and not TotalMass, ever goes negative.
THEOREM TypeCorrect == Spec => []TypeOK
BY Invariance, PTL DEF IInv

\* The enumeration lists and the per-address registry entries never disagree,
\* whatever is registered, re-registered and removed.
THEOREM IndexCorrect == Spec => []IndexMatchesRegistry
BY Invariance, PTL DEF IInv

\* No pool or router ever carries a vault flag.
THEOREM InfrastructureImmunity == Spec => []InfrastructureNeverVaulted
BY Invariance, PTL DEF IInv

\* Only registered addresses carry a drift record.
THEOREM DriftIsRegistered == Spec => []DriftOnlyOnRegistered
BY Invariance, PTL DEF IInv

\* Once the admin has renounced, every registered address is bound to bytecode.
THEOREM FinalityIsBound == Spec => []FinalRegistryIsBound
BY Invariance, PTL DEF IInv

\* The registry's parallel stores never disagree: index, drift records and the
\* bindings that renouncing leaves for good.
THEOREM RegistrySound == Spec => []RegistryIsSound
BY Invariance, PTL DEF IInv, RegistryIsSound
-----------------------------------------------------------------------------
\* What a single step may do.

\* Holders and spenders govern nothing.
LEMMA HolderFrame ==
    ASSUME HolderStep
    PROVE  UNCHANGED <<registry, lifecycle, live, ledger>>
<1>1. ASSUME NEW from, NEW to, NEW amount, MoveBalance(from, to, amount)
      PROVE  UNCHANGED <<registry, lifecycle, live, ledger>>
  BY <1>1 DEF MoveBalance
<1>2. ASSUME NEW from, NEW amount, BurnBalance(from, amount)
      PROVE  UNCHANGED <<registry, lifecycle, live, ledger>>
  BY <1>2 DEF BurnBalance
<1> QED
  BY <1>1, <1>2 DEF HolderStep, Transfer, TransferFrom, Burn, BurnFrom, Approve

\* A step moves HITZ, burns it, mints it, or leaves every balance alone and
\* at most clears drift records; allowances fall only with their owner's
\* balance.
LEMMA StepKinds ==
    ASSUME IInv, [Next]_vars
    PROVE  \/ \E from, to \in Address, amount \in Amount :
                 MoveBalance(from, to, amount)
           \/ \E from \in Address, amount \in Amount : BurnBalance(from, amount)
           \/ \E to \in Address, amount \in Amount : Mint(to, amount)
           \/ /\ UNCHANGED balance
              /\ \A z \in Address : drift'[z] \in {None, drift[z]}
<1> DEFINE Quiet == /\ UNCHANGED balance
                    /\ \A z \in Address : drift'[z] \in {None, drift[z]}
<1>1. CASE UNCHANGED vars
  BY <1>1 DEF vars, holdings
<1>2. CASE HolderStep
  <2>1. ASSUME NEW g \in Grant PROVE g[1] \in Address
    BY GrantPair
  <2> QED
    BY <1>2, <2>1 DEF HolderStep, Transfer, TransferFrom, Burn, BurnFrom,
                      Approve, holdings
<1>3. CASE EnvironmentStep
  BY <1>3 DEF EnvironmentStep, CloseLedger, ChangeContract, holdings
<1>4. CASE AdminStep
  <2>1. ASSUME NEW a, Initialize(a) \/ SetAdmin(a)
        PROVE  Quiet
    BY <2>1 DEF Initialize, SetAdmin, holdings
  <2>2. ASSUME NEW x \in Address,
               \/ RegisterPoolAddress(x)
               \/ RemovePoolAddress(x)
               \/ RegisterRouterAddress(x)
               \/ RemoveRouterAddress(x)
        PROVE  Quiet
    <3>1. UNCHANGED balance /\ drift' \in {drift, [drift EXCEPT ![x] = None]}
      BY <2>2 DEF RegisterPoolAddress, RemovePoolAddress,
                  RegisterRouterAddress, RemoveRouterAddress, holdings
    <3>2. drift \in [Address -> Hash \cup {None}]
      BY DEF IInv, TypeOK
    <3> QED
      BY <3>1, <3>2
  <2>3. ASSUME NEW hash, ProposeUpgrade(hash) \/ Upgrade(hash)
        PROVE  Quiet
    BY <2>3 DEF ProposeUpgrade, Upgrade, holdings
  <2>4. ASSUME CancelUpgrade \/ RenounceAdmin
        PROVE  Quiet
    BY <2>4 DEF CancelUpgrade, RenounceAdmin, holdings
  <2> HIDE DEF Quiet
  <2>5. CASE \E to \in Address, amount \in Amount : Mint(to, amount)
    BY <2>5
  <2>6. CASE ~ \E to \in Address, amount \in Amount : Mint(to, amount)
    <3>1. Quiet
      <4>1. \/ \E a : Initialize(a) \/ SetAdmin(a)
            \/ \E x \in Address :
                  \/ RegisterPoolAddress(x) \/ RemovePoolAddress(x)
                  \/ RegisterRouterAddress(x) \/ RemoveRouterAddress(x)
            \/ \E hash : ProposeUpgrade(hash) \/ Upgrade(hash)
            \/ CancelUpgrade \/ RenounceAdmin
        BY <1>4, <2>6, AddressAssumption DEF AdminStep
      <4> QED
        BY <2>1, <2>2, <2>3, <2>4, <4>1
    <3> QED
      BY <3>1 DEF Quiet
  <2> QED
    BY <2>5, <2>6
<1> QED
  BY <1>1, <1>2, <1>3, <1>4 DEF Next

\* Who gains and loses in a movement.
LEMMA MovedBalances ==
    ASSUME TypeOK, NEW from \in Address, NEW to \in Address, NEW amount \in Int,
           MoveBalance(from, to, amount)
    PROVE  /\ amount > 0 /\ from # to
           /\ balance'[from] = balance[from] - amount
           /\ balance'[to] = balance[to] + amount
           /\ \A z \in Address \ {from, to} : balance'[z] = balance[z]
BY DEF MoveBalance, TransferAccepted, TypeOK

\* What check_integrity writes is the drift there is.
LEMMA CheckRecords ==
    ASSUME TypeOK, NEW S, NEW x \in Address
    PROVE  /\ x \in S /\ HasDrifted(x) => CheckIntegrity(S)[x] = live[x]
           /\ CheckIntegrity(S)[x] # drift[x] =>
                 \E h \in {approvedPools[x], approvedRouters[x]} :
                     h \in WasmHash \ {live[x]}
<1>1. /\ approvedPools[x] \in Hash \cup {None}
      /\ approvedRouters[x] \in Hash \cup {None}
  BY DEF TypeOK
<1>2. ASSUME HasDrifted(x)
      PROVE  \E h \in {approvedPools[x], approvedRouters[x]} :
                 h \in WasmHash \ {live[x]}
  BY <1>1, <1>2 DEF HasDrifted, DriftedFrom, Hash
<1> QED
  BY <1>2 DEF CheckIntegrity

\* Every step records the drift it meets.
LEMMA DriftStep ==
    ASSUME IInv, [Next]_vars, NEW x \in Address
    PROVE  DriftRecorded(x)
<1>0. TypeOK
  BY DEF IInv
<1>1. ASSUME NEW from \in Address, NEW to \in Address, NEW amount \in Amount,
             MoveBalance(from, to, amount)
      PROVE  DriftRecorded(x)
  <2>1. balance'[x] # balance[x] => x \in {from, to}
    BY <1>0, <1>1, MovedBalances, NumberAssumption
  <2>2. drift' = CheckIntegrity({from, to})
    BY <1>1 DEF MoveBalance
  <2> QED
    BY <1>0, <2>1, <2>2, CheckRecords DEF DriftRecorded
<1>2. ASSUME NEW from \in Address, NEW amount \in Amount,
             BurnBalance(from, amount)
      PROVE  DriftRecorded(x)
  <2>1. balance'[x] # balance[x] => x \in {from}
    BY <1>0, <1>2 DEF BurnBalance, TypeOK
  <2>2. drift' = CheckIntegrity({from})
    BY <1>2 DEF BurnBalance
  <2> QED
    BY <1>0, <2>1, <2>2, CheckRecords DEF DriftRecorded
<1>3. ASSUME NEW to \in Address, NEW amount \in Amount, Mint(to, amount)
      PROVE  DriftRecorded(x)
  <2>1. balance'[x] # balance[x] => x \in {to}
    BY <1>0, <1>3 DEF Mint, TypeOK
  <2>2. drift' = CheckIntegrity({to})
    BY <1>3 DEF Mint
  <2> QED
    BY <1>0, <2>1, <2>2, CheckRecords DEF DriftRecorded
<1>4. CASE /\ UNCHANGED balance
           /\ \A z \in Address : drift'[z] \in {None, drift[z]}
  BY <1>4 DEF DriftRecorded
<1> QED
  BY <1>1, <1>2, <1>3, <1>4, StepKinds

\* Fail-soft is never silent: a call that moves HITZ to or from an address
\* running unapproved bytecode records it, and nothing else is recorded.
THEOREM DriftAlwaysRecorded == Spec => DriftIsRecorded
<1>1. IInv /\ [Next]_vars => \A x \in Address : DriftRecorded(x)
  BY DriftStep
<1> QED
  BY <1>1, Invariance, PTL DEF Spec, DriftIsRecorded

\* After renounce_admin no step touches the registry, the admin role, the
\* bytecode or the proposal, and none creates HITZ.
LEMMA RenouncedStep ==
    ASSUME IInv, renounced, [Next]_vars
    PROVE  NothingGoverned
<1>1. totalSupply \in Int /\ Amount \subseteq Int
  BY NumberAssumption DEF IInv, TypeOK
<1>2. CASE UNCHANGED vars
  BY <1>1, <1>2 DEF vars, holdings, NothingGoverned
<1>3. CASE HolderStep
  <2>1. ASSUME NEW from, NEW to, NEW amount, MoveBalance(from, to, amount)
        PROVE  totalSupply' <= totalSupply
    BY <1>1, <2>1 DEF MoveBalance
  <2>2. ASSUME NEW from, NEW amount \in Amount, BurnBalance(from, amount)
        PROVE  totalSupply' <= totalSupply
    BY <1>1, <2>2 DEF BurnBalance, SupplyAfterBurn
  <2>3. \/ \E from, to, amount : MoveBalance(from, to, amount)
        \/ \E from : \E amount \in Amount : BurnBalance(from, amount)
        \/ totalSupply' = totalSupply
    BY <1>3
       DEF HolderStep, Transfer, TransferFrom, Burn, BurnFrom, Approve, holdings
  <2>4. totalSupply' <= totalSupply
    BY <1>1, <2>1, <2>2, <2>3
  <2> QED
    BY <1>3, <2>4, HolderFrame DEF NothingGoverned
<1>4. CASE AdminStep
  <2>1. ~AdminActive /\ admin # None
    BY DEF AdminActive, IInv, RenouncedKeepsAdmin
  <2> QED
    BY <1>4, <2>1
       DEF AdminStep, Initialize, SetAdmin, Mint, RegisterPoolAddress,
           RemovePoolAddress, RegisterRouterAddress, RemoveRouterAddress,
           ProposeUpgrade, Upgrade, CancelUpgrade, RenounceAdmin
<1>5. CASE EnvironmentStep
  BY <1>1, <1>5
     DEF EnvironmentStep, CloseLedger, ChangeContract, holdings, NothingGoverned
<1> QED
  BY <1>2, <1>3, <1>4, <1>5 DEF Next

\* renounce_admin is final.
THEOREM RenounceFinality == Spec => RenouncedIsFinal
<1>1. IInv /\ [Next]_vars => (renounced => NothingGoverned)
  BY RenouncedStep
<1> QED
  BY <1>1, Invariance, PTL DEF Spec, RenouncedIsFinal

\* Every step that lowers an allowance and its owner's balance is a covered
\* spend.
LEMMA SpendStep ==
    ASSUME IInv, [Next]_vars, NEW g \in Grant
    PROVE  SpendIsCovered(g)
<1>0. /\ TypeOK
      /\ allowance[g].amount \in Nat /\ balance[g[1]] \in Nat
      /\ Amount \subseteq Int
  BY GrantPair, NumberAssumption DEF IInv, TypeOK
<1>1. CASE UNCHANGED <<allowance>> \/ UNCHANGED <<balance>>
  BY <1>0, <1>1 DEF SpendIsCovered, AllowanceSpent
<1>2. ASSUME NEW h \in Grant, NEW amount \in Amount, amount > 0,
             EnforceIntegrity(h[2]),
             SpendAllowance(h[1], h[2], amount),
             balance'[h[1]] = balance[h[1]] - amount
      PROVE  SpendIsCovered(g)
  <2>1. CASE h # g
    <3>1. allowance'[g] = allowance[g]
      BY <1>0, <1>2, <2>1, SpendLemma
    <3> QED
      BY <1>0, <3>1 DEF SpendIsCovered, AllowanceSpent
  <2>2. CASE h = g
    <3>1. /\ sequence <= allowance[g].expiry
          /\ allowance'[g].amount = allowance[g].amount - amount
      BY <1>0, <1>2, <2>2, SpendLemma
    <3>2. /\ approvedPools[g[2]] \in {None, ZeroHash, live[g[2]]}
          /\ approvedRouters[g[2]] \in {None, ZeroHash, live[g[2]]}
      BY <1>2, <2>2 DEF EnforceIntegrity, HasDrifted, DriftedFrom
    <3>3. allowance[g].amount - allowance'[g].amount
             = balance[g[1]] - balance'[g[1]]
      BY <1>0, <1>2, <2>2, <3>1
    <3> QED
      BY <3>1, <3>2, <3>3 DEF SpendIsCovered
  <2> QED
    BY <2>1, <2>2
<1>3. ASSUME NEW h \in Grant, NEW to \in Address, NEW amount \in Amount,
             TransferFrom(h[2], h[1], to, amount)
      PROVE  SpendIsCovered(g)
  <2>1. amount > 0 /\ balance'[h[1]] = balance[h[1]] - amount
    BY <1>0, <1>3, GrantPair, MovedBalances DEF TransferFrom
  <2> QED
    BY <1>2, <1>3, <2>1 DEF TransferFrom
<1>4. ASSUME NEW h \in Grant, NEW amount \in Amount,
             BurnFrom(h[2], h[1], amount)
      PROVE  SpendIsCovered(g)
  <2>1. amount > 0 /\ balance'[h[1]] = balance[h[1]] - amount
    BY <1>0, <1>4, GrantPair DEF BurnFrom, BurnBalance, TypeOK
  <2> QED
    BY <1>2, <1>4, <2>1 DEF BurnFrom
<1>5. CASE UNCHANGED vars
  BY <1>1, <1>5 DEF vars
<1>6. CASE HolderStep
  BY <1>1, <1>3, <1>4, <1>6 DEF HolderStep, Transfer, Burn, Approve, holdings
<1>7. CASE AdminStep
  BY <1>1, <1>7
     DEF AdminStep, Initialize, SetAdmin, Mint, RegisterPoolAddress,
         RemovePoolAddress, RegisterRouterAddress, RemoveRouterAddress,
         ProposeUpgrade, Upgrade, CancelUpgrade, RenounceAdmin
<1>8. CASE EnvironmentStep
  BY <1>1, <1>8 DEF EnvironmentStep, CloseLedger, ChangeContract
<1> QED
  BY <1>5, <1>6, <1>7, <1>8 DEF Next

\* No allowance is spent after its expiration, for more or less than leaves
\* the owner, or by a registered spender running unapproved bytecode.
THEOREM SpendsCovered == Spec => SpendsAreCovered
<1>1. IInv /\ [Next]_vars => \A g \in Grant : SpendIsCovered(g)
  BY SpendStep
<1> QED
  BY <1>1, Invariance, PTL DEF Spec, SpendsAreCovered
-----------------------------------------------------------------------------
\* Upgrades implement the timelock.

\* The initial state has no proposal and runs the first bytecode.
LEMMA TimelockInit == Init => Notice!Init
BY DEF Init, Notice!Init

\* Every step proposes, withdraws, installs, lets time pass or stutters.
LEMMA TimelockStep ==
    ASSUME IInv, [Next]_vars
    PROVE  [Notice!Next]_(Notice!vars)
<1> USE DEF IInv
<1>1. ASSUME UNCHANGED <<code, pendingUpgrade, timestamp>>
      PROVE  UNCHANGED Notice!vars
  BY <1>1 DEF Notice!vars
<1>2. CASE UNCHANGED vars
  BY <1>1, <1>2 DEF vars, lifecycle, ledger
<1>3. CASE HolderStep
  BY <1>1, <1>3, HolderFrame DEF lifecycle, ledger
<1>4. ASSUME NEW hash \in Proposal, ProposeUpgrade(hash)
      PROVE  Notice!Propose(hash)
  <2>1. /\ pendingUpgrade' = [wasm_hash |-> hash, eta |-> timestamp + UpgradeDelay]
        /\ UNCHANGED <<code, timestamp>>
    BY <1>4 DEF ProposeUpgrade, UpgradeEta, ledger
  <2>2. /\ hash \in WasmHash /\ timestamp \in Nat /\ UpgradeDelay \in Nat
    BY HashAssumption, NumberAssumption DEF TypeOK
  <2>3. pendingUpgrade' # None
    BY <2>1, <2>2, HashAssumption
  <2>4. pendingUpgrade'.eta - UpgradeDelay = timestamp
    BY <2>1, <2>2
  <2> QED
    BY <2>1, <2>3, <2>4 DEF Notice!Propose
<1>5. ASSUME NEW hash \in Proposal, Upgrade(hash)
      PROVE  Notice!Install
  <2>1. /\ pendingUpgrade # None
        /\ pendingUpgrade \in [wasm_hash : WasmHash, eta : Nat]
        /\ timestamp \in Nat /\ UpgradeDelay \in Nat
    BY <1>5, NumberAssumption DEF Upgrade, TypeOK
  <2>2. /\ pendingUpgrade' = None
        /\ code' = pendingUpgrade.wasm_hash
        /\ timestamp' = timestamp
        /\ timestamp >= pendingUpgrade.eta
    BY <1>5 DEF Upgrade, ledger
  <2>3. timestamp - (pendingUpgrade.eta - UpgradeDelay) >= UpgradeDelay
    BY <2>1, <2>2
  <2>4. [item  |-> pendingUpgrade.wasm_hash,
         since |-> pendingUpgrade.eta - UpgradeDelay] # None
    BY <2>1, HashAssumption
  <2> QED
    BY <2>1, <2>2, <2>3, <2>4 DEF Notice!Install
<1>6. ASSUME CancelUpgrade \/ RenounceAdmin
      PROVE  Notice!Withdraw \/ UNCHANGED Notice!vars
  <2>1. pendingUpgrade' = None /\ UNCHANGED <<code, timestamp>>
    BY <1>6 DEF CancelUpgrade, RenounceAdmin, ledger
  <2>2. CASE pendingUpgrade = None
    BY <1>1, <2>1, <2>2
  <2>3. CASE pendingUpgrade # None
    <3>1. pendingUpgrade \in [wasm_hash : WasmHash, eta : Nat]
      BY <2>3 DEF TypeOK
    <3>2. [item  |-> pendingUpgrade.wasm_hash,
           since |-> pendingUpgrade.eta - UpgradeDelay] # None
      BY <3>1, HashAssumption, NumberAssumption
    <3> QED
      BY <2>1, <2>3, <3>2 DEF Notice!Withdraw
  <2> QED
    BY <2>2, <2>3
<1>7. CASE AdminStep
  <2>1. \/ \E hash \in Proposal : ProposeUpgrade(hash)
        \/ \E hash \in Proposal : Upgrade(hash)
        \/ CancelUpgrade \/ RenounceAdmin
        \/ UNCHANGED <<code, pendingUpgrade, timestamp>>
    BY <1>7
       DEF AdminStep, Initialize, SetAdmin, Mint, RegisterPoolAddress,
           RemovePoolAddress, RegisterRouterAddress, RemoveRouterAddress,
           lifecycle, ledger
  <2> QED
    BY <1>1, <1>4, <1>5, <1>6, <2>1, HashAssumption DEF Notice!Next
<1>8. CASE CloseLedger
  <2>1. timestamp' > timestamp /\ UNCHANGED <<code, pendingUpgrade>>
    BY <1>8, NumberAssumption DEF CloseLedger, TypeOK, lifecycle
  <2> QED
    BY <2>1 DEF Notice!Next, Notice!Tick
<1>9. CASE \E c \in Contract, hash \in Hash : ChangeContract(c, hash)
  BY <1>1, <1>9 DEF ChangeContract, lifecycle, ledger
<1> QED
  BY <1>2, <1>3, <1>7, <1>8, <1>9 DEF Next, EnvironmentStep

\* The token's bytecode only ever becomes a hash that was the one public
\* proposal for UpgradeDelay without interruption.
THEOREM TimelockRefinement == Spec => ImplementsTimelock
<1>1. Init => Notice!Init
  BY TimelockInit
<1>2. IInv /\ [Next]_vars => [Notice!Next]_(Notice!vars)
  BY TimelockStep
<1> QED
  BY <1>1, <1>2, Invariance, PTL DEF Spec, ImplementsTimelock, Notice!Spec

-----------------------------------------------------------------------------
\* The safety limit.

\* Every natural number has an integer square root, so CurrentLimit is one.
LEMMA RootLemma ==
    ASSUME NEW n \in Nat
    PROVE  /\ IntegerSqrt(n) \in Nat
           /\ IntegerSqrt(n) * IntegerSqrt(n) <= n
           /\ n < (IntegerSqrt(n) + 1) * (IntegerSqrt(n) + 1)
<1> DEFINE above == {r \in Nat : n < (r + 1) * (r + 1)}
           less == OpToRel(<, Nat)
<1>1. n \in above
  <2>1. (n + 1) * (n + 1) = n * n + 2 * n + 1 /\ n * n >= 0
    OBVIOUS
  <2> QED
    BY <2>1
<1>2. PICK r \in above : \A q \in above : ~ (<<q, r>> \in less)
  <2>1. above \subseteq Nat /\ above # {}
    BY <1>1
  <2> HIDE DEF above, less
  <2>2. IsWellFoundedOn(less, Nat)
    BY NatLessThanWellFounded DEF less
  <2> QED
    BY <2>1, <2>2, WFMin
<1>3. \A q \in Nat : q < r => q \notin above
  BY <1>2 DEF OpToRel
<1>4. r \in Nat /\ n < (r + 1) * (r + 1)
  BY <1>2
<1>5. r * r <= n
  <2>1. CASE r = 0
    BY <2>1
  <2>2. CASE r # 0
    <3>1. r - 1 \in Nat /\ r - 1 < r
      BY <1>4, <2>2
    <3>2. ~ (n < (r - 1 + 1) * (r - 1 + 1))
      BY <1>3, <3>1
    <3>3. r - 1 + 1 = r
      BY <1>4
    <3> QED
      BY <1>4, <3>2, <3>3
  <2> QED
    BY <2>1, <2>2
<1>6. r \in 0..n
  <2>1. r <= r * r
    BY <1>4
  <2> QED
    BY <1>4, <1>5, <2>1
<1> HIDE DEF above, less
<1>7. \E q \in 0..n : q * q <= n /\ n < (q + 1) * (q + 1)
  BY <1>4, <1>5, <1>6
<1>8. /\ IntegerSqrt(n) \in 0..n
      /\ IntegerSqrt(n) * IntegerSqrt(n) <= n
      /\ n < (IntegerSqrt(n) + 1) * (IntegerSqrt(n) + 1)
  BY <1>7 DEF IntegerSqrt
<1> QED
  BY <1>8
\* The safety limit in terms of squares.
LEMMA LimitLemma ==
    ASSUME NEW mass \in Nat, NEW amount \in Nat
    PROVE  /\ CurrentLimit(mass) \in Nat
           /\ amount > CurrentLimit(mass) <=> amount * amount > mass * Scale
<1>1. Scale \in Nat /\ Scale > 0
  BY NumberAssumption
<1>2. CASE mass = 0
  <2>1. CurrentLimit(mass) = 0 /\ mass * Scale = 0
    BY <1>1, <1>2 DEF CurrentLimit
  <2>2. amount > 0 <=> amount * amount > 0
    OBVIOUS
  <2> QED
    BY <2>1, <2>2
<1>3. CASE mass > 0
  <2> DEFINE n == mass * Scale
             r == IntegerSqrt(n)
  <2>1. n \in Nat
    BY <1>1
  <2> HIDE DEF n
  <2>2. r \in Nat /\ r * r <= n /\ n < (r + 1) * (r + 1)
    BY <2>1, RootLemma
  <2>3. CurrentLimit(mass) = r
    BY <1>3 DEF CurrentLimit, r, n
  <2> HIDE DEF r
  <2>4. ASSUME amount > r PROVE amount * amount > n
    <3>1. amount >= r + 1
      BY <2>2, <2>4
    <3>2. amount * amount >= (r + 1) * (r + 1)
      BY <2>2, <3>1
    <3> QED
      BY <2>1, <2>2, <3>2
  <2>5. ASSUME amount <= r PROVE amount * amount <= n
    <3>1. amount * amount <= r * r
      BY <2>2, <2>5
    <3> QED
      BY <2>1, <2>2, <3>1
  <2>6. amount > CurrentLimit(mass) <=> amount * amount > n
    <3>1. amount > r \/ amount <= r
      BY <2>2
    <3>2. amount * amount \in Nat
      OBVIOUS
    <3> QED
      BY <2>1, <2>2, <2>3, <2>4, <2>5, <3>1, <3>2
  <2> QED
    BY <2>2, <2>3, <2>6 DEF n
<1> QED
  BY <1>2, <1>3

\* An account that the sender gate or burn lets pass is free in the law's
\* sense: infrastructure, or within the limit.
LEMMA GateLemma ==
    ASSUME TypeOK, NEW x \in Address, ~IsInfrastructure(x), ~EscapeOnTry(x)[x]
    PROVE  /\ ~(balance[x] > CurrentLimit(totalMass))
           /\ balance[x] * balance[x] <= totalMass * Scale
<1>1. /\ vaulted \in [Address -> BOOLEAN]
      /\ balance[x] \in Nat /\ totalMass \in Nat
  BY DEF TypeOK
<1>2. ~(balance[x] > CurrentLimit(totalMass))
  BY <1>1, SyncLemma DEF EscapeOnTry
<1>3. ~(balance[x] * balance[x] > totalMass * Scale)
  BY <1>1, <1>2, LimitLemma
<1>4. balance[x] * balance[x] \in Int /\ totalMass * Scale \in Int
  BY <1>1, NumberAssumption
<1> QED
  BY <1>2, <1>3, <1>4

\* Every step that changes a balance leaves the flag that the new balance and
\* the new limit call for.
LEMMA FlagStep ==
    ASSUME IInv, [Next]_vars, NEW x \in Address
    PROVE  FlagFollows(x)
<1>0. TypeOK /\ Amount \subseteq Int /\ vaulted \in [Address -> BOOLEAN]
  BY NumberAssumption DEF IInv, TypeOK
<1>1. ASSUME NEW from \in Address, NEW to \in Address, NEW amount \in Amount,
             MoveBalance(from, to, amount)
      PROVE  FlagFollows(x)
  <2> DEFINE moved == [balance EXCEPT ![from] = @ - amount, ![to] = @ + amount]
             mass  == MassAfterMove(from, to, amount)
             gated == EscapeOnTry(from)
             sent  == SyncVaultFlag(gated, from, moved[from], mass)
  <2>1. SUFFICES ASSUME balance'[x] # balance[x], ~IsInfrastructure(x)'
                 PROVE  vaulted'[x] = (balance'[x] > CurrentLimit(totalMass'))
    BY DEF FlagFollows
  <2>2. x \in {from, to} /\ from # to
    BY <1>0, <1>1, <2>1, MovedBalances
  <2>3. ~IsInfrastructure(x)
    BY <1>1, <2>1 DEF MoveBalance, IsInfrastructure, IsPool, IsRouter, registry
  <2>4. /\ vaulted' = SyncVaultFlag(sent, to, moved[to], mass)
        /\ balance' = moved /\ totalMass' = mass
    BY <1>1 DEF MoveBalance
  <2>5. gated \in [Address -> BOOLEAN]
    BY <1>0, SyncLemma DEF EscapeOnTry
  <2> HIDE DEF moved, mass, gated
  <2>6. /\ sent \in [Address -> BOOLEAN]
        /\ ~IsInfrastructure(from) => sent[from] = (moved[from] > CurrentLimit(mass))
    BY <2>5, SyncLemma
  <2> HIDE DEF sent
  <2>7. /\ to # from => vaulted'[from] = sent[from]
        /\ ~IsInfrastructure(to) => vaulted'[to] = (moved[to] > CurrentLimit(mass))
    BY <2>4, <2>6, SyncLemma
  <2> QED
    BY <2>2, <2>3, <2>4, <2>6, <2>7
<1>2. ASSUME NEW from \in Address, NEW amount \in Amount,
             BurnBalance(from, amount)
      PROVE  FlagFollows(x)
  <2>1. SUFFICES ASSUME balance'[x] # balance[x], ~IsInfrastructure(x)'
                 PROVE  vaulted'[x] = (balance'[x] > CurrentLimit(totalMass'))
    BY DEF FlagFollows
  <2>2. x = from
    BY <1>0, <1>2, <2>1 DEF BurnBalance, TypeOK
  <2>3. ~IsInfrastructure(x)
    BY <1>2, <2>1 DEF BurnBalance, IsInfrastructure, IsPool, IsRouter, registry
  <2>4. /\ amount > 0 /\ amount \in Int
        /\ ~EscapeOnTry(x)[x] /\ vaulted' = EscapeOnTry(x)
        /\ balance'[x] = balance[x] - amount
        /\ totalMass' = totalMass
    BY <1>0, <1>2, <2>2, <2>3 DEF BurnBalance, IsInfrastructure, TypeOK
  <2>5. balance[x] \in Nat /\ CurrentLimit(totalMass) \in Nat
    BY <1>0, LimitLemma DEF TypeOK
  <2>6. ~(balance[x] > CurrentLimit(totalMass))
    BY <1>0, <2>3, <2>4, GateLemma
  <2>7. (balance'[x] > CurrentLimit(totalMass')) = FALSE
    BY <2>4, <2>5, <2>6
  <2>8. vaulted'[x] = FALSE
    BY <1>0, <2>4, SyncLemma DEF EscapeOnTry
  <2> QED
    BY <2>7, <2>8
<1>3. ASSUME NEW to \in Address, NEW amount \in Amount, Mint(to, amount)
      PROVE  FlagFollows(x)
  <2> DEFINE credited == balance[to] + amount
             mass == IF IsPool(to) THEN totalMass + amount ELSE totalMass
  <2>1. SUFFICES ASSUME balance'[x] # balance[x], ~IsInfrastructure(x)'
                 PROVE  vaulted'[x] = (balance'[x] > CurrentLimit(totalMass'))
    BY DEF FlagFollows
  <2>2. x = to
    BY <1>0, <1>3, <2>1 DEF Mint, TypeOK
  <2>3. ~IsInfrastructure(x)
    BY <1>3, <2>1 DEF Mint, IsInfrastructure, IsPool, IsRouter, registry
  <2>4. /\ vaulted' = SyncVaultFlag(vaulted, to, credited, mass)
        /\ balance'[x] = credited /\ totalMass' = mass
    BY <1>0, <1>3, <2>2 DEF Mint, TypeOK
  <2> HIDE DEF credited, mass
  <2>5. vaulted'[to] = (credited > CurrentLimit(mass))
    BY <1>0, <2>2, <2>3, <2>4, SyncLemma
  <2> QED
    BY <2>2, <2>4, <2>5
<1>4. CASE UNCHANGED balance
  BY <1>4 DEF FlagFollows
<1> QED
  BY <1>1, <1>2, <1>3, <1>4, StepKinds

\* The vault flag of every account a call pays or debits is right when the
\* call returns.
THEOREM FlagsCorrect == Spec => FlagsFollowBalances
<1>1. IInv /\ [Next]_vars => \A x \in Address : FlagFollows(x)
  BY FlagStep
<1> QED
  BY <1>1, Invariance, PTL DEF Spec, FlagsFollowBalances

-----------------------------------------------------------------------------
\* The accumulators.

\* One balance changes.
LEMMA SumOneChange ==
    ASSUME NEW b \in [Address -> Int], NEW S \in SUBSET Address,
           NEW a \in Address, NEW c \in [Address -> Int],
           \A x \in Address \ {a} : c[x] = b[x]
    PROVE  /\ SumFunctionOnSet(b, S) \in Int
           /\ SumFunctionOnSet(c, S)
                = SumFunctionOnSet(b, S) + (IF a \in S THEN c[a] - b[a] ELSE 0)
<1>1. IsFiniteSet(S)
  BY AddressAssumption, FS_Subset
<1>2. /\ \A x \in S : b[x] \in Int /\ c[x] \in Int
      /\ \A x \in S \ {a} : c[x] = b[x]
      /\ b[a] \in Int /\ c[a] \in Int
  OBVIOUS
<1>3. SumFunctionOnSet(b, S) \in Int
  BY <1>1, <1>2, SumInt
<1>4. CASE a \in S
  <2>1. SumFunctionOnSet(c, S) = SumFunctionOnSet(b, S) - b[a] + c[a]
    BY <1>1, <1>2, <1>4, SumChange
  <2> QED
    BY <1>2, <1>3, <1>4, <2>1
<1>5. CASE a \notin S
  <2>1. SumFunctionOnSet(c, S) = SumFunctionOnSet(b, S)
    BY <1>1, <1>2, <1>5, SumSame
  <2> QED
    BY <1>3, <1>5, <2>1
<1> QED
  BY <1>3, <1>4, <1>5

\* HITZ moves from one balance to another.
LEMMA SumMove ==
    ASSUME NEW b \in [Address -> Int], NEW S \in SUBSET Address,
           NEW from \in Address, NEW to \in Address, from # to, NEW amount \in Int,
           NEW c \in [Address -> Int], c[from] = b[from] - amount, c[to] = b[to] + amount,
           \A x \in Address \ {from, to} : c[x] = b[x]
    PROVE  SumFunctionOnSet(c, S)
             = SumFunctionOnSet(b, S) - (IF from \in S THEN amount ELSE 0)
                                      + (IF to \in S THEN amount ELSE 0)
<1> DEFINE m == [b EXCEPT ![from] = b[from] - amount]
<1>1. /\ m \in [Address -> Int]
      /\ m[from] = b[from] - amount /\ m[to] = b[to] /\ c[to] = b[to] + amount
      /\ b[from] \in Int /\ b[to] \in Int
  OBVIOUS
<1>2. /\ \A x \in Address \ {from} : m[x] = b[x]
      /\ \A x \in Address \ {to} : c[x] = m[x]
  OBVIOUS
<1> HIDE DEF m
<1>3. /\ SumFunctionOnSet(b, S) \in Int
      /\ SumFunctionOnSet(m, S) = SumFunctionOnSet(b, S) + (IF from \in S THEN m[from] - b[from] ELSE 0)
  BY <1>1, <1>2, SumOneChange
<1>4. SumFunctionOnSet(c, S) = SumFunctionOnSet(m, S) + (IF to \in S THEN c[to] - m[to] ELSE 0)
  BY <1>1, <1>2, SumOneChange
<1>5. m[from] - b[from] = 0 - amount /\ c[to] - m[to] = amount
  BY <1>1
<1> QED
  BY <1>3, <1>4, <1>5

\* Before initialize nobody holds anything and nothing is registered, so the
\* zeros it writes are the sums.
EmptyBeforeInitialize ==
    admin = None => \A x \in Address : balance[x] = 0 /\ ~IsPool(x)

SumInv == AccumulatorsAreSums /\ EmptyBeforeInitialize

Pools == {x \in Address : IsPool(x)}

LEMMA SumFacts ==
    ASSUME TypeOK
    PROVE  /\ Pools \in SUBSET Address /\ IsFiniteSet(Pools) /\ IsFiniteSet(Address)
           /\ balance \in [Address -> Int] /\ \A x \in Address : balance[x] \in Nat
           /\ totalSupply \in Int /\ totalMass \in Int
           /\ AccumulatorsAreSums <=> /\ totalSupply = SumFunctionOnSet(balance, Address)
                                      /\ totalMass = SumFunctionOnSet(balance, Pools)
<1>1. Pools \in SUBSET Address /\ IsFiniteSet(Address)
  BY AddressAssumption DEF Pools
<1>2. IsFiniteSet(Pools)
  BY <1>1, FS_Subset
<1>3. /\ balance \in [Address -> Int] /\ \A x \in Address : balance[x] \in Nat
      /\ totalSupply \in Int /\ totalMass \in Int
  BY NumberAssumption DEF TypeOK
<1> QED
  BY <1>1, <1>2, <1>3
     DEF AccumulatorsAreSums, SupplyIsSumOfBalances, MassIsSumOfPoolBalances, Pools

LEMMA InitSums == Init => SumInv
<1> SUFFICES ASSUME Init PROVE SumInv
  OBVIOUS
<1>1. TypeOK
  BY InitIInv DEF IInv
<1>2. \A x \in Address : balance[x] = 0 /\ ~IsPool(x)
  BY DEF Init, IsPool
<1>3. Pools = {}
  BY <1>2 DEF Pools
<1>4. SumFunctionOnSet(balance, Pools) = 0
  BY <1>3, SumEmpty
<1>5. SumFunctionOnSet(balance, Address) = 0 * SumFunctionOnSet(balance, Address)
  <2>1. \A x \in Address : balance[x] \in Int /\ balance[x] = 0 * balance[x]
    BY <1>2
  <2> QED
    BY <1>1, <2>1, SumFacts, SumScale
<1>6. SumFunctionOnSet(balance, Address) \in Int
  BY <1>1, SumFacts, SumInt
<1>7. AccumulatorsAreSums
  BY <1>1, <1>4, <1>5, <1>6, SumFacts DEF Init
<1> QED
  BY <1>2, <1>7 DEF SumInv, EmptyBeforeInitialize

LEMMA MoveSums ==
    ASSUME IInv, SumInv, IInv', NEW from \in Address, NEW to \in Address, NEW amount \in Int,
           MoveBalance(from, to, amount)
    PROVE  SumInv'
<1>1. /\ amount > 0 /\ from # to /\ balance[from] >= amount
      /\ balance' = [balance EXCEPT ![from] = @ - amount, ![to] = @ + amount]
      /\ totalMass' = MassAfterMove(from, to, amount)
      /\ UNCHANGED <<totalSupply, approvedPools, admin>>
  BY DEF MoveBalance, TransferAccepted, HasFunds, registry, lifecycle
<1>2. TypeOK /\ TypeOK'
  BY DEF IInv
<1>3. Pools' = Pools /\ \A x \in Address : x \in Pools <=> IsPool(x)
  BY <1>1 DEF Pools, IsPool
<1>4. /\ totalSupply = SumFunctionOnSet(balance, Address)
      /\ totalMass = SumFunctionOnSet(balance, Pools)
      /\ totalSupply \in Int /\ totalMass \in Int
      /\ Pools \in SUBSET Address /\ balance \in [Address -> Int]
      /\ \A x \in Address : balance[x] \in Nat
  BY <1>2, SumFacts DEF SumInv
<1>5. ASSUME NEW S \in SUBSET Address
      PROVE  SumFunctionOnSet(balance', S)
               = SumFunctionOnSet(balance, S) - (IF from \in S THEN amount ELSE 0)
                                              + (IF to \in S THEN amount ELSE 0)
  <2>1. /\ balance' \in [Address -> Int]
        /\ balance'[from] = balance[from] - amount /\ balance'[to] = balance[to] + amount
        /\ \A x \in Address \ {from, to} : balance'[x] = balance[x]
    BY <1>1, <1>4
  <2>2. from # to /\ balance \in [Address -> Int]
    BY <1>1, <1>4
  <2> QED
    BY <2>1, <2>2, SumMove
<1>6. totalSupply' = SumFunctionOnSet(balance', Address)
  <2>1. SumFunctionOnSet(balance', Address) = SumFunctionOnSet(balance, Address) - amount + amount
    BY <1>5
  <2> QED
    BY <1>1, <1>4, <2>1
<1>7. totalMass' = SumFunctionOnSet(balance', Pools')
  <2>1. SumFunctionOnSet(balance', Pools)
               = totalMass - (IF from \in Pools THEN amount ELSE 0)
                           + (IF to \in Pools THEN amount ELSE 0)
    BY <1>4, <1>5
  <2> QED
    BY <1>1, <1>3, <1>4, <2>1 DEF MassAfterMove
<1>8. admin # None
  BY <1>1, <1>4 DEF SumInv, EmptyBeforeInitialize
<1>9. AccumulatorsAreSums'
  BY <1>6, <1>7
     DEF AccumulatorsAreSums, SupplyIsSumOfBalances, MassIsSumOfPoolBalances, Pools
<1> QED
  BY <1>1, <1>8, <1>9 DEF SumInv, EmptyBeforeInitialize

\* mint and burn: one balance, the supply and, for a pool, the mass change
\* together.
OneBalance(x, amount) ==
    /\ admin # None
    /\ balance' = [balance EXCEPT ![x] = @ + amount]
    /\ totalSupply' = totalSupply + amount
    /\ totalMass' = IF IsPool(x) THEN totalMass + amount ELSE totalMass
    /\ UNCHANGED <<approvedPools, admin>>

LEMMA OneBalanceSums ==
    ASSUME IInv, SumInv, IInv', NEW x \in Address, NEW amount \in Int, OneBalance(x, amount)
    PROVE  SumInv'
<1>1. TypeOK /\ TypeOK' /\ Pools' = Pools /\ (x \in Pools <=> IsPool(x))
  BY DEF IInv, Pools, IsPool, OneBalance
<1>2. /\ totalSupply = SumFunctionOnSet(balance, Address)
      /\ totalMass = SumFunctionOnSet(balance, Pools)
      /\ totalSupply \in Int /\ totalMass \in Int
      /\ Pools \in SUBSET Address /\ balance \in [Address -> Int] /\ balance[x] \in Int
  BY <1>1, SumFacts DEF SumInv
<1>3. ASSUME NEW S \in SUBSET Address
      PROVE  SumFunctionOnSet(balance', S)
               = SumFunctionOnSet(balance, S) + (IF x \in S THEN amount ELSE 0)
  <2>1. /\ balance' \in [Address -> Int] /\ balance'[x] - balance[x] = amount
        /\ \A a \in Address \ {x} : balance'[a] = balance[a]
    BY <1>2 DEF OneBalance
  <2>2. SumFunctionOnSet(balance', S)
          = SumFunctionOnSet(balance, S) + (IF x \in S THEN balance'[x] - balance[x] ELSE 0)
    BY <1>2, <2>1, SumOneChange
  <2> QED
    BY <2>1, <2>2
<1>4. totalSupply' = SumFunctionOnSet(balance', Address)
  BY <1>2, <1>3 DEF OneBalance
<1>5. SumFunctionOnSet(balance', Pools) = totalMass + (IF x \in Pools THEN amount ELSE 0)
  BY <1>2, <1>3
<1>6. totalMass' = SumFunctionOnSet(balance', Pools')
  BY <1>1, <1>2, <1>5 DEF OneBalance
<1>7. AccumulatorsAreSums'
  BY <1>4, <1>6
     DEF AccumulatorsAreSums, SupplyIsSumOfBalances, MassIsSumOfPoolBalances, Pools
<1> QED
  BY <1>7 DEF SumInv, EmptyBeforeInitialize, OneBalance

\* A registry call keeps TotalMass the sum over the pools that are left.
LEMMA RegisterSums ==
    ASSUME IInv, SumInv, IInv', NEW x \in PoolCandidate, RegisterPoolAddress(x)
    PROVE  SumInv'
<1>1. /\ x \in Address /\ admin # None /\ totalMass' = MassAfterRegistration(x)
      /\ approvedPools' = [approvedPools EXCEPT ![x] = live[x]]
      /\ UNCHANGED <<balance, totalSupply, admin>>
  BY AddressAssumption DEF RegisterPoolAddress, AdminActive, lifecycle
<1>2. TypeOK /\ TypeOK'
  BY DEF IInv
<1>3. Pools' = Pools \cup {x} /\ (x \in Pools <=> IsPool(x))
  <2>1. live[x] # None
    BY <1>1, <1>2, HashAssumption DEF TypeOK, Hash
  <2>2. approvedPools \in [Address -> Hash \cup {None}]
    BY <1>2 DEF TypeOK
  <2> QED
    BY <1>1, <2>1, <2>2 DEF Pools, IsPool
<1>4. /\ totalSupply = SumFunctionOnSet(balance, Address)
      /\ totalMass = SumFunctionOnSet(balance, Pools)
      /\ totalMass \in Int /\ IsFiniteSet(Pools) /\ Pools \in SUBSET Address
      /\ \A a \in Address : balance[a] \in Nat
  BY <1>2, SumFacts DEF SumInv
<1>5. totalMass' = SumFunctionOnSet(balance', Pools')
  <2>1. CASE IsPool(x)
    <3>1. Pools' = Pools
      BY <1>3, <2>1
    <3> QED
      BY <1>1, <1>4, <2>1, <3>1 DEF MassAfterRegistration
  <2>2. CASE ~IsPool(x)
    <3>1. SumFunctionOnSet(balance, Pools \cup {x}) = balance[x] + SumFunctionOnSet(balance, Pools)
      <4>1. x \notin Pools /\ \A a \in Pools \cup {x} : balance[a] \in Int
        BY <1>1, <1>3, <1>4, <2>2
      <4> QED
        BY <1>4, <4>1, SumAdd
    <3>2. balance[x] \in Nat
      BY <1>1, <1>4
    <3> QED
      BY <1>1, <1>3, <1>4, <2>2, <3>1, <3>2 DEF MassAfterRegistration
  <2> QED
    BY <2>1, <2>2
<1>6. AccumulatorsAreSums'
  BY <1>1, <1>4, <1>5
     DEF AccumulatorsAreSums, SupplyIsSumOfBalances, MassIsSumOfPoolBalances, Pools
<1> QED
  BY <1>1, <1>6 DEF SumInv, EmptyBeforeInitialize

LEMMA RemoveSums ==
    ASSUME IInv, SumInv, IInv', NEW x \in PoolCandidate, RemovePoolAddress(x)
    PROVE  SumInv'
<1>1. /\ x \in Address /\ admin # None
      /\ totalMass' = IF IsPool(x) THEN totalMass - balance[x] ELSE totalMass
      /\ approvedPools' = [approvedPools EXCEPT ![x] = None]
      /\ UNCHANGED <<balance, totalSupply, admin>>
  BY AddressAssumption DEF RemovePoolAddress, AdminActive, lifecycle
<1>2. TypeOK /\ TypeOK'
  BY DEF IInv
<1>3. Pools' = Pools \ {x} /\ (x \in Pools <=> IsPool(x))
  <2>1. approvedPools \in [Address -> Hash \cup {None}]
    BY <1>2 DEF TypeOK
  <2> QED
    BY <1>1, <2>1 DEF Pools, IsPool
<1>4. /\ totalSupply = SumFunctionOnSet(balance, Address)
      /\ totalMass = SumFunctionOnSet(balance, Pools)
      /\ totalMass \in Int /\ IsFiniteSet(Pools) /\ Pools \in SUBSET Address
      /\ \A a \in Address : balance[a] \in Nat
  BY <1>2, SumFacts DEF SumInv
<1>5. totalMass' = SumFunctionOnSet(balance', Pools')
  <2>1. CASE IsPool(x)
    <3>1. SumFunctionOnSet(balance, Pools) = balance[x] + SumFunctionOnSet(balance, Pools \ {x})
      BY <1>3, <1>4, <2>1, SumRemove
    <3>2. SumFunctionOnSet(balance, Pools \ {x}) \in Int
      <4>1. IsFiniteSet(Pools \ {x})
        BY <1>4, FS_Subset
      <4> QED
        BY <1>4, <4>1, SumInt
    <3>3. balance[x] \in Nat
      BY <1>1, <1>4
    <3> QED
      BY <1>1, <1>3, <1>4, <2>1, <3>1, <3>2, <3>3
  <2>2. CASE ~IsPool(x)
    <3>1. Pools' = Pools
      BY <1>3, <2>2
    <3> QED
      BY <1>1, <1>4, <2>2, <3>1
  <2> QED
    BY <2>1, <2>2
<1>6. AccumulatorsAreSums'
  BY <1>1, <1>4, <1>5
     DEF AccumulatorsAreSums, SupplyIsSumOfBalances, MassIsSumOfPoolBalances, Pools
<1> QED
  BY <1>1, <1>6 DEF SumInv, EmptyBeforeInitialize

LEMMA StepSums == IInv /\ SumInv /\ [Next]_vars => SumInv'
<1> SUFFICES ASSUME IInv, SumInv, [Next]_vars PROVE SumInv'
  OBVIOUS
<1>0. IInv' /\ TypeOK /\ TypeOK' /\ Amount \subseteq Int
  BY StepIInv, NumberAssumption DEF IInv
<1>1. ASSUME UNCHANGED <<balance, totalSupply, totalMass, approvedPools>>,
             admin' = None => admin = None
      PROVE  SumInv'
  <2>1. Pools' = Pools
    BY <1>1 DEF Pools, IsPool
  <2>2. AccumulatorsAreSums'
    BY <1>1, <2>1
       DEF SumInv, AccumulatorsAreSums, SupplyIsSumOfBalances, MassIsSumOfPoolBalances, Pools
  <2> QED
    BY <1>1, <2>2 DEF SumInv, EmptyBeforeInitialize, IsPool
<1>2. ASSUME NEW from \in Address, NEW amount \in Amount, BurnBalance(from, amount) PROVE SumInv'
  <2> DEFINE n == 0 - amount
  <2>1. /\ amount > 0 /\ balance[from] >= amount /\ amount \in Int
        /\ balance' = [balance EXCEPT ![from] = @ - amount]
        /\ totalSupply' = totalSupply - amount
        /\ totalMass' = IF IsPool(from) THEN totalMass - amount ELSE totalMass
        /\ UNCHANGED <<approvedPools, admin>>
    BY <1>0, <1>2 DEF BurnBalance, HasFunds, SupplyAfterBurn, registry, lifecycle
  <2>2. admin # None
    BY <2>1 DEF SumInv, EmptyBeforeInitialize
  <2>3. totalSupply \in Int /\ totalMass \in Int /\ balance \in [Address -> Nat] /\ balance[from] \in Nat
    BY <1>0 DEF TypeOK
  <2>4. /\ n \in Int /\ balance' = [balance EXCEPT ![from] = @ + n]
        /\ totalSupply' = totalSupply + n
        /\ totalMass' = IF IsPool(from) THEN totalMass + n ELSE totalMass
    <3> HIDE DEF n
    <3>1. n \in Int /\ balance[from] - amount = balance[from] + n /\ totalSupply - amount = totalSupply + n
          /\ totalMass - amount = totalMass + n
      BY <2>1, <2>3 DEF n
    <3> QED
      BY <2>1, <3>1
  <2> HIDE DEF n
  <2> QED
    <3>1. OneBalance(from, n) /\ n \in Int
      BY <2>1, <2>2, <2>4 DEF OneBalance
    <3> QED
      BY <1>0, <3>1, OneBalanceSums
<1>3. ASSUME NEW to \in Address, NEW amount \in Amount, Mint(to, amount) PROVE SumInv'
  <2>1. /\ amount \in Int /\ admin # None
        /\ balance' = [balance EXCEPT ![to] = @ + amount]
        /\ totalSupply' = totalSupply + amount
        /\ totalMass' = IF IsPool(to) THEN totalMass + amount ELSE totalMass
        /\ UNCHANGED <<approvedPools, admin>>
    BY <1>0, <1>3 DEF Mint, AdminActive, registry, lifecycle
  <2> QED
    BY <1>0, <2>1, OneBalanceSums DEF OneBalance
<1>4. CASE HolderStep
  <2>1. ASSUME NEW from \in Address, NEW to \in Address, NEW amount \in Amount,
               MoveBalance(from, to, amount)
        PROVE  SumInv'
    BY <1>0, <2>1, MoveSums
  <2>2. ASSUME NEW g \in Grant, NEW amount \in Amount, NEW e \in Expiration,
               Approve(g[1], g[2], amount, e)
        PROVE  SumInv'
    BY <1>1, <2>2 DEF Approve, holdings, registry, lifecycle
  <2> QED
    BY <1>2, <1>4, <2>1, <2>2, GrantPair DEF HolderStep, Transfer, Burn, TransferFrom, BurnFrom
<1>5. ASSUME NEW a \in AdminCandidate, Initialize(a) PROVE SumInv'
  <2>1. /\ admin = None /\ a \in Address /\ a # None /\ admin' = a
        /\ totalMass' = 0 /\ totalSupply' = 0 /\ UNCHANGED <<balance, approvedPools>>
    BY <1>5, AddressAssumption DEF Initialize, registry
  <2>2. \A x \in Address : balance[x] = 0 /\ ~IsPool(x)
    BY <2>1 DEF SumInv, EmptyBeforeInitialize
  <2>3. Pools = {} /\ Pools' = {}
    BY <2>1, <2>2 DEF Pools, IsPool
  <2>4. SumFunctionOnSet(balance, Address) = 0 * SumFunctionOnSet(balance, Address)
    <3>1. \A x \in Address : balance[x] \in Int /\ balance[x] = 0 * balance[x]
      BY <2>2
    <3> QED
      BY <1>0, <3>1, SumFacts, SumScale
  <2>5. SumFunctionOnSet(balance, Address) \in Int
    BY <1>0, SumFacts, SumInt
  <2>6. totalSupply' = SumFunctionOnSet(balance', Address) /\ totalMass' = SumFunctionOnSet(balance', Pools')
    BY <2>1, <2>3, <2>4, <2>5, SumEmpty
  <2>7. AccumulatorsAreSums'
    BY <2>6
       DEF AccumulatorsAreSums, SupplyIsSumOfBalances, MassIsSumOfPoolBalances, Pools
  <2> QED
    BY <2>1, <2>7 DEF SumInv, EmptyBeforeInitialize
<1>6. CASE AdminStep
  <2>1. ASSUME NEW x \in PoolCandidate, RegisterPoolAddress(x) \/ RemovePoolAddress(x) PROVE SumInv'
    BY <1>0, <2>1, RegisterSums, RemoveSums
  <2>2. ASSUME NEW a \in AdminCandidate, SetAdmin(a) PROVE SumInv'
    <3>1. UNCHANGED <<balance, totalSupply, totalMass, approvedPools>> /\ admin' # None
      BY <2>2, AddressAssumption DEF SetAdmin, AdminActive, holdings, registry
    <3> QED
      BY <1>1, <3>1
  <2>3. ASSUME NEW x \in RouterCandidate, RegisterRouterAddress(x) \/ RemoveRouterAddress(x)
        PROVE  SumInv'
    BY <1>1, <2>3 DEF RegisterRouterAddress, RemoveRouterAddress, holdings, lifecycle
  <2>4. ASSUME NEW h \in Proposal, ProposeUpgrade(h) \/ Upgrade(h) PROVE SumInv'
    BY <1>1, <2>4 DEF ProposeUpgrade, Upgrade, holdings, registry
  <2>5. ASSUME CancelUpgrade \/ RenounceAdmin PROVE SumInv'
    BY <1>1, <2>5 DEF CancelUpgrade, RenounceAdmin, AdminKept, holdings, registry
  <2> QED
    BY <1>3, <1>5, <1>6, <2>1, <2>2, <2>3, <2>4, <2>5 DEF AdminStep
<1>7. CASE EnvironmentStep
  BY <1>1, <1>7 DEF EnvironmentStep, CloseLedger, ChangeContract, holdings, registry, lifecycle
<1>8. CASE UNCHANGED vars
  BY <1>1, <1>8 DEF vars, holdings, registry, lifecycle
<1> QED
  BY <1>4, <1>6, <1>7, <1>8 DEF Next

\* total_supply() is the sum of all balances and the O(1) accumulator behind
\* the safety limit is exactly what the registered pools hold, whatever was
\* minted, burned, moved, registered, re-registered and removed before.
THEOREM AccumulatorsCorrect == Spec => []AccumulatorsAreSums
<1>1. SumInv => AccumulatorsAreSums
  BY DEF SumInv
<1> QED
  BY <1>1, InitSums, StepSums, Invariance, PTL DEF Spec

\* Escape on try and the sacrifice exit: an account within the limit, and
\* infrastructure, can send all it holds to anyone, and everybody can send it
\* to any pool; since TotalMass is the sum over the pools it never underflows.
THEOREM ExitAlwaysOpen == Spec => []ExitOpen
<1>1. IInv /\ AccumulatorsAreSums => ExitOpen
  <2> SUFFICES ASSUME IInv, AccumulatorsAreSums, NEW x \in Address, NEW y \in Address,
                      NEW n \in 1..balance[x], x # y,
                      \/ IsInfrastructure(x)
                      \/ balance[x] <= CurrentLimit(totalMass)
                      \/ IsPool(y)
               PROVE  TransferAccepted(x, y, n)
    BY DEF ExitOpen
  <2>1. TypeOK /\ balance[x] \in Nat /\ totalMass \in Nat /\ vaulted \in [Address -> BOOLEAN]
    BY DEF IInv, TypeOK
  <2>2. n > 0 /\ HasFunds(x, n) /\ n <= balance[x] /\ n \in Nat
    BY <2>1 DEF HasFunds
  <2>3. IsPool(x) => totalMass >= n
    <3> SUFFICES ASSUME IsPool(x) PROVE totalMass >= n
      OBVIOUS
    <3>1. x \in Pools /\ IsFiniteSet(Pools) /\ \A a \in Pools : balance[a] \in Nat
      BY <2>1, SumFacts DEF Pools
    <3>2. balance[x] <= SumFunctionOnSet(balance, Pools)
      BY <3>1, SumNat
    <3>3. totalMass = SumFunctionOnSet(balance, Pools)
      BY <2>1, SumFacts
    <3> QED
      BY <2>1, <2>2, <3>2, <3>3
  <2>4. SenderGateOpen(x, y)
    <3>1. CASE IsInfrastructure(x) \/ IsPool(y)
      BY <3>1 DEF SenderGateOpen
    <3>2. CASE ~IsInfrastructure(x) /\ balance[x] <= CurrentLimit(totalMass)
      <4>1. CurrentLimit(totalMass) \in Nat
        BY <2>1, LimitLemma
      <4>2. (balance[x] > CurrentLimit(totalMass)) = FALSE
        BY <2>1, <3>2, <4>1
      <4>3. ~EscapeOnTry(x)[x]
        BY <2>1, <3>2, <4>2, SyncLemma DEF EscapeOnTry
      <4> QED
        BY <4>3 DEF SenderGateOpen
    <3> QED
      BY <3>1, <3>2
  <2> QED
    BY <2>2, <2>3, <2>4 DEF TransferAccepted
<1> QED
  BY <1>1, AccumulatorsCorrect, Invariance, PTL

-----------------------------------------------------------------------------
\* The gravity law.

\* The law sums as the token does.
LEMMA LawHeld == ASSUME NEW S PROVE Law!Held(S) = SumFunctionOnSet(balance, S)
BY DEF Law!Held, SumFunctionOnSet, Law!SumFunctionOnSet, FoldFunctionOnSet, Law!FoldFunctionOnSet,
       MapThenFoldSet, Law!MapThenFoldSet

\* Every step of the token is a step of the law.
LEMMA LawStep ==
    ASSUME IInv, SupplyIsSumOfBalances, MassIsSumOfPoolBalances, [Next]_vars,
           TypeOK'
    PROVE  [Law!Next]_(Law!vars)
<1> DEFINE pools   == {x \in Address : IsPool(x)}
           routers == {x \in Address : IsRouter(x)}
<1>0. TypeOK /\ Amount \subseteq Int /\ MaxSupply \in Nat
  BY NumberAssumption DEF IInv
<1>1. totalMass = Law!Held(pools) /\ totalSupply = Law!Held(Address)
  BY LawHeld DEF SupplyIsSumOfBalances, MassIsSumOfPoolBalances
<1>2. ASSUME NEW x \in Address, IsInfrastructure(x) \/ ~EscapeOnTry(x)[x]
      PROVE  Law!Free(x)
  <2>1. CASE IsInfrastructure(x)
    BY <2>1 DEF IsInfrastructure, Law!Free
  <2>2. CASE ~IsInfrastructure(x)
    BY <1>0, <1>1, <1>2, <2>2, GateLemma DEF Law!Free, Law!WithinLimit
  <2> QED
    BY <2>1, <2>2
<1>3. ASSUME UNCHANGED registry
      PROVE  pools' = pools /\ routers' = routers
  BY <1>3 DEF registry, IsPool, IsRouter
<1>4. ASSUME NEW from \in Address, NEW to \in Address, NEW amount \in Amount,
             MoveBalance(from, to, amount)
      PROVE  Law!Next
  <2>1. /\ 0 < amount /\ amount <= balance[from] /\ from # to
        /\ balance' = [balance EXCEPT ![from] = @ - amount, ![to] = @ + amount]
        /\ UNCHANGED registry
        /\ SenderGateOpen(from, to)
    BY <1>0, <1>4 DEF MoveBalance, TransferAccepted, HasFunds, TypeOK
  <2>2. Law!Free(from) \/ to \in pools
    BY <1>2, <2>1 DEF SenderGateOpen
  <2>3. Law!Transfer(from, to, amount)
    BY <1>3, <2>1, <2>2 DEF Law!Transfer
  <2> QED
    BY <2>3 DEF Law!Next
<1>5. ASSUME NEW from \in Address, NEW amount \in Amount,
             BurnBalance(from, amount)
      PROVE  Law!Next
  <2>1. /\ 0 < amount /\ amount <= balance[from]
        /\ balance' = [balance EXCEPT ![from] = @ - amount]
        /\ UNCHANGED registry
        /\ ~EscapeOnTry(from)[from]
    BY <1>0, <1>5 DEF BurnBalance, HasFunds, TypeOK
  <2>2. Law!Burn(from, amount)
    BY <1>2, <1>3, <2>1 DEF Law!Burn
  <2> QED
    BY <2>2 DEF Law!Next
<1>6. ASSUME NEW to \in Address, NEW amount \in Amount, Mint(to, amount)
      PROVE  Law!Next
  <2>1. /\ amount > 0
        /\ balance' = [balance EXCEPT ![to] = @ + amount]
        /\ UNCHANGED registry
        /\ totalSupply + amount <= MaxSupply
    BY <1>0, <1>6 DEF Mint, WithinCap, TypeOK
  <2>2. Law!Mint(to, amount)
    BY <1>1, <1>3, <2>1 DEF Law!Mint
  <2> QED
    BY <2>2 DEF Law!Next
<1>7. CASE UNCHANGED balance
  BY <1>7 DEF Law!Next, Law!Govern
<1> QED
  BY <1>4, <1>5, <1>6, <1>7, StepKinds

\* Lazy vault flags, the accumulator and the square root together enforce the
\* law on balances: whoever is above the limit gets HITZ out into a pool only.
THEOREM GravityLawHolds == Spec => ImplementsGravityLaw
<1>1. Init => Law!Init
  BY DEF Init, Law!Init, IsPool, IsRouter
<1>2. /\ IInv /\ SupplyIsSumOfBalances /\ MassIsSumOfPoolBalances
      /\ [Next]_vars /\ TypeOK'
      => [Law!Next]_(Law!vars)
  BY LawStep
<1>3. AccumulatorsAreSums => SupplyIsSumOfBalances /\ MassIsSumOfPoolBalances
  BY DEF AccumulatorsAreSums
<1> QED
  BY <1>1, <1>2, <1>3, Invariance, TypeCorrect, AccumulatorsCorrect, PTL
     DEF Spec, ImplementsGravityLaw, Law!Spec

\* Infrastructure is never flagged, and every flag a call leaves behind on an
\* account it touched is the right one.
THEOREM FlagsSound == Spec => FlagsAreSound
<1>1. []InfrastructureNeverVaulted /\ FlagsFollowBalances => FlagsAreSound
  BY DEF FlagsAreSound
<1>. QED BY <1>1, InfrastructureImmunity, FlagsCorrect
=============================================================================
