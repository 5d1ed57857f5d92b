--------------------------- MODULE MCContractParts ---------------------------
(***************************************************************************)
(* The arithmetic of the two contracts: the token's integer root, and the  *)
(* vault.  They share nothing; a behaviour whose root is that of 0 goes on *)
(* with the vault.                                                         *)
(***************************************************************************)
EXTENDS NewtonSqrt, SovereignVault

CONSTANTS XLM, USDC

\* Every word, and negative arguments down to -3.
WordArguments == -3..MaxWord

OneAsset    == <<XLM>>
Supplies    == [t \in {Hitz} \cup Asset |-> IF t = Hitz THEN 220 ELSE 140]
Level       == {<<100,100>>}
AnyPrice    == {<<0, 60>>}
HitzGift    == {<<Hitz,10>>}

-----------------------------------------------------------------------------
PartsInit == SqrtInit /\ Init

Rooting == SqrtNext /\ UNCHANGED vars
Trading == n = 0 /\ pc = "done" /\ Next /\ UNCHANGED sqrtVars

PartsSpec ==
    /\ PartsInit
    /\ [][Rooting \/ Trading]_<<sqrtVars, vars>>
    /\ WF_<<sqrtVars, vars>>(Rooting)
=============================================================================
