----------------------------- MODULE MCEventIngest -----------------------------
(***************************************************************************)
(* A history for TLC: a sponsored payment to a new account, a purchase     *)
(* through a pool, a vaulted contract and a transfer between people.       *)
(***************************************************************************)
EXTENDS EventIngest

CONSTANTS alice, bob, bot, pool, sponsor, t1, t2, t3

History == <<
    [ts |-> 0, tx |-> t1, name |-> "transfer", topics |-> <<sponsor, alice>>],
    [ts |-> 0, tx |-> t2, name |-> "transfer", topics |-> <<pool, bob>>],
    [ts |-> 2, tx |-> t3, name |-> "transfer", topics |-> <<bob, bot>>]>>

Transactions ==
    t1 :> [source |-> sponsor, fee |-> sponsor, inner |-> None] @@
    t2 :> [source |-> bob, fee |-> bob, inner |-> None]

Balances == alice :> 3 @@ bob :> 9 @@ bot :> 2 @@ pool :> 50 @@ sponsor :> 1
=============================================================================
