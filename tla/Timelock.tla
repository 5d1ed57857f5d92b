------------------------------ MODULE Timelock ------------------------------
(***************************************************************************)
(* The promise behind every propose / wait / install pair of the           *)
(* contracts: what gets installed has been the one public proposal, without *)
(* interruption, for at least Delay.                                       *)
(***************************************************************************)
EXTENDS Integers

CONSTANTS Item, Initial, None, Delay

VARIABLES installed, proposal, clock

vars == <<installed, proposal, clock>>

Propose(i) ==
    /\ proposal' = [item |-> i, since |-> clock]
    /\ UNCHANGED <<installed, clock>>

Withdraw ==
    /\ proposal # None
    /\ proposal' = None
    /\ UNCHANGED <<installed, clock>>

Install ==
    /\ proposal # None
    /\ clock - proposal.since >= Delay
    /\ installed' = proposal.item
    /\ proposal' = None
    /\ UNCHANGED clock

Tick ==
    /\ clock' > clock
    /\ UNCHANGED <<installed, proposal>>

Init ==
    /\ installed = Initial
    /\ proposal = None
    /\ clock = 0

Next ==
    \/ \E i \in Item : Propose(i)
    \/ Withdraw
    \/ Install
    \/ Tick

Spec == Init /\ [][Next]_vars
=============================================================================
