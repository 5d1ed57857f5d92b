----------------------------- MODULE MCClaimParts -----------------------------
(***************************************************************************)
(* A holder of the legacy token and what reaches them by email: the link   *)
(* they sign in with, the redemption behind it, the campaign script that   *)
(* posts the reparations, and the alert to the operator when a redemption  *)
(* finds the sponsor short.  Each behaviour works one part, chosen at the  *)
(* start: what the parts share, the record and the link, is modelled in    *)
(* each from its own side.                                                 *)
(***************************************************************************)
EXTENDS LegacyReparation, EmailSignIn, ReparationCampaign, BalanceAlert, TLC

VARIABLE part   \* the part at work

claimVars == <<vars, signInVars, campaignVars, alertVars, part>>

-----------------------------------------------------------------------------
\* An email and two public keys; zero amounts and ones that are no number.
Row(to, hitz, xlm) == [to |-> to, hitz |-> hitz, xlm |-> xlm]
OneFile == <<Row("email", "some", "some"), Row("account", "some", "some")>>
SomeFiles == {OneFile,
             <<Row("account", "some", "bad"), Row("account", "some", "none")>>,
             <<Row("email", "bad", "none"), Row("invalid", "some", "none"),
               Row("account", "none", "some")>>}
SomeModes == {[dryRun |-> d, skipOnchain |-> s] : d, s \in BOOLEAN}

\* Raw emails that normalise to one address, or to none.
Normalised == ("Ann" :> "ann") @@ ("x" :> "invalid")

-----------------------------------------------------------------------------
\* Parts that do not work start in one state.
ClaimInit ==
    /\ part \in {"redeem", "login", "campaign", "alert"}
    /\ Init /\ SignInInit
    /\ CampaignInit /\ (part # "campaign" => campaign = OneFile /\ existing = {})
    /\ AlertInit /\ (part # "alert" => ~low)

Redeems   == part = "redeem" /\ Next
               /\ UNCHANGED <<signInVars, campaignVars, alertVars, part>>
SignsIn   == part = "login" /\ SignInNext
               /\ UNCHANGED <<vars, campaignVars, alertVars, part>>
Campaigns == part = "campaign" /\ CampaignNext
               /\ UNCHANGED <<vars, signInVars, alertVars, part>>
Alerts    == part = "alert" /\ AlertNext
               /\ UNCHANGED <<vars, signInVars, campaignVars, part>>

ClaimNext == Redeems \/ SignsIn \/ Campaigns \/ Alerts

ClaimSpec == ClaimInit /\ [][ClaimNext]_claimVars /\ Fairness
=============================================================================
