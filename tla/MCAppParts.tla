----------------------------- MODULE MCAppParts -----------------------------
(***************************************************************************)
(* The web app of one visitor.  Each behaviour works one part, chosen at   *)
(* the start, while the others keep their initial state: the parts share   *)
(* no state that a step of one could disturb in another.                   *)
(***************************************************************************)
EXTENDS SendPanel, WebSession, SwapPanel, SacrificePanel, HolderScene, AdminTools, TLC

VARIABLE part   \* the part at work

sendingVars == <<gatewayVars, sendVars>>
formVars    == <<sendingVars, sessionVars, swapVars, ritualVars, toolVars>>
viewVars    == <<ecosystemVars, stageVars>>
allVars     == <<formVars, viewVars, part>>

-----------------------------------------------------------------------------
\* A funded wallet; ann may have signed in before, bob is new.
NewLedger == {("wal" :> "bare") @@ ("ann" :> "none") @@ ("bob" :> "none")}

AccountOf(e) == IF e = "ann@mail" THEN "ann" ELSE "bob"

\* Three pools of HITZ, XLM and USDC: a direct path and a bridge for each pair.
Pool(id, x, y) == [id |-> id, tokens |-> {x, y}, indexed |-> TRUE]
FullRegistry == <<Pool("hx", "HITZ", "XLM"), Pool("hu", "HITZ", "USDC"), Pool("xu", "XLM", "USDC")>>

\* Another order, no bridge, and a pool the router does not know.
OtherRegistry ==
    <<[Pool("hu", "HITZ", "USDC") EXCEPT !.indexed = FALSE], Pool("hx", "HITZ", "XLM")>>

TwoRegistries == {FullRegistry, OtherRegistry}

OneGraph ==
    ("hx" :> ("HITZ" :> 50 @@ "XLM" :> 60)) @@ ("hu" :> ("HITZ" :> 40 @@ "USDC" :> 70))
    @@ ("xu" :> ("XLM" :> 80 @@ "USDC" :> 90))

TwoGraphs == {OneGraph, [OneGraph EXCEPT !["hx"]["XLM"] = 90]}

\* Vaulted and free holders, pools empty or not.
SomePurses == [balance : {1, 7, 12}, mass : {0, 4}, registered : {TRUE}]

UpAndDown == {-4, 3}

\* A new holder and a pool, which moves on; what a snapshot may hold.
Drawn(held, pools) ==
    [held |-> held, pools |-> pools, routers |-> {}, active |-> [a \in Address |-> 0]]
SomeFrames ==
    {Drawn("new" :> 1, {}), Drawn("pol" :> 5, {}), Drawn("pol" :> 5, {"pol"}),
     Drawn("new" :> 5 @@ "pol" :> 5, {"pol"}), Drawn("new" :> 1 @@ "pol" :> 6, {"pol"})}

-----------------------------------------------------------------------------
Parts == {"send", "session", "swap", "vault", "holders", "scene", "tools"}

\* Parts that do not work start in one state; those that do, in any of theirs.
Init ==
    /\ part \in Parts
    /\ SendInit /\ (part # "send" => connection = ByWallet /\ ~archived)
    /\ archived => connection # ByEmail("bob@mail")
    /\ SessionInit /\ (part # "session" => ~loggedIn /\ stored = Nobody)
    /\ SwapInit /\ registry = FullRegistry
    /\ RitualInit
    /\ part # "vault" => purse = [balance |-> 1, mass |-> 0, registered |-> TRUE]
    /\ EcosystemInit /\ listed = [new |-> "no", pol |-> "pool"]
    /\ entries = [new |-> NoEntry, pol |-> [held |-> 5, written |-> 1]]
    /\ StageInit
    /\ ToolsInit /\ (part # "tools" => ~chain.archived)

OnForms == UNCHANGED <<viewVars, part>>
OnView  == UNCHANGED <<formVars, part>>

Sending == part = "send" /\ OnForms /\ SendNext
              /\ UNCHANGED <<sessionVars, swapVars, ritualVars, toolVars>>
Visiting == part = "session" /\ OnForms /\ SessionNext
              /\ UNCHANGED <<sendingVars, swapVars, ritualVars, toolVars>>
Swapping == part = "swap" /\ OnForms /\ SwapNext
              /\ UNCHANGED <<sendingVars, sessionVars, ritualVars, toolVars>>
Sacrificing == part = "vault" /\ OnForms /\ RitualNext
              /\ UNCHANGED <<sendingVars, sessionVars, swapVars, toolVars>>
Pressing == part = "tools" /\ OnForms /\ ToolsNext
              /\ UNCHANGED <<sendingVars, sessionVars, swapVars, ritualVars>>

Watching == part = "holders" /\ OnView /\ EcosystemNext /\ UNCHANGED stageVars
Drawing  == part = "scene" /\ OnView /\ StageNext /\ UNCHANGED ecosystemVars

Next ==
    \/ Sending \/ Visiting \/ Swapping \/ Sacrificing \/ Pressing
    \/ Watching \/ Drawing

Spec == Init /\ [][Next]_allVars
=============================================================================
