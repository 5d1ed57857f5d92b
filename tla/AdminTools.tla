----------------------------- MODULE AdminTools -----------------------------
(***************************************************************************)
(* The scenario cards of components/AdminTab.tsx and scenarios/*.tsx: an   *)
(* accordion of forms whose buttons (TxButton.tsx) each make one contract  *)
(* call with the wallet (buildAndSend of lib/stellar.ts).  A button is     *)
(* disabled while its own call runs; the buttons of a card run beside each *)
(* other and share the account's sequence number.                          *)
(***************************************************************************)
EXTENDS Naturals

CONSTANTS MaxCalls, MaxToggles      \* bounds: presses, and cards opened or closed

VARIABLES
    card,       \* the open card and how often one was opened
    buttons,    \* loading and result of each TxButton
    toolCalls,      \* calls being made
    chain,      \* the account's sequence number, archived entries, pending and
                \* included transactions, presses so far
    registryList, reads     \* ProtocolGrowth's list, and the reads under way

toolVars == <<card, buttons, toolCalls, chain, registryList, reads>>

\* The buttons of each card: whether an amount is parsed, whether success reads
\* the registry again.
Plain   == [amount |-> FALSE, refreshes |-> FALSE]
Amount  == [amount |-> TRUE, refreshes |-> FALSE]
Listing == [amount |-> FALSE, refreshes |-> TRUE]

BurnForm == Amount

GrowthButtons ==
    [registerPool |-> Listing, removePool |-> Listing, registerRouter |-> Listing,
     removeRouter |-> Listing, burn |-> BurnForm]
CitizenButtons   == [transfer |-> Amount, mint |-> Amount]
AnchorButtons    == [mint |-> Amount]
GhostButtons     == [transfer |-> Amount, checkRelease |-> Plain]
ArbitrageButtons == [transfer |-> Amount, approve |-> Amount, transferFrom |-> Amount]

Cards ==
    [growth |-> GrowthButtons, citizen |-> CitizenButtons, anchor |-> AnchorButtons,
     ghost |-> GhostButtons, arbitrage |-> ArbitrageButtons]

CONSTANT Shown      \* the cards, of those above, the visitor opens

Button      == UNION {{[card |-> c, call |-> b] : b \in DOMAIN Cards[c]} : c \in Shown}
Kind(b)     == Cards[b.card][b.call]
Shows(result, press) == [loading |-> result = "none", result |-> result, press |-> press]
Unpressed   == [loading |-> FALSE, result |-> "none", press |-> 0]
NoCard      == [name |-> "none", mount |-> 0]

-----------------------------------------------------------------------------
\* The accordion: opening a card mounts it anew and closes the other.

Toggle(c) ==
    /\ card.mount < MaxToggles
    /\ card' = [name |-> IF card.name = c THEN "none" ELSE c, mount |-> card.mount + 1]
    /\ buttons' = [b \in Button |-> Unpressed]
    /\ registryList' = "loading"
    /\ reads' = IF card'.name = "growth" THEN reads \cup {[mount |-> card'.mount, nr |-> 0]}
                ELSE reads
    /\ UNCHANGED <<toolCalls, chain>>

-----------------------------------------------------------------------------
\* One press, of a form filled in; parseHitz throws on an amount that is none.

PressTool(b, junk) ==
    /\ b.card = card.name /\ ~buttons[b].loading
    /\ junk => Kind(b).amount
    /\ chain.presses < MaxCalls
    /\ LET press == chain.presses + 1 IN
       /\ chain' = [chain EXCEPT !.presses = press]
       /\ IF junk
          THEN /\ buttons' = [buttons EXCEPT ![b] = Shows("threw", press)]
               /\ UNCHANGED toolCalls
          ELSE /\ buttons' = [buttons EXCEPT ![b] = Shows("none", press)]
               /\ toolCalls' = toolCalls \cup {[button |-> b, mount |-> card.mount, press |-> press,
                                        step |-> "build", tx |-> "call", restored |-> FALSE,
                                        seq |-> 0]}
    /\ UNCHANGED <<card, registryList, reads>>

To(c, d)  == toolCalls' = (toolCalls \ {c}) \cup {d}
Here(c)   == card.mount = c.mount

\* A card that was closed takes no result; a button that refreshes the list
\* reads it even then.
Ends(c, result) ==
    /\ toolCalls' = toolCalls \ {c}
    /\ buttons' = IF Here(c)
                  THEN [buttons EXCEPT ![c.button] = Shows(result, c.press)]
                  ELSE buttons
    /\ IF result = "success" /\ Kind(c.button).refreshes
       THEN /\ reads' = reads \cup {[mount |-> c.mount, nr |-> c.press]}
            /\ registryList' = IF Here(c) THEN "loading" ELSE registryList
       ELSE UNCHANGED <<reads, registryList>>

\* buildAndSimulate: the account's number is read, the call simulated.  Archived
\* entries are restored first; then the second simulation only looks for errors.
Simulate(c) ==
    /\ c.step = "build" /\ c.tx = "call"
    /\ \/ Ends(c, "refused")
       \/ /\ To(c, IF chain.archived /\ ~c.restored
                   THEN [c EXCEPT !.tx = "restore"]
                   ELSE [c EXCEPT !.step = "sign", !.seq = chain.seq + 1])
          /\ UNCHANGED <<buttons, reads, registryList>>
    /\ UNCHANGED <<card, chain>>

BuildRestore(c) ==
    /\ c.step = "build" /\ c.tx = "restore"
    /\ To(c, [c EXCEPT !.step = "sign", !.seq = chain.seq + 1])
    /\ UNCHANGED <<card, buttons, chain, registryList, reads>>

Sign(c) ==
    /\ c.step = "sign" /\ To(c, [c EXCEPT !.step = "send"])
    /\ UNCHANGED <<card, buttons, chain, registryList, reads>>

Tx(c) == [press |-> c.press, tx |-> c.tx, seq |-> c.seq]

\* sendTransaction: ERROR when the number is not the next one, or taken to
\* be included.
SendSigned(c) ==
    /\ c.step = "send"
    /\ \/ Ends(c, IF c.tx = "restore" THEN "threw" ELSE "refused") /\ UNCHANGED chain
       \/ /\ c.seq = chain.seq + 1
          /\ chain' = [chain EXCEPT !.pending = @ \cup {Tx(c)}]
          /\ To(c, [c EXCEPT !.step = "poll"])
          /\ UNCHANGED <<buttons, reads, registryList>>
    /\ UNCHANGED <<card>>

\* Mutant: one look at the network is enough.
LookOnce(c) == TRUE

\* NOT_FOUND is asked again, for as long as it takes.
Found(c) == Tx(c) \in chain.landed \cup chain.failed

PollResult(c) ==
    /\ c.step = "poll" /\ Found(c)
    /\ CASE Tx(c) \notin chain.landed -> Ends(c, IF c.tx = "restore" THEN "threw" ELSE "failed")
         [] Tx(c) \in chain.landed /\ c.tx = "call" -> Ends(c, "success")
         [] OTHER -> /\ To(c, [c EXCEPT !.tx = "call", !.restored = TRUE, !.step = "build"])
                     /\ UNCHANGED <<buttons, reads, registryList>>
    /\ UNCHANGED <<card, chain>>

\* The RPC or the wallet fails; what was sent may still land.
CallThrows(c) == Ends(c, "threw") /\ UNCHANGED <<card, chain>>

-----------------------------------------------------------------------------
\* The network.

Land(tx, ok) ==
    /\ tx \in chain.pending /\ tx.seq = chain.seq + 1
    /\ chain' = [chain EXCEPT
                    !.pending = @ \ {tx}, !.seq = @ + 1,
                    !.landed = IF ok THEN @ \cup {tx} ELSE @,
                    !.failed = IF ok THEN @ ELSE @ \cup {tx},
                    !.archived = @ /\ ~(ok /\ tx.tx = "restore")]
    /\ UNCHANGED <<card, buttons, toolCalls, registryList, reads>>

\* Overtaken by another transaction with its number, or past its sixty seconds.
Drop(tx) ==
    /\ tx \in chain.pending /\ chain' = [chain EXCEPT !.pending = @ \ {tx}]
    /\ UNCHANGED <<card, buttons, toolCalls, registryList, reads>>

-----------------------------------------------------------------------------
\* The list of the registry.

RefreshList ==
    /\ card.name = "growth" /\ registryList # "loading"
    /\ registryList' = "loading"
    /\ reads' = reads \cup {[mount |-> card.mount, nr |-> MaxCalls + 1]}
    /\ UNCHANGED <<card, buttons, toolCalls, chain>>

\* listRegistrations; any answer to a card that is still there is shown, the
\* latest to come last.
ShowList(r) ==
    /\ reads' = reads \ {r}
    /\ registryList' \in IF Here(r) THEN {"error", "ready"} ELSE {registryList}
    /\ UNCHANGED <<card, buttons, toolCalls, chain>>

-----------------------------------------------------------------------------
ToolsInit ==
    /\ card = NoCard /\ buttons = [b \in Button |-> Unpressed]
    /\ toolCalls = {} /\ reads = {} /\ registryList = "loading"
    /\ chain \in [presses : {0}, seq : {0}, archived : BOOLEAN, pending : {{}}, landed : {{}},
                  failed : {{}}]

ToolsNext ==
    \/ \E c \in Shown : Toggle(c)
    \/ \E b \in Button, junk \in BOOLEAN : PressTool(b, junk)
    \/ \E c \in toolCalls :
          \/ Simulate(c) \/ BuildRestore(c) \/ Sign(c) \/ SendSigned(c)
          \/ PollResult(c) \/ CallThrows(c)
    \/ \E tx \in chain.pending : Drop(tx) \/ \E ok \in BOOLEAN : Land(tx, ok)
    \/ \E r \in reads : ShowList(r)
    \/ RefreshList

ToolsSpec == ToolsInit /\ [][ToolsNext]_toolVars

\* lib/stellar.ts:267-330 under TxButton.tsx:37-51.  What a button shows of its
\* press is so: success landed, and a call that was refused or failed has not
\* and never will, whatever other buttons, restores and closed cards do to the
\* account's sequence numbers meanwhile.  An error that was thrown tells nothing.
ResultsAreTrue ==
    \A b \in Button :
        LET mine == {tx \in chain.landed : tx.press = buttons[b].press /\ tx.tx = "call"}
            open == {tx \in chain.pending : tx.press = buttons[b].press /\ tx.tx = "call"}
        IN  /\ buttons[b].result = "success" => mine # {}
            /\ buttons[b].result \in {"refused", "failed"} => mine = {} /\ open = {}
=============================================================================
