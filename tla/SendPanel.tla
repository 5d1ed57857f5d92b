----------------------------- MODULE SendPanel ------------------------------
(***************************************************************************)
(* components/SendToEmail.tsx on top of the gateway: a press of Send       *)
(* prepares the recipient's account, transfers through callContract        *)
(* (contexts/WalletContext.tsx) and mails a claim link.  The press keeps   *)
(* the account it was made with while the user, or another tab, changes    *)
(* the connection and the session cookie.                                  *)
(***************************************************************************)
EXTENDS SponsorGateway

CONSTANTS
    Wallet,         \* the account of the user's wallet
    Emails,         \* email addresses
    Derived(_),     \* the account derived from an email
    Typed,          \* addresses the user may type
    PanelSlot,      \* the slot of the panel's requests
    MaxSwitches,    \* bound: changes of connection or cookie
    MaxPresses      \* bound: presses of Send

ASSUME SendAssumption ==
    /\ Wallet \in Account /\ Typed \subseteq Account /\ PanelSlot \in Slot
    /\ \A e \in Emails : Derived(e) \in Account

VARIABLES
    connection,     \* the connected account, and how: "wallet", "email" or "none"
    cookie,         \* the email of the session cookie, or NoAccount
    panel,          \* the press being handled
    mails,          \* claim mails sent
    used            \* presses and switches so far

sendVars == <<connection, cookie, panel, mails, used>>

Disconnected == [key |-> NoAccount, how |-> "none"]
ByWallet == [key |-> Wallet, how |-> "wallet"]
ByEmail(e) == [key |-> Derived(e), how |-> "email"]

NoPress == [state |-> "idle", by |-> Disconnected, email |-> NoAccount, to |-> NoAccount, tx |-> 0]

-----------------------------------------------------------------------------
\* The page.

\* canSend: connected, a recipient, no press under way.  An email is resolved
\* by the gateway, an address bootstrapped.
Press(email, address) ==
    /\ connection.key # NoAccount
    /\ panel.state \in {"idle", "error", "success"}
    /\ req[PanelSlot].pc \in {"idle", "done"} /\ used.presses < MaxPresses
    /\ panel' = [state |-> "resolving", by |-> connection, email |-> email, to |-> address, tx |-> 0]
    /\ AcceptFor(PanelSlot, IF email = NoAccount THEN "bootstrap" ELSE "ensure", address)
    /\ used' = [used EXCEPT !.presses = @ + 1]
    /\ UNCHANGED <<ledger, sequence, archived, txs, connection, cookie, mails>>

\* The panel shows an error; what the handler goes on doing stays unseen.
Fail == panel' = [panel EXCEPT !.state = "error"]

\* callContract as the press captured it: the wallet's own call, or execute
\* under whatever session the cookie holds now.
CallContract ==
    LET from == panel.by.key IN
    IF panel.by.how = "email"
    THEN AcceptExecute(PanelSlot, IF cookie = NoAccount THEN NoAccount ELSE Derived(cookie), from, panel.to)
    ELSE req' = [req EXCEPT ![PanelSlot] =
                    [Idle EXCEPT !.op = "wallet", !.target = from, !.from = from, !.to = panel.to,
                                 !.pc = "build"]]

Resolved ==
    /\ panel.state = "resolving" /\ req[PanelSlot].pc = "done"
    /\ IF req[PanelSlot].reply = "error" \/ panel.to = panel.by.key
       THEN Fail /\ UNCHANGED req
       ELSE CallContract /\ panel' = [panel EXCEPT !.state = "sending"]
    /\ UNCHANGED <<ledger, sequence, archived, txs, connection, cookie, mails, used>>

\* The wallet asks its user, for a restore and for the call alike.
WalletSigns(approved) ==
    /\ req[PanelSlot].pc = "sign"
    /\ IF approved THEN req' = [req EXCEPT ![PanelSlot].pc = "send"] ELSE Reply(PanelSlot, "error")
    /\ UNCHANGED <<ledger, sequence, archived, txs>> /\ UNCHANGED sendVars

\* Mutant: a hash is taken for success; a wallet's failed call has one too.
HashAlone(q) == q.tx # 0

\* TxResult.success: the status of the call, not only its hash.
Succeeded(q) == q.reply = "ok" /\ q.tx # 0

Executed ==
    /\ panel.state = "sending" /\ req[PanelSlot].pc = "done"
    /\ IF Succeeded(req[PanelSlot])
       THEN panel' = [panel EXCEPT !.state = IF panel.email = NoAccount THEN "success" ELSE "notifying",
                                   !.tx = req[PanelSlot].tx]
       ELSE Fail
    /\ UNCHANGED gatewayVars /\ UNCHANGED <<connection, cookie, mails, used>>

\* The connection to the gateway breaks: gateway.call answers an error.
LoseAnswer ==
    /\ panel.state = "resolving" \/ (panel.state = "sending" /\ panel.by.how = "email")
    /\ req[PanelSlot].pc # "done"
    /\ Fail
    /\ UNCHANGED gatewayVars /\ UNCHANGED <<connection, cookie, mails, used>>

\* POST notify: a claim token, the mail, and no token without its mail.  The
\* panel shows success either way.
Notify ==
    /\ panel.state = "notifying"
    /\ panel' = [panel EXCEPT !.state = "success"]
    /\ \/ mails' = mails \cup {[email |-> panel.email, tx |-> panel.tx]}
       \/ UNCHANGED mails
    /\ UNCHANGED gatewayVars /\ UNCHANGED <<connection, cookie, used>>

-----------------------------------------------------------------------------
\* The user, other tabs and other visitors.

Switch ==
    /\ used.switches < MaxSwitches
    /\ used' = [used EXCEPT !.switches = @ + 1]
    /\ \/ connection' = ByWallet /\ UNCHANGED cookie
       \/ \E e \in Emails : cookie' = e /\ connection' = ByEmail(e)
       \/ \E e \in Emails : cookie' = e /\ UNCHANGED connection
       \/ cookie' = NoAccount /\ UNCHANGED connection
       \/ cookie' = NoAccount /\ connection' = Disconnected
    /\ <<connection, cookie>>' # <<connection, cookie>>
    /\ UNCHANGED gatewayVars /\ UNCHANGED <<panel, mails>>

\* Another visitor, once per slot: a login's or a session's trustline, an
\* address to bootstrap.
Visit(s, op, a) ==
    /\ s # PanelSlot /\ req[s].pc = "idle"
    /\ op = "ensure" => \E e \in Emails : a = Derived(e)
    /\ AcceptFor(s, op, a)
    /\ UNCHANGED <<ledger, sequence, archived, txs>> /\ UNCHANGED sendVars

-----------------------------------------------------------------------------
SendInit ==
    /\ GatewayInit
    /\ \/ connection = ByWallet /\ cookie = NoAccount
       \/ \E e \in Emails : connection = ByEmail(e) /\ cookie = e
    /\ panel = NoPress
    /\ mails = {}
    /\ used = [presses |-> 0, switches |-> 0]

SendNext ==
    \/ GatewayStep /\ UNCHANGED sendVars
    \/ \E e \in Emails : Press(e, Derived(e))
    \/ \E a \in Typed : Press(NoAccount, a)
    \/ Resolved \/ Executed \/ LoseAnswer \/ Notify \/ Switch
    \/ \E approved \in BOOLEAN : WalletSigns(approved)
    \/ \E s \in Slot, op \in {"ensure", "bootstrap"}, a \in Account : Visit(s, op, a)

SendSpec == SendInit /\ [][SendNext]_<<gatewayVars, sendVars>>

\* What the panel reports as sent, and every claim mail, is a transfer that is
\* on the ledger, from the account the press was made with, to the account of
\* the recipient that was asked for, whatever the cookie, the connection and
\* other visitors did meanwhile.
ReportedTransfersLanded ==
    LET Landed(i, to) ==
          /\ i \in DOMAIN txs
          /\ txs[i].state = "success" /\ txs[i].effect = "call"
          /\ txs[i].to = to /\ ledger[to] # "none"
    IN  /\ panel.state \in {"notifying", "success"} =>
              Landed(panel.tx, panel.to) /\ txs[panel.tx].source = panel.by.key
        /\ \A m \in mails : Landed(m.tx, Derived(m.email))
=============================================================================
