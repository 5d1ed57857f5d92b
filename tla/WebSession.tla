----------------------------- MODULE WebSession -----------------------------
(***************************************************************************)
(* contexts/WalletContext.tsx and contexts/ProtocolContext.tsx: who is     *)
(* connected, and the balance the page shows.  The wallet kit, the session *)
(* cookie and the chain answer in any order, minutes late if they like;    *)
(* every answer runs as one step, with the effects React runs after it.    *)
(***************************************************************************)
EXTENDS Integers, FiniteSets

CONSTANTS
    WalletKeys,     \* accounts of the user's wallets
    EmailKey,       \* the account derived from the user's email
    MaxEvents       \* bound: things the user, the kit, the timer or the ledger does

ASSUME SessionAssumption ==
    /\ EmailKey \notin WalletKeys
    /\ MaxEvents \in Nat

VARIABLES
    session,        \* publicKey, email and connectionType of WalletContext
    loggedIn,       \* the session cookie holds the user's email
    stored,         \* the wallet account the kit keeps, or Nobody
    calls,          \* answers WalletContext waits for
    trustlineFor,   \* trustlineEnsuredFor
    height,         \* how often the balances on the ledger changed
    refreshes,      \* refreshes still running
    newest,         \* the refresh with the latest sequence number, and how it ended
    shown,          \* balance and vaulted of ProtocolContext
    stale,          \* error of ProtocolContext: the last refresh failed
    events          \* events so far

walletVars == <<session, loggedIn, stored, calls, trustlineFor>>
protocolVars == <<height, refreshes, newest, shown, stale>>
sessionVars == <<walletVars, protocolVars, events>>

Nobody == "nobody"
Event == events < MaxEvents /\ events' = events + 1
NoBalance == [of |-> Nobody, at |-> 0]

\* A balance that could not be read is shown as 0.
FailedRead == MaxEvents + 1

LoggedOut == [publicKey |-> Nobody, email |-> FALSE, type |-> "none"]
AsWallet(k) == [publicKey |-> k, email |-> FALSE, type |-> "wallet"]
AsEmail == [publicKey |-> EmailKey, email |-> TRUE, type |-> "email"]

-----------------------------------------------------------------------------
\* ProtocolContext.

\* Starting a refresh takes the next sequence number and keeps publicKey.
StartRefresh(key) ==
    LET r == [seq |-> newest.seq + 1, key |-> key, at |-> height, stage |-> "mass"] IN
    /\ refreshes' = refreshes \cup {r}
    /\ newest' = [seq |-> r.seq, key |-> key, at |-> height, ended |-> "no"]

\* The effect on [refresh]: a new publicKey starts a refresh.
SessionBecomes(s) ==
    /\ session' = s
    /\ IF s.publicKey = session.publicKey THEN UNCHANGED <<refreshes, newest>>
       ELSE StartRefresh(s.publicKey)
    /\ UNCHANGED <<height, shown, stale>>

\* The timer runs the current refresh; a panel runs the one it captured, which
\* may be that of an account that is no longer connected.
PollRefresh(key) ==
    /\ Event
    /\ key # session.publicKey => key \in WalletKeys \cup {EmailKey}
    /\ StartRefresh(key)
    /\ UNCHANGED walletVars /\ UNCHANGED <<height, shown, stale>>

\* Mutant: every answer counts.
AnyAnswer(r) == TRUE

\* seq === seqRef.current.
IsCurrent(r) == r.seq = newest.seq

End(r, how) ==
    /\ refreshes' = refreshes \ {r}
    /\ newest' = IF r.seq = newest.seq THEN [newest EXCEPT !.ended = how] ELSE newest

\* S and L arrive; the second pair of reads starts for a connected account.
MassArrives(r) ==
    /\ r.stage = "mass"
    /\ IF IsCurrent(r) /\ r.key # Nobody
       THEN /\ refreshes' = (refreshes \ {r}) \cup {[r EXCEPT !.stage = "balance"]}
            /\ UNCHANGED <<newest, shown, stale>>
       ELSE /\ End(r, "ok")
            /\ IF IsCurrent(r) THEN shown' = NoBalance /\ stale' = FALSE ELSE UNCHANGED <<shown, stale>>
    /\ UNCHANGED walletVars /\ UNCHANGED <<height, events>>

\* The balance, read at some height since the refresh began, or 0 in its place.
BalanceArrives(r) ==
    /\ r.stage = "balance"
    /\ End(r, "ok")
    /\ IF IsCurrent(r)
       THEN /\ \E h \in (r.at..height) \cup {FailedRead} : shown' = [of |-> r.key, at |-> h]
            /\ stale' = FALSE
       ELSE UNCHANGED <<shown, stale>>
    /\ UNCHANGED walletVars /\ UNCHANGED <<height, events>>

\* Reading S or L fails: the old values stay, with an error.
RefreshFails(r) ==
    /\ r.stage = "mass"
    /\ End(r, "error")
    /\ stale' = (stale \/ IsCurrent(r))
    /\ UNCHANGED walletVars /\ UNCHANGED <<height, shown, events>>

\* The balances on the ledger change.
Block ==
    /\ Event
    /\ height' = height + 1
    /\ UNCHANGED walletVars /\ UNCHANGED <<refreshes, newest, shown, stale>>

-----------------------------------------------------------------------------
\* WalletContext.

Await(c) == calls' = calls \cup {c}
Done(c) == calls' = calls \ {c}

\* The effect on [connectionType, email]: once per email, and never reset, as
\* gateway.call answers failures instead of rejecting.
TrustlineEffect(s) ==
    trustlineFor' = (trustlineFor \/ (s.type = "email" /\ s.email))

Becomes(s) == SessionBecomes(s) /\ TrustlineEffect(s)

Stays == UNCHANGED <<session, trustlineFor>> /\ UNCHANGED protocolVars

\* GET /api/auth/me on mount: the server reads the cookie, or is not reached.
MeServed ==
    /\ "me" \in calls
    /\ \E answer \in {"nobody"} \cup (IF loggedIn THEN {"email"} ELSE {}) :
          calls' = (calls \ {"me"}) \cup {answer}
    /\ Stays
    /\ UNCHANGED <<loggedIn, stored, events>>

\* Its answer arrives; only a session found replaces what is there.
MeAnswers ==
    /\ \/ "email" \in calls /\ Done("email") /\ Becomes(AsEmail)
       \/ "nobody" \in calls /\ Done("nobody") /\ Stays
    /\ UNCHANGED <<loggedIn, stored, events>>

\* getAddress on mount: a stored wallet replaces whatever is there.
WalletRestores ==
    /\ "restore" \in calls /\ Done("restore")
    /\ IF stored # Nobody THEN Becomes(AsWallet(stored)) ELSE Stays
    /\ UNCHANGED <<loggedIn, stored, events>>

\* STATE_UPDATED with an address: the user switched accounts in the wallet.
KitUpdates(k) ==
    /\ Event /\ stored # Nobody /\ k # stored
    /\ stored' = k
    /\ Becomes(AsWallet(k))
    /\ UNCHANGED <<loggedIn, calls>>

\* Only the wallet's own session ends, and email is left as it is.
DropWallet ==
    IF session.type = "wallet" THEN [session EXCEPT !.publicKey = Nobody, !.type = "none"] ELSE session

\* DISCONNECT, or STATE_UPDATED without an address.
KitDisconnects ==
    /\ Event /\ stored # Nobody
    /\ stored' = Nobody
    /\ Becomes(DropWallet)
    /\ UNCHANGED <<loggedIn, calls>>

\* connectWallet: the kit's modal is open.
OpenModal ==
    /\ Event /\ "modal" \notin calls
    /\ Await("modal")
    /\ Stays /\ UNCHANGED <<loggedIn, stored>>

\* The user picks a wallet or dismisses the modal.
ModalAnswers ==
    /\ "modal" \in calls /\ Done("modal")
    /\ \/ \E k \in WalletKeys : stored' = k /\ Becomes(AsWallet(k))
       \/ Stays /\ UNCHANGED stored
    /\ UNCHANGED <<loggedIn, events>>

\* disconnect() tells the kit or the gateway first, by the mode it captured.
Disconnect ==
    /\ Event /\ calls \cap {"disconnect wallet", "disconnect email"} = {}
    /\ CASE session.type = "wallet" -> Await("disconnect wallet") /\ Stays
         [] session.type = "email"  -> Await("disconnect email") /\ Stays
         [] OTHER                   -> Becomes(LoggedOut) /\ UNCHANGED calls
    /\ UNCHANGED <<loggedIn, stored>>

\* Then it clears all three values, also of a session that began meanwhile.
\* The kit may fail to forget and the gateway may not be reached.
DisconnectAnswers ==
    /\ \/ /\ "disconnect wallet" \in calls /\ Done("disconnect wallet")
          /\ stored' \in {stored, Nobody} /\ UNCHANGED loggedIn
       \/ /\ "disconnect email" \in calls /\ Done("disconnect email")
          /\ loggedIn' \in {loggedIn, FALSE} /\ UNCHANGED stored
    /\ Becomes(LoggedOut)
    /\ UNCHANGED events

\* The magic link is opened in another tab, or the user logs out there.
OtherTab ==
    /\ Event /\ loggedIn' = ~loggedIn
    /\ Stays /\ UNCHANGED <<stored, calls>>

-----------------------------------------------------------------------------
\* The page loads: the first refresh runs for nobody.
SessionInit ==
    /\ session = LoggedOut
    /\ loggedIn \in BOOLEAN
    /\ stored \in WalletKeys \cup {Nobody}
    /\ calls = {"me", "restore"}
    /\ trustlineFor = FALSE
    /\ height = 0
    /\ refreshes = {[seq |-> 1, key |-> Nobody, at |-> 0, stage |-> "mass"]}
    /\ newest = [seq |-> 1, key |-> Nobody, at |-> 0, ended |-> "no"]
    /\ shown = NoBalance
    /\ stale = FALSE
    /\ events = 0

SessionNext ==
    \/ MeServed \/ MeAnswers \/ WalletRestores \/ OpenModal \/ ModalAnswers
    \/ Disconnect \/ DisconnectAnswers \/ KitDisconnects \/ OtherTab \/ Block
    \/ \E k \in WalletKeys : KitUpdates(k)
    \/ \E k \in WalletKeys \cup {EmailKey, Nobody} : PollRefresh(k)
    \/ \E r \in refreshes : MassArrives(r) \/ BalanceArrives(r) \/ RefreshFails(r)

SessionSpec == SessionInit /\ [][SessionNext]_sessionVars

\* Once the newest refresh, started for the account that is connected, has
\* ended well, the page shows that account's balance, no older than when that
\* refresh began (or the 0 that stands for a failed read of it), for as long as
\* no newer one starts: answers to older refreshes, of this account or of
\* another, never come back.
ShownBalanceIsCurrent ==
    newest.ended = "ok" /\ newest.key = session.publicKey =>
        /\ shown.of = session.publicKey
        /\ shown.at >= newest.at \/ shown = NoBalance

\* The three values always tell of one session, whatever the kit, the cookie
\* and the user's own clicks answer and in whatever order: an email exactly in
\* email mode, with its account; a wallet's account exactly in wallet mode;
\* nothing when disconnected.
SessionIsWhole ==
    session \in {LoggedOut, AsEmail} \cup {AsWallet(k) : k \in WalletKeys}

\* What the header shows is one account's: who is connected, how, and what that
\* account holds.
HeaderIsTrue == SessionIsWhole /\ ShownBalanceIsCurrent
=============================================================================
