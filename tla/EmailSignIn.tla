----------------------------- MODULE EmailSignIn -----------------------------
(***************************************************************************)
(* Signing in by email, from the form to the session cookie: ConnectModal, *)
(* api/auth/login.ts, the mail, the page app/auth/verify, api/auth/        *)
(* verify.ts, the session of _lib/session.ts and _lib/jwt.ts, me and       *)
(* logout, of one browser.  What the reparation adds to a login is in      *)
(* LegacyReparation; KV reads are exact.                                   *)
(***************************************************************************)
EXTENDS Naturals

CONSTANTS
    Raw,        \* what may be typed as an email and is not blank
    Normal,     \* normalizeEmail: what is typed -> an email, or "invalid"
    Tab,        \* loads of the verify page
    TokenLife, SessionLife,     \* in ticks
    MaxLogins, MaxClock     \* bounds: logins and ticks

ASSUME SignInAssumption ==
    /\ {TokenLife, SessionLife, MaxLogins, MaxClock} \subseteq Nat /\ MaxClock # 0

VARIABLES
    clock,
    modal,      \* the status of ConnectModal and the login it waits for
    logins,     \* requests to /api/auth/login, one token each
    links,      \* MAGIC_LINKS: when each token expires; 0: not there
    inbox,      \* tokens mailed
    tabs,       \* the verify page's loads: the link, whether it was got, what is
                \* shown and since when
    asked,      \* requests to /api/auth/verify
    browserCookie,     \* hitz_session
    home        \* the email /api/auth/me last gave to the app

signInVars == <<clock, modal, logins, links, inbox, tabs, asked, browserCookie, home>>

Link    == 1..MaxLogins
NoCookie == [email |-> "none", exp |-> 0]
NoModal  == [status |-> "idle", login |-> 0]
NoLogin  == [step |-> "none", email |-> "none", until |-> 0]
Closed   == [step |-> "closed", token |-> 0, took |-> FALSE, fired |-> FALSE, effects |-> 0,
             at |-> 0]
Unused   == {t \in Link : logins[t] = NoLogin}

\* call(): a fetch that threw or was not OK gives an error, never an exception.
AnswerOf(ok) == IF ok THEN "ok" ELSE "error"

-----------------------------------------------------------------------------
\* The form.

SubmitEmail(raw) ==
    /\ modal.status \in {"idle", "error"}
    /\ \E t \in Unused :
          /\ \A u \in Unused : t <= u
          /\ logins' = [logins EXCEPT ![t].step = "posted", ![t].email = Normal[raw]]
          /\ modal' = [status |-> "sending", login |-> t]
    /\ UNCHANGED <<clock, links, inbox, tabs, asked, browserCookie, home>>

\* The answer, if the modal that asked is still there.
Told(t, ok) ==
    modal' = IF modal # [status |-> "sending", login |-> t] THEN modal
             ELSE IF AnswerOf(ok) = "ok" THEN [modal EXCEPT !.status = "sent"]
             ELSE [modal EXCEPT !.status = "error"]

CloseModal ==
    /\ modal # NoModal /\ modal' = NoModal     \* also "Use a different email"
    /\ UNCHANGED <<clock, logins, links, inbox, tabs, asked, browserCookie, home>>

-----------------------------------------------------------------------------
\* POST /api/auth/login: the token is stored, mailed, and taken back if sending
\* threw.

LoginAt(t, step) == logins[t].step = step
LoginTo(t, step) == logins' = [logins EXCEPT ![t].step = step]

StoreToken(t) ==
    /\ LoginAt(t, "posted")
    /\ IF logins[t].email = "invalid"
       THEN LoginTo(t, "refused") /\ Told(t, FALSE) /\ UNCHANGED links
       ELSE /\ logins' = [logins EXCEPT ![t].step = "mail", ![t].until = clock + TokenLife]
            /\ links' = [links EXCEPT ![t] = clock + TokenLife] /\ UNCHANGED modal
    /\ UNCHANGED <<clock, inbox, tabs, asked, browserCookie, home>>

AfterBounce == "undo"

\* The mail is accepted and its answer heard, or sendMail throws: the mail was
\* not accepted, or it was and that answer got lost.
MailLink(t) ==
    /\ LoginAt(t, "mail")
    /\ \/ /\ LoginTo(t, "done") /\ inbox' = inbox \cup {t}
          /\ \E answered \in BOOLEAN : Told(t, answered)
       \/ /\ LoginTo(t, AfterBounce) /\ UNCHANGED modal
          /\ inbox' \in {inbox, inbox \cup {t}}
    /\ UNCHANGED <<clock, links, tabs, asked, browserCookie, home>>

TakeTokenBack(t) ==
    /\ LoginAt(t, "undo")
    /\ LoginTo(t, "swallowed") /\ links' = [links EXCEPT ![t] = 0] /\ Told(t, FALSE)
    /\ UNCHANGED <<clock, inbox, tabs, asked, browserCookie, home>>

\* The worker dies, KV fails, or the answer is lost: the handler ends here.
LoginFault(t) ==
    /\ logins[t].step \in {"posted", "mail", "undo"}
    /\ LoginTo(t, "faulted") /\ Told(t, FALSE)
    /\ UNCHANGED <<clock, links, inbox, tabs, asked, browserCookie, home>>

-----------------------------------------------------------------------------
\* The verify page and GET /api/auth/verify.

OpenLink(tab, t) ==
    /\ tabs[tab] = Closed /\ t \in inbox
    /\ tabs' = [tabs EXCEPT ![tab].token = t, ![tab].step = "verifying"]
    /\ UNCHANGED <<clock, modal, logins, links, inbox, asked, browserCookie, home>>

\* Mutant: no firedRef.
AlwaysRuns(tab) == TRUE

MayFire(tab) == ~tabs[tab].fired

\* StrictMode runs the effect of a mount twice.
RunEffect(tab) ==
    /\ tabs[tab] # Closed /\ tabs[tab].effects < 2
    /\ tabs' = [tabs EXCEPT ![tab].fired = TRUE, ![tab].effects = @ + 1]
    /\ asked' = IF MayFire(tab)
                THEN asked \cup {[tab |-> tab, nr |-> tabs[tab].effects, step |-> "get", exp |-> 0]}
                ELSE asked
    /\ UNCHANGED <<clock, modal, logins, links, inbox, browserCookie, home>>

StepTo(q, step) == asked' = (asked \ {q}) \cup {[q EXCEPT !.step = step]}
Display(tab, what)  == tabs' = [tabs EXCEPT ![tab].step = what, ![tab].at = clock]
Live(t)          == links[t] > 0 /\ clock < links[t]

GetLink(q) ==
    /\ q.step = "get"
    /\ IF Live(tabs[q.tab].token)
       THEN StepTo(q, "delete") /\ tabs' = [tabs EXCEPT ![q.tab].took = TRUE]
       ELSE asked' = asked \ {q} /\ Display(q.tab, "refused")
    /\ UNCHANGED <<clock, modal, logins, links, inbox, browserCookie, home>>

\* The session's end is fixed here, before the redemption that may take long.
DeleteLink(q) ==
    /\ q.step = "delete"
    /\ asked' = (asked \ {q}) \cup {[q EXCEPT !.step = "answer", !.exp = clock + SessionLife]}
    /\ links' = [links EXCEPT ![tabs[q.tab].token] = 0]
    /\ UNCHANGED <<clock, modal, logins, inbox, tabs, browserCookie, home>>

SignSession(email, exp) == [email |-> email, exp |-> exp]

\* The session is signed and set with the answer; a page that succeeds leaves.
AnswerVerify(q) ==
    /\ q.step = "answer" /\ asked' = asked \ {q}
    /\ browserCookie' = SignSession(logins[tabs[q.tab].token].email, q.exp)
    /\ Display(q.tab, "success")
    /\ UNCHANGED <<clock, modal, logins, links, inbox, home>>

VerifyFault(q) ==
    /\ asked' = asked \ {q} /\ Display(q.tab, "failed")
    /\ UNCHANGED <<clock, modal, logins, links, inbox, browserCookie, home>>

-----------------------------------------------------------------------------
\* The session.

\* A cookie that is there and not expired; its age outlasts its exp.
VerifySession(c) == IF c.exp >= clock THEN c.email ELSE "none"
ReadSession      == VerifySession(browserCookie)

Me ==
    /\ home # ReadSession /\ home' = ReadSession
    /\ UNCHANGED <<clock, modal, logins, links, inbox, tabs, asked, browserCookie>>

Logout ==
    /\ home # "none" /\ home' = "none" /\ browserCookie' = NoCookie
    /\ UNCHANGED <<clock, modal, logins, links, inbox, tabs, asked>>

TimePasses ==
    /\ clock < MaxClock /\ clock' = clock + 1
    /\ UNCHANGED <<modal, logins, links, inbox, tabs, asked, browserCookie, home>>

-----------------------------------------------------------------------------
SignInInit ==
    /\ clock = 1 /\ modal = NoModal /\ inbox = {} /\ asked = {}
    /\ logins = [t \in Link |-> NoLogin] /\ links = [t \in Link |-> 0]
    /\ tabs = [tab \in Tab |-> Closed] /\ browserCookie = NoCookie /\ home = "none"

SignInNext ==
    \/ \E raw \in Raw : SubmitEmail(raw)
    \/ \E t \in Link : StoreToken(t) \/ MailLink(t) \/ TakeTokenBack(t) \/ LoginFault(t)
    \/ \E tab \in Tab : RunEffect(tab) \/ \E t \in Link : OpenLink(tab, t)
    \/ \E q \in asked : GetLink(q) \/ DeleteLink(q) \/ AnswerVerify(q) \/ VerifyFault(q)
    \/ CloseModal \/ Me \/ Logout \/ TimePasses

SignInSpec == SignInInit /\ [][SignInNext]_signInVars

SignInTypeOK ==
    /\ modal.status \in {"idle", "sending", "sent", "error"} /\ inbox \subseteq Link
    /\ links \in [Link -> 0..(MaxClock + TokenLife)] /\ clock \in 1..MaxClock

\* login.ts:58-61, "no dead tokens sitting in KV": a token that would still be
\* accepted was mailed or is about to be, unless its handler died on the way.
NoDeadTokens ==
    \A t \in Link : Live(t) =>
        t \in inbox \/ logins[t].step \in {"mail", "undo", "faulted"}

\* page.tsx:48-50, "so StrictMode's double-invoke doesn't burn the single-use
\* token".  A page that says its link is expired or used did not use it up
\* itself: its time was over, another load of the page had got the token, or
\* login had taken it back.
RefusalsAreTrue ==
    \A tab \in Tab : tabs[tab].step = "refused" =>
        LET t == tabs[tab].token IN
        \/ tabs[tab].at >= logins[t].until
        \/ \E other \in Tab \ {tab} : tabs[other].token = t /\ tabs[other].took
        \/ logins[t].step = "swallowed"

\* No token is left behind that nobody was sent, and a link is over for one of
\* three reasons only: time, another load of the page, or a login that took it
\* back.  The last may be of a link the user holds: OnlyUndeliveredSwallowed.
LinksAreTrue == SignInTypeOK /\ NoDeadTokens /\ RefusalsAreTrue

\* login.ts:60-61, "Swallow the original token if we couldn't deliver": a token
\* taken back was not delivered.  Not so: sendMail also throws when the answer
\* to a mail that was accepted is lost, and the link the user then holds is
\* called expired or already used.
OnlyUndeliveredSwallowed ==
    \A t \in Link : logins[t].step = "swallowed" => t \notin inbox
=============================================================================
