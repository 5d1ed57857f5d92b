----------------------------- MODULE BalanceAlert -----------------------------
(***************************************************************************)
(* The sponsor's low-balance alert, maybeAlertLowBalance of functions/     *)
(* _lib/reparation.ts.  Every redeemed claim starts one in the background. *)
(* A key in KV keeps the alert quiet for a day; it is read and written in  *)
(* two calls, and dropped again when the mail fails.                       *)
(***************************************************************************)
EXTENDS Naturals

CONSTANT Claim      \* claims whose background work may overlap

VARIABLES
    alert,      \* where each claim's alert stands
    low,        \* the sponsor's balance is below the threshold
    quiet,      \* MAGIC_LINKS["alert:low_balance"] is there
    heard,      \* an alert was mailed since the key was last absent
    unheard     \* one died, or failed to write the key, since then

alertVars == <<alert, low, quiet, heard, unheard>>

AlertAt(c, from, to) == alert[c] = from /\ alert' = [alert EXCEPT ![c] = to]

\* ctx.waitUntil after a redemption.
RedeemClaim(c) ==
    AlertAt(c, "none", "balance") /\ UNCHANGED <<low, quiet, heard, unheard>>

\* A failed read ends it, as a sufficient balance does.
ReadSponsorBalance(c) ==
    /\ \/ low /\ AlertAt(c, "balance", "check")
       \/ AlertAt(c, "balance", "none")
    /\ UNCHANGED <<low, quiet, heard, unheard>>

CheckQuiet(c) ==
    /\ \/ ~quiet /\ AlertAt(c, "check", "set")
       \/ AlertAt(c, "check", "none")
    /\ UNCHANGED <<low, quiet, heard, unheard>>

\* The key is set before the mail goes out; a failed put ends it, and may
\* still have set the key.
SetQuiet(c) ==
    /\ \/ AlertAt(c, "set", "mail") /\ quiet' = TRUE /\ UNCHANGED unheard
       \/ AlertAt(c, "set", "none") /\ UNCHANGED <<quiet, unheard>>
       \/ AlertAt(c, "set", "none") /\ quiet' = TRUE /\ unheard' = TRUE
    /\ UNCHANGED <<low, heard>>

\* Mutant: a failed mail is only logged.
LogFailure == "none"

\* What follows a mail that failed.
AfterFailedMail == "drop"

SendAlert(c) ==
    /\ \/ AlertAt(c, "mail", "none") /\ heard' = quiet
       \/ AlertAt(c, "mail", AfterFailedMail) /\ UNCHANGED heard
    /\ UNCHANGED <<low, quiet, unheard>>

KeyGone == quiet' = FALSE /\ heard' = FALSE /\ unheard' = FALSE

\* The delete's own failure is swallowed.
DropQuiet(c) ==
    /\ AlertAt(c, "drop", "none")
    /\ KeyGone \/ (unheard' = quiet /\ UNCHANGED <<quiet, heard>>)
    /\ UNCHANGED low

\* The worker is gone.
LoseAlert(c) ==
    /\ alert[c] # "none" /\ AlertAt(c, alert[c], "none")
    /\ unheard' = (unheard \/ (quiet /\ alert[c] \in {"mail", "drop"}))
    /\ UNCHANGED <<low, quiet, heard>>

\* A day after the key was written, no alert of then is still under way.
QuietExpires ==
    /\ quiet /\ \A c \in Claim : alert[c] \notin {"mail", "drop"}
    /\ KeyGone /\ UNCHANGED <<alert, low>>

\* The operator tops the account up, or claims use it up.
BalanceMoves == low' = ~low /\ UNCHANGED <<alert, quiet, heard, unheard>>

AlertInit ==
    /\ alert = [c \in Claim |-> "none"]
    /\ low \in BOOLEAN /\ quiet = FALSE /\ heard = FALSE /\ unheard = FALSE

AlertNext ==
    \/ \E c \in Claim :
          \/ RedeemClaim(c) \/ ReadSponsorBalance(c) \/ CheckQuiet(c) \/ SetQuiet(c)
          \/ SendAlert(c) \/ DropQuiet(c) \/ LoseAlert(c)
    \/ QuietExpires \/ BalanceMoves

AlertSpec == AlertInit /\ [][AlertNext]_alertVars

AlertTypeOK ==
    /\ alert \in [Claim -> {"none", "balance", "check", "set", "mail", "drop"}]
    /\ {low, quiet, heard, unheard} \subseteq BOOLEAN

\* reparation.ts:364-366, "we'd rather over-notify than silently suppress the
\* alert".  While the key keeps alerts quiet, one was mailed or is on its way,
\* whichever claims set and drop the key across each other; only a worker that
\* dies between the two, or a write to KV that fails, leaves silence behind.
QuietAfterAlert ==
    quiet /\ ~unheard => heard \/ \E c \in Claim : alert[c] \in {"mail", "drop"}
=============================================================================
