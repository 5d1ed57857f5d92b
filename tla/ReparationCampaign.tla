-------------------------- MODULE ReparationCampaign --------------------------
(***************************************************************************)
(* The operator's campaign, scripts/send-legacy-reparation.mjs: a file of  *)
(* rows, worked one after the other.  A row with an email is posted to the *)
(* admin endpoint, one without is paid from the sponsor's account, HITZ    *)
(* first, then XLM.  The gateway spends the same account meanwhile, an     *)
(* answer may be lost, and what the script gave up on may still land.  The *)
(* operator runs the script again on the same file.                        *)
(***************************************************************************)
EXTENDS Integers, Sequences

CONSTANTS
    Files,          \* campaigns: sequences of rows [to, hitz, xlm]
    Modes,          \* flags of a run, [dryRun, skipOnchain]
    MaxRuns,        \* bound: runs of the script
    MaxForeign      \* bound: transactions of the gateway on the same account

\* A row as parsed: an amount is a number above zero, zero, or no number.
CampaignRow ==
    LET amount == {"some", "none", "bad"}
    IN  [to : {"email", "account", "invalid"}, hitz : amount, xlm : amount]

\* A file without rows ends before the loop.
ASSUME CampaignAssumption ==
    /\ \A file \in Files : file \in Seq(CampaignRow) /\ file # <<>>
    /\ Modes \subseteq [dryRun : BOOLEAN, skipOnchain : BOOLEAN]
    /\ MaxRuns \in Nat /\ MaxForeign \in Nat

VARIABLES
    campaign,   \* the rows of the file
    script,     \* the run: its flags, the row it is at and where, its counters
    existing,   \* rows whose public key has an account
    mailed,     \* rows the admin endpoint recorded and mailed, by run
    account,    \* the sponsor's: sequence on chain, transactions sent, transactions landed
    foreign     \* transactions of the gateway so far

campaignVars == <<campaign, script, existing, mailed, account, foreign>>

AtFirstRow(run, mode) ==
    [run |-> run, mode |-> mode, row |-> 1, pc |-> "row", leg |-> "hitz", seq |-> 0,
     failed |-> 0, missing |-> {}, exit |-> "none"]

NotStarted ==
    [AtFirstRow(0, [dryRun |-> FALSE, skipOnchain |-> FALSE]) EXCEPT !.pc = "stopped"]

ThisRow == campaign[script.row]

-----------------------------------------------------------------------------
\* The loop.

RunScript ==
    /\ script.pc = "stopped" /\ script.run < MaxRuns
    /\ \E mode \in Modes : script' = AtFirstRow(script.run + 1, mode)
    /\ UNCHANGED <<campaign, existing, mailed, account, foreign>>

\* On to the next row, or to the exit code.
NextRow(s) ==
    IF s.row < Len(campaign)
    THEN [s EXCEPT !.leg = "hitz", !.seq = 0, !.row = @ + 1, !.pc = "row"]
    ELSE [s EXCEPT !.leg = "hitz", !.seq = 0, !.pc = "stopped",
                   !.exit = IF s.failed > 0 THEN "failed" ELSE "clean"]

RowDone   == script' = NextRow(script)
RowFailed == script' = NextRow([script EXCEPT !.failed = @ + 1])

\* parseHitz throws on what is no number; zero is "none".
NoNumber(amount) == amount = "bad"

\* The post may be refused, it may fail after the mail went out, or its answer
\* may be lost.
SendEmail ==
    \/ script.mode.dryRun /\ RowDone /\ UNCHANGED mailed
    \/ /\ ~script.mode.dryRun
       /\ mailed' = mailed \cup {<<script.run, script.row>>}
       /\ RowDone \/ RowFailed
    \/ ~script.mode.dryRun /\ RowFailed /\ UNCHANGED mailed

\* A row with an email.  A zero amount is skipped, a zero XLM amount not sent.
EmailRow ==
    /\ script.pc = "row" /\ ThisRow.to = "email"
    /\ CASE ThisRow.hitz = "none" -> RowDone /\ UNCHANGED mailed
         [] NoNumber(ThisRow.hitz) \/ NoNumber(ThisRow.xlm) -> RowFailed /\ UNCHANGED mailed
         [] OTHER -> SendEmail
    /\ UNCHANGED <<campaign, existing, account, foreign>>

AccountExists == script.row \in existing

\* A row without.  The account's existence is read before the amount; either
\* may throw.
AccountRow ==
    /\ script.pc = "row" /\ ThisRow.to # "email"
    /\ IF script.mode.skipOnchain \/ ThisRow.to = "invalid" THEN RowDone
       ELSE \/ RowFailed
            \/ IF ~AccountExists
               THEN script' = NextRow([script EXCEPT !.missing = @ \cup {script.row}])
               ELSE CASE ThisRow.hitz = "none" -> RowDone
                      [] NoNumber(ThisRow.hitz) -> RowFailed
                      [] OTHER -> script' = [script EXCEPT !.pc = "load"]
    /\ UNCHANGED <<campaign, existing, mailed, account, foreign>>

-----------------------------------------------------------------------------
\* transferHitz and sendXlm.

\* The HITZ amount was parsed before, the XLM amount is parsed only now: one
\* that is no number fails the row with its HITZ sent.
LegPaid ==
    IF script.leg = "xlm" \/ ThisRow.xlm = "none" THEN RowDone
    ELSE IF NoNumber(ThisRow.xlm) THEN RowFailed
    ELSE script' = [script EXCEPT !.leg = "xlm", !.pc = "load"]

LoadSponsorSequence ==
    /\ script.pc = "load"
    /\ IF script.mode.dryRun THEN LegPaid
       ELSE script' = [script EXCEPT !.pc = "send", !.seq = account.sequence + 1]
    /\ UNCHANGED <<campaign, existing, mailed, account, foreign>>

Payment == [run |-> script.run, row |-> script.row, leg |-> script.leg, seq |-> script.seq]

\* sendTransaction takes a transaction whose sequence number is still ahead,
\* and its answer may be lost.  One that it puts off for later is polled for
\* as if it had been taken.
SendPayment ==
    /\ script.pc = "send"
    /\ \/ /\ script.seq > account.sequence
          /\ account' = [account EXCEPT !.sent = @ \cup {Payment}]
          /\ script' = [script EXCEPT !.pc = "poll"] \/ RowFailed
       \/ /\ script' = [script EXCEPT !.pc = "poll"] \/ RowFailed
          /\ UNCHANGED account
    /\ UNCHANGED <<campaign, existing, mailed, foreign>>

AwaitPayment ==
    /\ script.pc = "poll"
    /\ Payment \in account.landed
    /\ LegPaid
    /\ UNCHANGED <<campaign, existing, mailed, account, foreign>>

\* Mutant: after the last try the loop is left as after a success.
LeaveAsPaid == LegPaid

\* FAILED, or forty tries without an answer.
GiveUpPayment == RowFailed

PaymentTimesOut ==
    /\ script.pc = "poll"
    /\ Payment \notin account.landed
    /\ GiveUpPayment
    /\ UNCHANGED <<campaign, existing, mailed, account, foreign>>

\* An RPC call throws, or simulation refuses the transfer.
PaymentThrows ==
    /\ script.pc \in {"load", "poll"} /\ ~script.mode.dryRun
    /\ RowFailed
    /\ UNCHANGED <<campaign, existing, mailed, account, foreign>>

\* The operator's machine stops; the exit code is lost.
Interrupt ==
    /\ script.pc # "stopped"
    /\ script' = [script EXCEPT !.pc = "stopped", !.exit = "none"]
    /\ UNCHANGED <<campaign, existing, mailed, account, foreign>>

-----------------------------------------------------------------------------
\* The chain (external).

UseSequence(a) ==
    [sequence |-> a.sequence + 1, sent |-> {t \in a.sent : t.seq > a.sequence + 1},
     landed |-> a.landed]

\* A payment lands, or fails and uses its sequence number up.
LandPayment ==
    /\ \E t \in account.sent :
          /\ t.seq = account.sequence + 1
          /\ LET used == UseSequence(account)
             IN  account' \in {used, [used EXCEPT !.landed = @ \cup {t}]}
    /\ UNCHANGED <<campaign, script, existing, mailed, foreign>>

\* The gateway pays something from the same account.
ForeignPayment ==
    /\ foreign < MaxForeign
    /\ foreign' = foreign + 1
    /\ account' = UseSequence(account)
    /\ UNCHANGED <<campaign, script, existing, mailed>>

OpenAccount ==
    /\ \E i \in DOMAIN campaign \ existing : existing' = existing \cup {i}
    /\ UNCHANGED <<campaign, script, mailed, account, foreign>>

-----------------------------------------------------------------------------
CampaignInit ==
    /\ campaign \in Files
    /\ script = NotStarted
    /\ existing \in {{}, DOMAIN campaign}
    /\ mailed = {} /\ foreign = 0
    /\ account = [sequence |-> 0, sent |-> {}, landed |-> {}]

CampaignNext ==
    \/ RunScript \/ EmailRow \/ AccountRow
    \/ LoadSponsorSequence \/ SendPayment \/ AwaitPayment \/ PaymentTimesOut \/ PaymentThrows
    \/ Interrupt
    \/ LandPayment \/ ForeignPayment \/ OpenAccount

CampaignSpec == CampaignInit /\ [][CampaignNext]_campaignVars

-----------------------------------------------------------------------------
LandedLegs(run, row, leg) ==
    {t \in account.landed : t.run = run /\ t.row = row /\ t.leg = leg}

\* Row i needs nothing more from this run.
Served(i) ==
    LET row == campaign[i] IN
    row.hitz # "none" =>
        IF row.to = "email" THEN <<script.run, i>> \in mailed
        ELSE \/ row.to = "invalid" \/ script.mode.skipOnchain \/ i \in script.missing
             \/ /\ LandedLegs(script.run, i, "hitz") # {}
                /\ row.xlm # "none" => LandedLegs(script.run, i, "xlm") # {}

\* main's exit code.  When a live run ends clean, every row with an amount has
\* been served by that run: mailed, or paid in both currencies, unless it was
\* to be skipped; whatever the gateway did to the sequence number meanwhile,
\* and however late the answers came.
CleanExitServesAll ==
    script.exit = "clean" /\ ~script.mode.dryRun => \A i \in DOMAIN campaign : Served(i)

\* send-legacy-reparation.mjs:399-402.  No XLM leg lands without the HITZ leg
\* of the same run and row before it: what an interrupted or failed row still
\* owes is never the HITZ, whichever of two runs' transactions took a sequence
\* number.
XlmFollowsHitz ==
    \A t \in account.landed : t.leg = "xlm" => LandedLegs(t.run, t.row, "hitz") # {}

\* What the operator concludes from a run's exit code and from an interrupted
\* row: the first says that everybody was served, the second that the HITZ went
\* out before the XLM.
CampaignIsSound == CleanExitServesAll /\ XlmFollowsHitz
=============================================================================
