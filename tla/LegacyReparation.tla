-------------------------- MODULE LegacyReparation --------------------------
(***************************************************************************)
(* Magic links and the redemption of legacy reparations, for one email:    *)
(* frontend/functions/api/auth/verify.ts, api/auth/login.ts,               *)
(* api/admin/legacy-reparation.ts, _lib/reparation.ts and the sponsor      *)
(* payments of _lib/stellar.ts.                                            *)
(*                                                                         *)
(* Each request runs in a worker of its own.  Between two awaits it is     *)
(* atomic; at every await (a KV access, an RPC) other requests run, the    *)
(* await may throw, and the worker may be gone.  KV is read and written as *)
(* one consistent store, and a KV write that throws has not happened (the  *)
(* weaker guarantees of Workers KV would only add behaviours).             *)
(*                                                                         *)
(* Abstracted: amounts, keys, cookies, mail texts, and the notifications   *)
(* after a claim.  The bootstrap transactions, restores and everything     *)
(* else that spends the shared sponsor account are SponsorTraffic.         *)
(***************************************************************************)
EXTENDS Naturals, FiniteSets

CONSTANTS
    Call,           \* verify requests
    Token,          \* magic-link tokens; one is fresh when nobody carries it
    None,           \* nothing
    MaxPosts,       \* bound: campaign posts for this email
    MaxTraffic      \* bound: sponsor transactions of other requests

ASSUME BoundAssumption == MaxPosts \in Nat /\ MaxTraffic \in Nat

VARIABLES
    live,               \* tokens present in KV
    record,             \* MAGIC_LINKS["reparation:<email>"], or None
    posts,              \* campaign posts so far
    pc, link,           \* per request: where it awaits, the token it carries
    copy, paid, tx,     \* its locals: record, {hitz,xlm}TxHash, the payment
    sequence,           \* sequence number of the sponsor account on chain
    inFlight, landed,   \* payments that may still land, payments that did
    traffic,            \* SponsorTraffic so far
    overlapped, lost    \* history, see below

store    == <<record, posts>>
locals   == <<link, copy, paid, tx>>
chain    == <<sequence, inFlight, landed, traffic>>
history  == <<overlapped, lost>>
vars     == <<live, store, pc, locals, chain, history>>

Leg == {"hitz", "xlm"}
Nothing == [l \in Leg |-> None]

\* A payment is its transaction, by the request that was first to build it.
Tx == [leg : Leg, seq : Nat, by : Call]

ASSUME NoneAssumption == None \notin Tx

\* Requests inside redeemPendingReparation.
Redeeming == {"prepare", "load", "submit", "poll", "persist", "finish", "catch"}

-----------------------------------------------------------------------------
\* Links and the campaign.

\* putPendingReparation
FreshRecord(xlm) ==
    [status |-> "pending", xlm |-> xlm, paid |-> Nothing]

Fresh(t) == t \notin live /\ \A c \in Call : link[c] # t

\* POST /api/auth/login whose mail goes out: only then is the token known.
Login(t) ==
    /\ Fresh(t)
    /\ live' = live \cup {t}
    /\ UNCHANGED <<store, pc, locals, chain, history>>

\* POST /api/admin/legacy-reparation.  If the mail fails the token is rolled
\* back, the record stays.
PostReparation(t, xlm) ==
    /\ posts < MaxPosts
    /\ Fresh(t)
    /\ live' \in {live, live \cup {t}}
    /\ record' = FreshRecord(xlm)
    /\ posts' = posts + 1
    /\ UNCHANGED <<pc, locals, chain, history>>

\* A link or the record outlives its TTL.
Expire(t) ==
    /\ t \in live
    /\ live' = live \ {t}
    /\ UNCHANGED <<store, pc, locals, chain, history>>

\* A year after its last write, so never within the seconds of a redemption.
ExpireReparation ==
    /\ record # None
    /\ \A c \in Call : pc[c] \notin Redeeming
    /\ record' = None
    /\ UNCHANGED <<live, posts, pc, locals, chain, history>>

-----------------------------------------------------------------------------
\* GET /api/auth/verify: the token.

Goto(c, label) == pc' = [pc EXCEPT ![c] = label]

\* The request is answered or gone, and its locals with it.
End(c) ==
    /\ Goto(c, "done")
    /\ link' = [link EXCEPT ![c] = None]
    /\ copy' = [copy EXCEPT ![c] = None]
    /\ paid' = [paid EXCEPT ![c] = Nothing]
    /\ tx' = [tx EXCEPT ![c] = None]

\* MAGIC_LINKS.get(token)
LookUp(c, t) ==
    /\ pc[c] = "idle"
    /\ \/ /\ t \in live
          /\ link' = [link EXCEPT ![c] = t]
          /\ Goto(c, "delete")
          /\ UNCHANGED <<copy, paid, tx>>
       \/ t \notin live /\ End(c)
    /\ UNCHANGED <<live, store, chain, history>>

\* MAGIC_LINKS.delete(token); from here on the request gets a session.
Consume(c) ==
    /\ pc[c] = "delete"
    /\ live' = live \ {link[c]}
    /\ Goto(c, "read")
    /\ UNCHANGED <<store, locals, chain, history>>

-----------------------------------------------------------------------------
\* redeemPendingReparation.

\* Mutant: redeemed records are eligible too.
EligibleAlways == record # None

Eligible == record # None /\ record.status # "redeemed"

ReadReparation(c) ==
    /\ pc[c] = "read"
    /\ \/ /\ Eligible
          /\ copy' = [copy EXCEPT ![c] = record]
          /\ paid' = [paid EXCEPT ![c] = record.paid]
          /\ Goto(c, "prepare")
          /\ overlapped' = (overlapped \/ \E d \in Call : pc[d] \in Redeeming)
          /\ UNCHANGED <<link, tx>>
       \/ ~Eligible /\ End(c) /\ UNCHANGED overlapped
    /\ UNCHANGED <<live, store, chain, lost>>

\* Legs still to be paid, given what the request knows to be paid.
Unpaid(c, done) ==
    {l \in Leg : done[l] = None /\ (l = "xlm" => copy[c].xlm)}

\* HITZ first, then XLM, then the final write.
AfterPaying(c, done) == IF Unpaid(c, done) = {} THEN "finish" ELSE "load"

\* ensureBootstrappedWithUsdcTrustline
Bootstrap(c) ==
    /\ pc[c] = "prepare"
    /\ Goto(c, AfterPaying(c, paid[c]))
    /\ UNCHANGED <<live, store, locals, chain, history>>

NextLeg(c) == IF "hitz" \in Unpaid(c, paid[c]) THEN "hitz" ELSE "xlm"

\* What a request can build on the sponsor's sequence number: a transaction of
\* its own, or, in the second in which another request built the same payment,
\* that very transaction, time bounds and hash included.
Buildable(c) ==
    LET own == [leg |-> NextLeg(c), seq |-> sequence + 1, by |-> c]
        built == inFlight \cup ({tx[d] : d \in Call} \ {None})
    IN  {own} \cup {u \in built : u.leg = own.leg /\ u.seq = own.seq}

\* The sponsor's sequence number is fetched and the payment built on it.
LoadSponsor(c) ==
    /\ pc[c] = "load"
    /\ \E u \in Buildable(c) : tx' = [tx EXCEPT ![c] = u]
    /\ Goto(c, "submit")
    /\ UNCHANGED <<live, store, link, copy, paid, chain, history>>

\* What sendTransaction can leave behind, whatever it answers: a transaction
\* whose sequence number is still ahead may or may not have been taken in.
SentBy(c) ==
    {inFlight} \cup
    (IF tx[c].seq > sequence THEN {inFlight \cup {tx[c]}} ELSE {})

\* PENDING, DUPLICATE and TRY_AGAIN_LATER all go on to poll.
Submit(c) ==
    /\ pc[c] = "submit"
    /\ inFlight' \in SentBy(c)
    /\ Goto(c, "poll")
    /\ UNCHANGED <<live, store, locals, sequence, landed, traffic, history>>

\* ERROR, or the RPC call itself fails.
SubmitThrows(c) ==
    /\ pc[c] = "submit"
    /\ inFlight' \in SentBy(c)
    /\ Goto(c, "catch")
    /\ lost' = (lost \/ tx[c] \in inFlight' \cup landed)
    /\ UNCHANGED <<live, store, locals, sequence, landed, traffic, overlapped>>

PollSucceeds(c) ==
    /\ pc[c] = "poll"
    /\ tx[c] \in landed
    /\ paid' = [paid EXCEPT ![c][tx[c].leg] = tx[c]]
    /\ Goto(c, IF tx[c].leg = "hitz" THEN "persist" ELSE "finish")
    /\ UNCHANGED <<live, store, link, copy, tx, chain, history>>

\* Mutant: pollForSuccess has no last try.
PollThrowsWhileInFlight(c) ==
    /\ pc[c] = "poll"
    /\ tx[c] \in inFlight
    /\ Goto(c, "catch")
    /\ lost' = TRUE
    /\ UNCHANGED <<live, store, locals, chain, overlapped>>

\* FAILED, 40 tries without an answer, or the RPC call itself fails.
PollThrows(c) ==
    /\ pc[c] = "poll"
    /\ Goto(c, "catch")
    /\ lost' = (lost \/ tx[c] \in inFlight \cup landed)
    /\ UNCHANGED <<live, store, locals, chain, overlapped>>

\* The HITZ hash is written before the XLM leg.
Persist(c) ==
    /\ pc[c] = "persist"
    /\ record' = [copy[c] EXCEPT !.paid["hitz"] = paid[c]["hitz"]]
    /\ Goto(c, AfterPaying(c, paid[c]))
    /\ UNCHANGED <<live, posts, locals, chain, history>>

MarkRedeemed(c) ==
    /\ pc[c] = "finish"
    /\ record' = [copy[c] EXCEPT !.status = "redeemed", !.paid = paid[c]]
    /\ End(c)
    /\ UNCHANGED <<live, posts, chain, history>>

\* An await before a payment, or a KV write after one, throws.
Throw(c) ==
    /\ pc[c] \in {"prepare", "load", "persist", "finish"}
    /\ Goto(c, "catch")
    /\ UNCHANGED <<live, store, locals, chain, history>>

\* Mutant: the failed record forgets the legs this request paid.
FailedWithoutProgress(c) == [copy[c] EXCEPT !.status = "failed"]

FailedRecord(c) == [copy[c] EXCEPT !.status = "failed", !.paid = paid[c]]

MarkFailed(c) ==
    /\ pc[c] = "catch"
    /\ record' = FailedRecord(c)
    /\ End(c)
    /\ UNCHANGED <<live, posts, chain, history>>

\* A payment of this request that is, or may come to be, on chain and that
\* the record does not know.
Unrecorded(c) ==
    /\ pc[c] \in {"poll", "persist", "finish", "catch"}
    /\ tx[c] \in inFlight \cup landed
    /\ record # None => \A l \in Leg : record.paid[l] # tx[c]

\* The request ends without its last write: that write throws too, or the
\* worker is gone.
Vanish(c) ==
    /\ pc[c] \in {"delete", "read"} \cup Redeeming
    /\ End(c)
    /\ lost' = (lost \/ Unrecorded(c))
    /\ UNCHANGED <<live, store, chain, overlapped>>

-----------------------------------------------------------------------------
\* The sponsor account on chain: transactions land in sequence order.

\* The sequence number is used up, and with it every transaction built on it.
Advance ==
    /\ sequence' = sequence + 1
    /\ inFlight' = {u \in inFlight : u.seq > sequence + 1}

\* Lands, successfully or (paying nothing) not.
Land(t) ==
    /\ t.seq = sequence + 1
    /\ Advance
    /\ landed' \in {landed, landed \cup {t}}
    /\ UNCHANGED <<live, store, pc, locals, traffic, history>>

\* Evicted, or past its time bounds.
Drop(t) ==
    /\ inFlight' = inFlight \ {t}
    /\ UNCHANGED <<live, store, pc, locals, sequence, landed, traffic, history>>

SponsorTraffic ==
    /\ traffic < MaxTraffic
    /\ traffic' = traffic + 1
    /\ Advance
    /\ UNCHANGED <<live, store, pc, locals, landed, history>>

-----------------------------------------------------------------------------

Init ==
    /\ live = {}
    /\ record = None /\ posts = 0
    /\ pc = [c \in Call |-> "idle"]
    /\ link = [c \in Call |-> None]
    /\ copy = [c \in Call |-> None]
    /\ paid = [c \in Call |-> Nothing]
    /\ tx = [c \in Call |-> None]
    /\ sequence = 0 /\ inFlight = {} /\ landed = {} /\ traffic = 0
    /\ overlapped = FALSE /\ lost = FALSE

\* What the code of a request does once it has begun.
Proceed(c) ==
    \/ Consume(c) \/ ReadReparation(c) \/ Bootstrap(c)
    \/ LoadSponsor(c)
    \/ Submit(c) \/ SubmitThrows(c) \/ PollSucceeds(c) \/ PollThrows(c)
    \/ Persist(c) \/ MarkRedeemed(c) \/ Throw(c) \/ MarkFailed(c)

Next ==
    \/ \E t \in Token : Login(t) \/ Expire(t)
    \/ \E t \in Token, xlm \in BOOLEAN : PostReparation(t, xlm)
    \/ ExpireReparation
    \/ \E c \in Call, t \in Token : LookUp(c, t)
    \/ \E c \in Call : Proceed(c) \/ Vanish(c)
    \/ \E t \in inFlight : Land(t) \/ Drop(t)
    \/ SponsorTraffic

\* Every await settles: KV and RPC calls answer or throw, and polling stops
\* after 40 tries.  Nothing is assumed of the links, the network or the loss
\* of a worker.
Fairness == \A c \in Call : WF_vars(Proceed(c))

Spec == Init /\ [][Next]_vars /\ Fairness

-----------------------------------------------------------------------------
(***************************************************************************)
(* Correctness.  overlapped: two redemptions were under way at once; lost: *)
(* a request ended without knowing, or without recording, a payment that   *)
(* had landed or still could.                                              *)
(***************************************************************************)

Record == [status : {"pending", "redeemed", "failed"}, xlm : BOOLEAN,
           paid : [Leg -> Tx \cup {None}]]

\* Records and locals keep the shape the code reads (part of MarkersAreTrue).
TypeOK ==
    /\ live \subseteq Token
    /\ record \in Record \cup {None}
    /\ pc \in [Call -> {"idle", "delete", "read", "done"} \cup Redeeming]
    /\ link \in [Call -> Token \cup {None}]
    /\ copy \in [Call -> Record \cup {None}]
    /\ paid \in [Call -> [Leg -> Tx \cup {None}]]
    /\ tx \in [Call -> Tx \cup {None}]
    /\ posts \in Nat /\ sequence \in Nat /\ traffic \in Nat
    /\ inFlight \subseteq Tx /\ landed \subseteq Tx
    /\ overlapped \in BOOLEAN /\ lost \in BOOLEAN

\* Each campaign post is paid at most once per leg.
PaidOnce == \A l \in Leg : Cardinality({t \in landed : t.leg = l}) <= posts

\* Retries, however they failed before, pay once, as long as redemptions do
\* not overlap and no payment's outcome is lost.
UndisturbedPaysOnce == ~overlapped /\ ~lost => PaidOnce

\* A hash in the record is a payment that landed, for its own leg, and a
\* redeemed record has all its legs: even with overlapping requests and lost
\* answers nobody is told of a payment that was not made.
MarkersAreTrue ==
    /\ TypeOK
    /\ record # None =>
        /\ \A l \in Leg : record.paid[l] # None =>
               record.paid[l] \in landed /\ record.paid[l].leg = l
        /\ record.status = "redeemed" =>
               \A l \in Leg : (l = "xlm" => record.xlm) => record.paid[l] # None

\* What the record says was done stays said, a leg's hash and the status
\* redeemed, until the record expires or a new campaign post replaces it.
ProgressKept ==
    \/ record' = None \/ posts' > posts
    \/ /\ \A l \in Leg : record.paid[l] # None => record'.paid[l] = record.paid[l]
       /\ record.status = "redeemed" => record' = record

\* A request goes on that read the record before another one changed it.
StaleCopyAtWork ==
    overlapped /\ \E c \in Call : pc[c] \in Redeeming /\ pc'[c] # pc[c] /\ copy[c] # record

\* No request takes back the progress the record shows, however it fails:
\* only one can that overlaps another and writes from the copy it read before.
ProgressStays == [][record # None => ProgressKept \/ StaleCopyAtWork]_vars

\* Every request comes to an end, whatever is lost on the way.
RequestsEnd == \A c \in Call : pc[c] # "idle" ~> pc[c] = "done"

\* reparation.ts:33-37: of two concurrent calls the loser bails out before a
\* second transfer.
ConcurrentCallsPayOnce == ~lost => PaidOnce

\* reparation.ts:24-27: a retry pays only the unfinished legs.
RetriesPayOnce == ~overlapped => PaidOnce

\* verify.ts:47: a link logs in once, a double click included.
LinkIsSingleUse ==
    \A c, d \in Call : pc[c] \in {"read"} \cup Redeeming
                       /\ pc[d] \in {"read"} \cup Redeeming
                       /\ link[c] = link[d] => c = d

\* What a record says was paid was paid, and what was paid it says, so that an
\* undisturbed retry pays nothing twice.
RecordsMatchPayments == MarkersAreTrue /\ UndisturbedPaysOnce
=============================================================================
