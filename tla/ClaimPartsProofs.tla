-------------------- MODULE ClaimPartsProofs --------------------
(***************************************************************************)
(* The proofs about what reaches the holder of the legacy token by email:  *)
(* the redemption, the campaign script, the alert and the link.  Each part *)
(* is proved on its own, for its own specification.                        *)
(***************************************************************************)
EXTENDS LegacyReparation, ReparationCampaign, BalanceAlert, EmailSignIn, FiniteSetTheorems, TLAPS

-----------------------------------------------------------------------------
(***************************************************************************)
(* What the redemption of legacy reparations guarantees for any number of  *)
(* requests, links, posts and sponsor transactions.  The invariant has     *)
(* four layers: types, what a request knows at each await, who is inside a *)
(* redemption, and the account of payments: every payment that is or may   *)
(* come to be on chain is covered by a post, and so is every payment that  *)
(* the record or a request still allows.                                   *)
(***************************************************************************)

Types == TypeOK /\ IsFiniteSet(inFlight) /\ IsFiniteSet(landed)

-----------------------------------------------------------------------------
(* Types.                                                                  *)

\* What leaving a request does to its locals.
LEMMA EndTypes ==
    ASSUME Types, NEW c \in Call, End(c)
    PROVE  /\ pc' \in [Call -> {"idle", "delete", "read", "done"} \cup Redeeming]
           /\ link' \in [Call -> Token \cup {None}]
           /\ copy' \in [Call -> Record \cup {None}]
           /\ paid' \in [Call -> [Leg -> Tx \cup {None}]]
           /\ tx' \in [Call -> Tx \cup {None}]
BY DEF Types, TypeOK, End, Goto, Nothing

\* And moving it to another await.
LEMMA GotoTypes ==
    ASSUME Types, NEW c \in Call,
           NEW label \in {"idle", "delete", "read", "done"} \cup Redeeming, Goto(c, label)
    PROVE  pc' \in [Call -> {"idle", "delete", "read", "done"} \cup Redeeming]
BY DEF Types, TypeOK, Goto

LEMMA TypesStart == Init => Types
<1> SUFFICES ASSUME Init PROVE Types
  OBVIOUS
<1>1. IsFiniteSet({})
  BY FS_EmptySet
<1>2. TypeOK
  BY DEF Init, TypeOK, Nothing
<1> QED
  BY <1>1, <1>2 DEF Init, Types

\* The links, the campaign and the expiry.
LEMMA PostTypes ==
    ASSUME Types, NEW t \in Token,
           Login(t) \/ Expire(t) \/ ExpireReparation \/ \E xlm \in BOOLEAN : PostReparation(t, xlm)
    PROVE  Types'
<1>1. CASE Login(t) \/ Expire(t) \/ ExpireReparation
  BY <1>1 DEF Types, TypeOK, Login, Expire, ExpireReparation, store, locals, chain, history
<1>2. ASSUME NEW xlm \in BOOLEAN, PostReparation(t, xlm) PROVE Types'
  <2>1. FreshRecord(xlm) \in Record
    BY DEF FreshRecord, Record, Nothing
  <2> QED
    BY <1>2, <2>1 DEF Types, TypeOK, PostReparation, locals, chain, history
<1> QED
  BY <1>1, <1>2

LEMMA VerifyTypes ==
    ASSUME Types, NEW c \in Call,
           (\E t \in Token : LookUp(c, t)) \/ Consume(c) \/ ReadReparation(c) \/ Bootstrap(c)
    PROVE  Types'
<1>1. ASSUME NEW t \in Token, LookUp(c, t) PROVE Types'
  <2>1. CASE End(c)
    BY <1>1, <2>1, EndTypes DEF LookUp, Types, TypeOK, store, chain, history
  <2>2. CASE ~ End(c)
    BY <1>1, <2>2 DEF LookUp, Goto, Types, TypeOK, store, chain, history
  <2> QED
    BY <2>1, <2>2
<1>2. CASE Consume(c)
  BY <1>2 DEF Consume, Goto, Types, TypeOK, store, locals, chain, history
<1>3. CASE ReadReparation(c)
  <2>1. CASE End(c)
    BY <1>3, <2>1, EndTypes DEF ReadReparation, Types, TypeOK, store, chain
  <2>2. CASE ~ End(c)
    <3>1. record \in Record /\ record.paid \in [Leg -> Tx \cup {None}]
      BY <1>3, <2>2 DEF ReadReparation, Eligible, Types, TypeOK, Record
    <3>2. /\ copy' = [copy EXCEPT ![c] = record] /\ paid' = [paid EXCEPT ![c] = record.paid]
          /\ Goto(c, "prepare") /\ overlapped' \in BOOLEAN
          /\ UNCHANGED <<live, record, posts, link, tx, sequence, inFlight, landed, traffic, lost>>
      BY <1>3, <2>2 DEF ReadReparation, store, chain, Types, TypeOK
    <3> QED
      BY <3>1, <3>2 DEF Goto, Types, TypeOK, Redeeming
  <2> QED
    BY <2>1, <2>2
<1>4. CASE Bootstrap(c)
  <2>1. AfterPaying(c, paid[c]) \in Redeeming
    BY DEF AfterPaying, Redeeming
  <2> QED
    BY <1>4, <2>1 DEF Bootstrap, Goto, Types, TypeOK, store, locals, chain, history
<1> QED
  BY <1>1, <1>2, <1>3, <1>4

\* Building, sending and awaiting a payment.
LEMMA BuildTypes == ASSUME Types, NEW c \in Call, LoadSponsor(c) PROVE Types'
<1>1. PICK u \in Buildable(c) : tx' = [tx EXCEPT ![c] = u]
  BY DEF LoadSponsor
<1>2. Buildable(c) \subseteq Tx
  <2>1. [leg |-> NextLeg(c), seq |-> sequence + 1, by |-> c] \in Tx
    BY DEF Types, TypeOK, Tx, NextLeg, Leg
  <2>2. inFlight \cup ({tx[d] : d \in Call} \ {None}) \subseteq Tx
    BY DEF Types, TypeOK
  <2> HIDE DEF Tx
  <2> QED
    BY <2>1, <2>2 DEF Buildable
<1> QED
  BY <1>1, <1>2 DEF LoadSponsor, Goto, Types, TypeOK, store, chain, history, Redeeming

LEMMA SendTypes ==
    ASSUME Types, NEW c \in Call, Submit(c) \/ SubmitThrows(c), tx[c] \in Tx
    PROVE  Types'
<1>1. inFlight' \subseteq inFlight \cup {tx[c]}
  BY DEF Submit, SubmitThrows, SentBy
<1>2. inFlight' \subseteq Tx /\ IsFiniteSet(inFlight')
  <2>1. IsFiniteSet(inFlight \cup {tx[c]})
    BY FS_AddElement DEF Types
  <2> QED
    BY <1>1, <2>1, FS_Subset DEF Types, TypeOK
<1> HIDE DEF Tx
<1>3. CASE Submit(c)
  BY <1>2, <1>3 DEF Submit, Goto, Types, TypeOK, store, locals, history, Redeeming
<1>4. CASE SubmitThrows(c)
  <2>1. lost' \in BOOLEAN
    BY <1>4 DEF SubmitThrows, Types, TypeOK
  <2> QED
    BY <1>2, <1>4, <2>1 DEF SubmitThrows, Goto, Types, TypeOK, store, locals, Redeeming
<1> QED
  BY <1>3, <1>4

LEMMA PollTypes ==
    ASSUME Types, NEW c \in Call, PollSucceeds(c) \/ PollThrows(c) \/ Throw(c)
    PROVE  Types'
<1>1. CASE PollSucceeds(c)
  <2>1. PICK u : u = tx[c]
    OBVIOUS
  <2>2. u \in Tx /\ u.leg \in Leg
    BY <1>1, <2>1 DEF PollSucceeds, Types, TypeOK, Tx
  <2>3. paid' = [paid EXCEPT ![c] = [paid[c] EXCEPT ![u.leg] = u]]
    BY <1>1, <2>1 DEF PollSucceeds, Types, TypeOK
  <2> HIDE DEF Tx
  <2>4. [paid[c] EXCEPT ![u.leg] = u] \in [Leg -> Tx \cup {None}]
    BY <2>2 DEF Types, TypeOK
  <2> QED
    BY <1>1, <2>3, <2>4
    DEF PollSucceeds, Goto, Types, TypeOK, store, chain, history, Redeeming
<1>2. CASE PollThrows(c)
  BY <1>2 DEF PollThrows, Goto, Types, TypeOK, store, locals, chain, Redeeming
<1>3. CASE Throw(c)
  BY <1>3 DEF Throw, Goto, Types, TypeOK, store, locals, chain, history, Redeeming
<1> QED
  BY <1>1, <1>2, <1>3

\* What a request writes back is a record.
LEMMA WrittenTypes ==
    ASSUME Types, NEW c \in Call, copy[c] \in Record
    PROVE  /\ [copy[c] EXCEPT !.paid["hitz"] = paid[c]["hitz"]] \in Record
           /\ [copy[c] EXCEPT !.status = "redeemed", !.paid = paid[c]] \in Record
           /\ FailedRecord(c) \in Record
<1>1. PICK r : r = copy[c]
  OBVIOUS
<1>2. PICK p : p = paid[c]
  OBVIOUS
<1>3. p \in [Leg -> Tx \cup {None}] /\ p["hitz"] \in Tx \cup {None}
  BY <1>2 DEF Types, TypeOK, Leg
<1> HIDE DEF Tx
<1>4. [r EXCEPT !.paid["hitz"] = p["hitz"]] \in Record
  BY <1>1, <1>3 DEF Record, Leg
<1>5. [r EXCEPT !.status = "redeemed", !.paid = p] \in Record
  BY <1>1, <1>3 DEF Record
<1>6. [r EXCEPT !.status = "failed", !.paid = p] \in Record
  BY <1>1, <1>3 DEF Record
<1> QED
  BY <1>1, <1>2, <1>4, <1>5, <1>6 DEF FailedRecord

LEMMA WriteTypes ==
    ASSUME Types, NEW c \in Call, copy[c] \in Record,
           Persist(c) \/ MarkRedeemed(c) \/ MarkFailed(c)
    PROVE  Types'
<1>1. record' \in Record
  BY WrittenTypes DEF Persist, MarkRedeemed, MarkFailed
<1> HIDE DEF Record, Tx
<1>2. CASE Persist(c)
  <2>1. AfterPaying(c, paid[c]) \in Redeeming
    BY DEF AfterPaying, Redeeming
  <2> QED
    BY <1>1, <1>2, <2>1 DEF Persist, Goto, Types, TypeOK, locals, chain, history
<1>3. CASE MarkRedeemed(c) \/ MarkFailed(c)
  BY <1>1, <1>3, EndTypes DEF MarkRedeemed, MarkFailed, Types, TypeOK, chain, history
<1> QED
  BY <1>2, <1>3

LEMMA VanishTypes == ASSUME Types, NEW c \in Call, Vanish(c) PROVE Types'
<1>1. lost' \in BOOLEAN
  BY DEF Vanish, Unrecorded, Types, TypeOK
<1> QED
  BY <1>1, EndTypes DEF Vanish, Types, TypeOK, store, chain

\* The chain.
LEMMA AdvanceTypes ==
    ASSUME Types, Advance
    PROVE  /\ sequence' \in Nat /\ inFlight' \subseteq inFlight
           /\ IsFiniteSet(inFlight')
BY FS_Subset DEF Advance, Types, TypeOK

LEMMA ChainTypes ==
    ASSUME Types, SponsorTraffic \/ \E t \in inFlight : Land(t) \/ Drop(t)
    PROVE  Types'
<1>1. CASE SponsorTraffic
  BY <1>1, AdvanceTypes DEF SponsorTraffic, Types, TypeOK, store, locals, history
<1>2. ASSUME NEW t \in inFlight, Land(t) PROVE Types'
  <2>1. landed' \subseteq Tx /\ IsFiniteSet(landed')
    BY <1>2, FS_AddElement DEF Land, Types, TypeOK
  <2> HIDE DEF Tx
  <2> QED
    BY <1>2, <2>1, AdvanceTypes DEF Land, Types, TypeOK, store, locals, history
<1>3. ASSUME NEW t \in inFlight, Drop(t) PROVE Types'
  <2>1. inFlight' \subseteq inFlight /\ IsFiniteSet(inFlight')
    BY <1>3, FS_Subset DEF Drop, Types
  <2> QED
    BY <1>3, <2>1 DEF Drop, Types, TypeOK, store, locals, history
<1> QED
  BY <1>1, <1>2, <1>3

-----------------------------------------------------------------------------
(* What a request knows.                                                   *)

\* Every mark is a payment of its own leg that landed.
Marks(m) == \A l \in Leg : m[l] # None => m[l] \in landed /\ m[l].leg = l

\* The legs that a record r with marks m still asks for.
Owed(r, m) == {l \in Leg : m[l] = None /\ (l = "xlm" => r.xlm)}

\* A redemption at await p with record r, marks m and payment u.
Knows(p, r, m, u) ==
    /\ r \in Record /\ r.status # "redeemed"
    /\ m \in [Leg -> Tx \cup {None}] /\ u \in Tx \cup {None}
    /\ Marks(r.paid) /\ Marks(m)
    /\ p \notin {"finish", "catch"} => m["xlm"] = r.paid["xlm"]
    /\ p = "prepare" => u = None
    /\ p \in {"load", "finish"} => u = None \/ m[u.leg] # None
    /\ p = "load" => Owed(r, m) # {}
    /\ p = "finish" => Owed(r, m) = {}
    /\ p \in {"submit", "poll"} =>
          u \in Tx /\ u.leg \in Owed(r, m) /\ (u.leg = "xlm" => "hitz" \notin Owed(r, m))
    /\ p = "persist" => u \in Tx /\ u.leg = "hitz" /\ m["hitz"] = u
    /\ \A l \in Leg : r.paid[l] # None => m[l] = r.paid[l]

RequestsOK ==
    \A c \in Call :
       /\ pc[c] \in Redeeming => Knows(pc[c], copy[c], paid[c], tx[c])
       /\ pc[c] \notin Redeeming => tx[c] = None

RecordOK ==
    record # None =>
       /\ Marks(record.paid)
       /\ record.status = "redeemed" => Owed(record, record.paid) = {}

\* Payments land for good.
LEMMA KnowsStays ==
    ASSUME landed \subseteq landed', NEW p, NEW r, NEW m, NEW u, Knows(p, r, m, u)
    PROVE  Knows(p, r, m, u)'
BY DEF Knows, Marks

LEMMA RecordStays ==
    ASSUME RecordOK, landed \subseteq landed', UNCHANGED record
    PROVE  RecordOK'
BY DEF RecordOK, Marks, Owed

\* One request moves on, the others stay where they are.
LEMMA RequestMoves ==
    ASSUME Types, RequestsOK, landed \subseteq landed', NEW c \in Call,
           NEW p, NEW r, NEW m, NEW u,
           pc' = [pc EXCEPT ![c] = p], copy' = [copy EXCEPT ![c] = r],
           paid' = [paid EXCEPT ![c] = m], tx' = [tx EXCEPT ![c] = u],
           p \in Redeeming => Knows(p, r, m, u)',
           p \notin Redeeming => u = None
    PROVE  RequestsOK'
<1>1. ASSUME NEW d \in Call
      PROVE  /\ pc'[d] \in Redeeming => \E a, b, e, f :
                   /\ a = pc'[d] /\ b = copy'[d] /\ e = paid'[d] /\ f = tx'[d]
                   /\ Knows(a, b, e, f)'
             /\ pc'[d] \notin Redeeming => tx'[d] = None
  <2>1. CASE d = c
    BY <2>1 DEF Types, TypeOK
  <2>2. CASE d # c
    <3>1. pc'[d] = pc[d] /\ copy'[d] = copy[d] /\ paid'[d] = paid[d] /\ tx'[d] = tx[d]
      BY <2>2 DEF Types, TypeOK
    <3> QED
      BY <3>1, KnowsStays DEF RequestsOK
  <2> QED
    BY <2>1, <2>2
<1> QED
  BY <1>1 DEF RequestsOK

\* An ended request knows nothing.
LEMMA RequestEnds ==
    ASSUME Types, RequestsOK, landed \subseteq landed', NEW c \in Call, End(c)
    PROVE  RequestsOK'
<1>1. "done" \notin Redeeming
  BY DEF Redeeming
<1> QED
  BY <1>1, RequestMoves DEF End, Goto

\* The step leaves requests and what they know alone.
LEMMA RequestsStay ==
    ASSUME Types, RequestsOK, landed \subseteq landed', UNCHANGED <<pc, copy, paid, tx>>
    PROVE  RequestsOK'
BY KnowsStays DEF RequestsOK

\* The request goes to another await with the same locals.
LEMMA RequestGoes ==
    ASSUME Types, RequestsOK, landed \subseteq landed', NEW c \in Call, NEW p,
           pc' = [pc EXCEPT ![c] = p], UNCHANGED <<copy, paid, tx>>,
           p \in Redeeming => Knows(p, copy[c], paid[c], tx[c]),
           p \notin Redeeming => tx[c] = None
    PROVE  RequestsOK'
<1>1. PICK r, m, u : r = copy[c] /\ m = paid[c] /\ u = tx[c]
  OBVIOUS
<1>2. /\ copy' = [copy EXCEPT ![c] = r] /\ paid' = [paid EXCEPT ![c] = m]
      /\ tx' = [tx EXCEPT ![c] = u]
  BY <1>1 DEF Types, TypeOK
<1>3. p \in Redeeming => Knows(p, r, m, u)
  BY <1>1
<1>4. p \notin Redeeming => u = None
  BY <1>1
<1>5. p \in Redeeming => Knows(p, r, m, u)'
  BY <1>3, KnowsStays
<1> QED
  BY <1>2, <1>4, <1>5, RequestMoves, ZenonT(60)

LEMMA UnpaidIsOwed == \A c, done : Unpaid(c, done) = Owed(copy[c], done)
BY DEF Unpaid, Owed

Known == Types /\ RequestsOK /\ RecordOK

LEMMA KnownStarts == Init => RequestsOK /\ RecordOK
BY DEF Init, RequestsOK, RecordOK, Redeeming

LEMMA PostKnown ==
    ASSUME Known, NEW t \in Token,
           Login(t) \/ Expire(t) \/ ExpireReparation \/ \E xlm \in BOOLEAN : PostReparation(t, xlm)
    PROVE  RequestsOK' /\ RecordOK'
<1>1. UNCHANGED <<pc, copy, paid, tx, landed>>
  BY DEF Login, Expire, ExpireReparation, PostReparation, locals, chain
<1>2. RequestsOK'
  BY <1>1, RequestsStay DEF Known
<1>3. CASE Login(t) \/ Expire(t) \/ ExpireReparation
  BY <1>1, <1>2, <1>3, RecordStays DEF Known, Login, Expire, ExpireReparation, store, RecordOK
<1>4. ASSUME NEW xlm \in BOOLEAN, PostReparation(t, xlm) PROVE RecordOK'
  BY <1>4 DEF PostReparation, FreshRecord, Nothing, RecordOK, Marks
<1> QED
  BY <1>2, <1>3, <1>4

LEMMA VerifyKnown ==
    ASSUME Known, NEW c \in Call, (\E t \in Token : LookUp(c, t)) \/ Consume(c)
    PROVE  RequestsOK' /\ RecordOK'
<1>1. UNCHANGED <<record, landed>>
  BY DEF LookUp, Consume, store, chain
<1>2. CASE End(c)
  BY <1>1, <1>2, RequestEnds, RecordStays DEF Known
<1>3. CASE ~ End(c)
  <2>1. PICK label \in {"delete", "read"} :
           /\ pc' = [pc EXCEPT ![c] = label] /\ UNCHANGED <<copy, paid, tx>>
           /\ pc[c] \in {"idle", "delete"}
    BY <1>3 DEF LookUp, Consume, Goto, locals
  <2>2. tx[c] = None /\ label \notin Redeeming
    BY <2>1 DEF Known, RequestsOK, Redeeming
  <2>3. RequestsOK'
    BY <1>1, <2>1, <2>2, RequestGoes DEF Known
  <2> QED
    BY <1>1, <2>3, RecordStays DEF Known
<1> QED
  BY <1>2, <1>3

\* A redemption starts with what the record says.
LEMMA ReadKnown == ASSUME Known, NEW c \in Call, ReadReparation(c) PROVE RequestsOK' /\ RecordOK'
<1>1. UNCHANGED <<record, landed>>
  BY DEF ReadReparation, store, chain
<1>2. CASE End(c)
  BY <1>1, <1>2, RequestEnds, RecordStays DEF Known
<1>3. CASE ~ End(c)
  <2>1. PICK r, m : r = record /\ m = record.paid
    OBVIOUS
  <2>2. /\ record # None /\ record.status # "redeemed"
        /\ copy' = [copy EXCEPT ![c] = r] /\ paid' = [paid EXCEPT ![c] = m]
        /\ pc' = [pc EXCEPT ![c] = "prepare"] /\ UNCHANGED tx /\ pc[c] = "read"
    BY <1>3, <2>1 DEF ReadReparation, Goto, Eligible
  <2>3. tx[c] = None /\ tx' = [tx EXCEPT ![c] = None]
    BY <2>2 DEF Known, RequestsOK, Redeeming, Types, TypeOK
  <2>4. r \in Record /\ m \in [Leg -> Tx \cup {None}]
    BY <2>1, <2>2 DEF Known, Types, TypeOK, Record
  <2> HIDE DEF Tx
  <2>5. Knows("prepare", r, m, None)
    BY <2>1, <2>2, <2>4 DEF Known, RecordOK, Knows
  <2>6. RequestsOK'
    BY <1>1, <2>2, <2>3, <2>5, KnowsStays, RequestMoves DEF Known
  <2> QED
    BY <1>1, <2>6, RecordStays DEF Known
<1> QED
  BY <1>2, <1>3

\* Legs are paid in order, and only when there is one left.
LEMMA BootstrapKnown == ASSUME Known, NEW c \in Call, Bootstrap(c) PROVE RequestsOK' /\ RecordOK'
<1>1. PICK p, r, m, u : p = AfterPaying(c, paid[c]) /\ r = copy[c] /\ m = paid[c] /\ u = tx[c]
  OBVIOUS
<1>2. /\ pc[c] = "prepare" /\ pc' = [pc EXCEPT ![c] = p]
      /\ UNCHANGED <<copy, paid, tx, record, landed>>
  BY <1>1 DEF Bootstrap, Goto, store, locals, chain
<1>3. Knows("prepare", r, m, u)
  BY <1>1, <1>2 DEF Known, RequestsOK, Redeeming
<1>4. p = IF Owed(r, m) = {} THEN "finish" ELSE "load"
  BY <1>1, UnpaidIsOwed DEF AfterPaying
<1>5. Knows(p, r, m, u) /\ p \in Redeeming
  BY <1>3, <1>4 DEF Knows, Redeeming
<1>6. RequestsOK'
  BY <1>1, <1>2, <1>5, RequestGoes DEF Known
<1> QED
  BY <1>2, <1>6, RecordStays DEF Known

LEMMA LoadKnown == ASSUME Known, NEW c \in Call, LoadSponsor(c) PROVE RequestsOK' /\ RecordOK'
<1>1. PICK u \in Buildable(c) : tx' = [tx EXCEPT ![c] = u]
  BY DEF LoadSponsor
<1>2. PICK r, m, old : r = copy[c] /\ m = paid[c] /\ old = tx[c]
  OBVIOUS
<1>3. /\ pc[c] = "load" /\ pc' = [pc EXCEPT ![c] = "submit"]
      /\ UNCHANGED <<copy, paid, record, landed>>
  BY DEF LoadSponsor, Goto, store, chain
<1>4. Knows("load", r, m, old)
  BY <1>2, <1>3 DEF Known, RequestsOK, Redeeming
<1>5. u \in Tx
  <2>1. [leg |-> NextLeg(c), seq |-> sequence + 1, by |-> c] \in Tx
    BY DEF Known, Types, TypeOK, Tx, NextLeg, Leg
  <2>2. inFlight \cup ({tx[d] : d \in Call} \ {None}) \subseteq Tx
    BY DEF Known, Types, TypeOK
  <2> HIDE DEF Tx
  <2> QED
    BY <2>1, <2>2 DEF Buildable
<1>6. u.leg = IF "hitz" \in Owed(r, m) THEN "hitz" ELSE "xlm"
  BY <1>2, UnpaidIsOwed DEF Buildable, NextLeg
<1>7. u.leg \in Owed(r, m) /\ (u.leg = "xlm" => "hitz" \notin Owed(r, m))
  BY <1>4, <1>6 DEF Knows, Owed, Leg
<1> HIDE DEF Tx, Record
<1>8. Knows("submit", r, m, u)
  BY <1>4, <1>5, <1>7 DEF Knows
<1>9. copy' = [copy EXCEPT ![c] = r] /\ paid' = [paid EXCEPT ![c] = m]
  BY <1>2, <1>3 DEF Known, Types, TypeOK
<1>10. RequestsOK'
  BY <1>1, <1>3, <1>8, <1>9, KnowsStays, RequestMoves DEF Known, Redeeming
<1> QED
  BY <1>3, <1>10, RecordStays DEF Known

LEMMA SendKnown ==
    ASSUME Known, NEW c \in Call,
           Submit(c) \/ SubmitThrows(c) \/ PollThrows(c) \/ Throw(c)
    PROVE  RequestsOK' /\ RecordOK'
<1>1. PICK p \in {"poll", "catch"} : pc' = [pc EXCEPT ![c] = p] /\ (p = "poll" => pc[c] = "submit")
  BY DEF Submit, SubmitThrows, PollThrows, Throw, Goto
<1>2. /\ UNCHANGED <<copy, paid, tx, record, landed>>
      /\ pc[c] \in {"submit", "poll", "prepare", "load", "persist", "finish"}
  BY DEF Submit, SubmitThrows, PollThrows, Throw, store, locals, chain
<1>3. Knows(pc[c], copy[c], paid[c], tx[c]) /\ p \in Redeeming
  BY <1>2 DEF Known, RequestsOK, Redeeming
<1>4. Knows(p, copy[c], paid[c], tx[c])
  BY <1>1, <1>3 DEF Knows
<1>5. RequestsOK'
  BY <1>1, <1>2, <1>3, <1>4, RequestGoes DEF Known
<1> QED
  BY <1>2, <1>5, RecordStays DEF Known

\* A hash that came back is a payment of its leg.
LEMMA PollKnown == ASSUME Known, NEW c \in Call, PollSucceeds(c) PROVE RequestsOK' /\ RecordOK'
<1>1. PICK r, m, u : r = copy[c] /\ m = paid[c] /\ u = tx[c]
  OBVIOUS
<1>2. PICK n, p : n = [m EXCEPT ![u.leg] = u] /\ p = IF u.leg = "hitz" THEN "persist" ELSE "finish"
  OBVIOUS
<1>3. /\ pc[c] = "poll" /\ u \in landed /\ pc' = [pc EXCEPT ![c] = p]
      /\ UNCHANGED <<copy, tx, record, landed>>
  BY <1>1, <1>2 DEF PollSucceeds, Goto, store, chain
<1>4. paid' = [paid EXCEPT ![c] = n]
  BY <1>1, <1>2 DEF PollSucceeds, Known, Types, TypeOK
<1>5. copy' = [copy EXCEPT ![c] = r] /\ tx' = [tx EXCEPT ![c] = u]
  BY <1>1, <1>3 DEF Known, Types, TypeOK
<1>6. Knows("poll", r, m, u)
  BY <1>1, <1>3 DEF Known, RequestsOK, Redeeming
<1>7. /\ u \in Tx /\ u # None /\ u.leg \in Leg /\ m \in [Leg -> Tx \cup {None}]
      /\ u.leg \in Owed(r, m) /\ (u.leg = "xlm" => "hitz" \notin Owed(r, m))
  BY <1>6, NoneAssumption DEF Knows, Owed
<1> HIDE DEF Tx, Record
<1>8. n \in [Leg -> Tx \cup {None}] /\ n[u.leg] = u /\ \A l \in Leg : l # u.leg => n[l] = m[l]
  BY <1>2, <1>7
<1>9. Marks(n)
  BY <1>3, <1>6, <1>8 DEF Marks, Knows
<1>10. ASSUME NEW l \in Leg, r.paid[l] # None PROVE n[l] = r.paid[l]
  <2>1. m[l] = r.paid[l] /\ m[u.leg] = None
    BY <1>6, <1>7, <1>10 DEF Knows, Owed
  <2> QED
    BY <1>8, <1>10, <2>1
<1>11. Knows(p, r, n, u) /\ p \in Redeeming
  <2>1. CASE u.leg = "hitz"
    BY <1>2, <1>6, <1>7, <1>8, <1>9, <1>10, <2>1 DEF Knows, Leg, Redeeming
  <2>2. CASE u.leg = "xlm"
    <3>1. Owed(r, n) = {}
      BY <1>7, <1>8, <2>2 DEF Owed, Leg
    <3> QED
      BY <1>2, <1>6, <1>7, <1>8, <1>9, <1>10, <2>2, <3>1 DEF Knows, Redeeming
  <2> QED
    BY <1>7, <2>1, <2>2 DEF Leg
<1>12. Knows(p, r, n, u)'
  BY <1>3, <1>11, KnowsStays
<1>13. RequestsOK'
  BY <1>3, <1>4, <1>5, <1>11, <1>12, RequestMoves, ZenonT(60) DEF Known
<1> QED
  BY <1>3, <1>13, RecordStays DEF Known

\* What a request writes is what it knows.
LEMMA PersistKnown == ASSUME Known, NEW c \in Call, Persist(c) PROVE RequestsOK' /\ RecordOK'
<1>1. PICK p, r, m, u : p = AfterPaying(c, paid[c]) /\ r = copy[c] /\ m = paid[c] /\ u = tx[c]
  OBVIOUS
<1>2. /\ pc[c] = "persist" /\ pc' = [pc EXCEPT ![c] = p]
      /\ record' = [r EXCEPT !.paid["hitz"] = m["hitz"]]
      /\ UNCHANGED <<copy, paid, tx, landed>>
  BY <1>1 DEF Persist, Goto, locals, chain
<1>3. Knows("persist", r, m, u)
  BY <1>1, <1>2 DEF Known, RequestsOK, Redeeming
<1>4. p = IF Owed(r, m) = {} THEN "finish" ELSE "load"
  BY <1>1, UnpaidIsOwed DEF AfterPaying
<1>5. Knows(p, r, m, u) /\ p \in Redeeming
  BY <1>3, <1>4, NoneAssumption DEF Knows, Redeeming
<1>6. RequestsOK'
  BY <1>1, <1>2, <1>5, RequestGoes DEF Known
<1>7. RecordOK'
  <2>1. record'.status # "redeemed"
    BY <1>2, <1>3 DEF Knows, Record
  <2>2. \A l \in Leg : record'.paid[l] = IF l = "hitz" THEN m[l] ELSE r.paid[l]
    BY <1>2, <1>3 DEF Knows, Record, Leg
  <2> QED
    BY <1>2, <1>3, <2>1, <2>2 DEF RecordOK, Marks, Knows
<1> QED
  BY <1>6, <1>7

LEMMA WriteKnown ==
    ASSUME Known, NEW c \in Call, MarkRedeemed(c) \/ MarkFailed(c)
    PROVE  RequestsOK' /\ RecordOK'
<1>1. PICK r, m : r = copy[c] /\ m = paid[c]
  OBVIOUS
<1>2. Knows(pc[c], r, m, tx[c])
  BY <1>1 DEF Known, RequestsOK, Redeeming, MarkRedeemed, MarkFailed
<1>3. RequestsOK'
  BY RequestEnds DEF Known, MarkRedeemed, MarkFailed, chain
<1>4. CASE MarkRedeemed(c)
  <2>1. record' = [r EXCEPT !.status = "redeemed", !.paid = m] /\ UNCHANGED landed
    BY <1>1, <1>4 DEF MarkRedeemed, chain
  <2>2. record'.paid = m /\ record'.xlm = r.xlm
    BY <1>2, <2>1 DEF Knows, Record
  <2>3. Owed(r, m) = {} /\ Marks(m)
    BY <1>2, <1>4 DEF Knows, MarkRedeemed
  <2> QED
    BY <1>3, <2>1, <2>2, <2>3 DEF RecordOK, Marks, Owed
<1>5. CASE MarkFailed(c)
  <2>1. record' = [r EXCEPT !.status = "failed", !.paid = m] /\ UNCHANGED landed
    BY <1>1, <1>5 DEF MarkFailed, FailedRecord, chain
  <2>2. record'.paid = m /\ record'.status = "failed"
    BY <1>2, <2>1 DEF Knows, Record
  <2> QED
    BY <1>2, <1>3, <2>1, <2>2 DEF RecordOK, Marks, Knows
<1> QED
  BY <1>4, <1>5

LEMMA OthersKnown ==
    ASSUME Known, \/ \E c \in Call : Vanish(c)
                  \/ SponsorTraffic \/ \E t \in inFlight : Land(t) \/ Drop(t)
    PROVE  RequestsOK' /\ RecordOK'
<1>1. landed \subseteq landed' /\ UNCHANGED record
  BY DEF Vanish, SponsorTraffic, Land, Drop, store, chain
<1>2. CASE \E c \in Call : Vanish(c)
  BY <1>1, <1>2, RequestEnds, RecordStays DEF Known, Vanish
<1>3. CASE SponsorTraffic \/ \E t \in inFlight : Land(t) \/ Drop(t)
  <2>1. UNCHANGED <<pc, copy, paid, tx>>
    BY <1>3 DEF SponsorTraffic, Land, Drop, locals
  <2> QED
    BY <1>1, <2>1, RequestsStay, RecordStays DEF Known
<1> QED
  BY <1>2, <1>3

-----------------------------------------------------------------------------
LEMMA KnownInvariance == Spec => []Known
<1>1. Known /\ [Next]_vars => Known'
  <2> SUFFICES ASSUME Known, [Next]_vars PROVE Known'
    OBVIOUS
  <2>0. Types /\ RequestsOK
    BY DEF Known
  <2>1. CASE UNCHANGED vars
    <3>1. UNCHANGED <<live, record, posts, pc, link, copy, paid, tx, sequence, inFlight, landed,
                      traffic, overlapped, lost>>
      BY <2>1 DEF vars, store, locals, chain, history
    <3>2. Types'
      BY <2>0, <3>1 DEF Types, TypeOK
    <3> QED
      BY <2>0, <3>1, <3>2, RequestsStay, RecordStays DEF Known
  <2>2. ASSUME NEW t \in Token, Login(t) \/ Expire(t) \/ \E xlm \in BOOLEAN : PostReparation(t, xlm)
        PROVE  Known'
    BY <2>0, <2>2, PostTypes, PostKnown DEF Known
  <2>3. CASE ExpireReparation
    <3>1. Types'
      BY <2>0, <2>3 DEF ExpireReparation, Types, TypeOK, locals, chain, history
    <3>2. RequestsOK' /\ RecordOK'
      BY <2>0, <2>3, RequestsStay DEF ExpireReparation, RecordOK, locals, chain
    <3> QED
      BY <3>1, <3>2 DEF Known
  <2>4. ASSUME NEW c \in Call, NEW t \in Token, LookUp(c, t) PROVE Known'
    BY <2>0, <2>4, VerifyTypes, VerifyKnown DEF Known
  <2>5. ASSUME NEW c \in Call, Proceed(c) PROVE Known'
    <3>1. CASE Consume(c) \/ ReadReparation(c) \/ Bootstrap(c)
      BY <2>0, <3>1, VerifyTypes, VerifyKnown, ReadKnown, BootstrapKnown DEF Known
    <3>2. CASE LoadSponsor(c)
      BY <2>0, <3>2, BuildTypes, LoadKnown DEF Known
    <3>3. CASE Submit(c) \/ SubmitThrows(c)
      <4>1. tx[c] \in Tx
        BY <2>0, <3>3 DEF Submit, SubmitThrows, RequestsOK, Redeeming, Knows
      <4> QED
        BY <2>0, <3>3, <4>1, SendTypes, SendKnown DEF Known
    <3>4. CASE PollSucceeds(c) \/ PollThrows(c) \/ Throw(c)
      BY <2>0, <3>4, PollTypes, PollKnown, SendKnown DEF Known
    <3>5. CASE Persist(c) \/ MarkRedeemed(c) \/ MarkFailed(c)
      <4>1. copy[c] \in Record
        BY <2>0, <3>5 DEF Persist, MarkRedeemed, MarkFailed, RequestsOK, Redeeming, Knows
      <4> QED
        BY <2>0, <3>5, <4>1, WriteTypes, PersistKnown, WriteKnown DEF Known
    <3> QED
      BY <2>5, <3>1, <3>2, <3>3, <3>4, <3>5 DEF Proceed
  <2>6. ASSUME NEW c \in Call, Vanish(c) PROVE Known'
    BY <2>0, <2>6, VanishTypes, OthersKnown DEF Known
  <2>7. CASE SponsorTraffic \/ \E t \in inFlight : Land(t) \/ Drop(t)
    BY <2>0, <2>7, ChainTypes, OthersKnown DEF Known
  <2> QED
    BY <2>1, <2>2, <2>3, <2>4, <2>5, <2>6, <2>7 DEF Next
<1>2. Init => Known
  BY TypesStart, KnownStarts DEF Known
<1> QED
  BY <1>1, <1>2, PTL DEF Spec

\* A hash in the record is a payment that landed for its own leg, and a redeemed
\* record has all its legs, for any number of overlapping, failing and vanishing
\* requests.
THEOREM TrueMarkers == Spec => []MarkersAreTrue
<1>1. Known => MarkersAreTrue
  BY DEF Known, Types, RecordOK, Marks, Owed, MarkersAreTrue
<1> QED
  BY <1>1, KnownInvariance, PTL
-----------------------------------------------------------------------------
(* Who redeems.                                                            *)

\* While redemptions have not overlapped one request at most is inside one,
\* and it works on a record that is not redeemed.
Sole ==
    ~overlapped =>
       /\ \A c, d \in Call : pc[c] \in Redeeming /\ pc[d] \in Redeeming => c = d
       /\ (\E c \in Call : pc[c] \in Redeeming) /\ record # None => record.status # "redeemed"

\* A request moves; only ReadReparation can bring it into a redemption.
LEMMA SoleMoves ==
    ASSUME Types, Sole, NEW c \in Call, NEW p, pc' = [pc EXCEPT ![c] = p],
           overlapped => overlapped', p \in Redeeming => pc[c] \in Redeeming,
           \/ UNCHANGED record
           \/ record' # None => record'.status # "redeemed"
           \/ p \notin Redeeming /\ pc[c] \in Redeeming
    PROVE  Sole'
<1>1. ASSUME NEW d \in Call, pc'[d] \in Redeeming PROVE pc[d] \in Redeeming /\ (d = c => p \in Redeeming)
  BY <1>1 DEF Types, TypeOK
<1> QED
  BY <1>1 DEF Sole

LEMMA SoleStays ==
    ASSUME Sole, UNCHANGED <<pc, overlapped>>,
           UNCHANGED record \/ (record' # None => record'.status # "redeemed")
    PROVE  Sole'
BY DEF Sole

LEMMA ReadSole == ASSUME Known, Sole, NEW c \in Call, ReadReparation(c) PROVE Sole'
<1>1. CASE End(c)
  <2>1. pc' = [pc EXCEPT ![c] = "done"] /\ "done" \notin Redeeming
    BY <1>1 DEF End, Goto, Redeeming
  <2>2. UNCHANGED record
    BY DEF ReadReparation, store
  <2>3. UNCHANGED overlapped \/ overlapped' = (overlapped \/ \E d \in Call : pc[d] \in Redeeming)
    BY DEF ReadReparation
  <2>4. overlapped => overlapped'
    BY <2>3 DEF Known, Types, TypeOK
  <2> QED
    BY <2>1, <2>2, <2>4, SoleMoves DEF Known
<1>2. CASE ~ End(c)
  <2>1. /\ Eligible /\ pc' = [pc EXCEPT ![c] = "prepare"] /\ UNCHANGED record
        /\ overlapped' = (overlapped \/ \E d \in Call : pc[d] \in Redeeming)
    BY <1>2 DEF ReadReparation, Goto, store
  <2>2. ASSUME ~ overlapped', NEW d \in Call, pc'[d] \in Redeeming PROVE d = c
    BY <2>1, <2>2 DEF Known, Types, TypeOK
  <2> QED
    BY <2>1, <2>2 DEF Sole, Eligible
<1> QED
  BY <1>1, <1>2

\* Inside a redemption, and out of it.
LEMMA ProceedSole == ASSUME Known, Sole, NEW c \in Call, Proceed(c) PROVE Sole'
<1>1. CASE Consume(c)
  BY <1>1, SoleMoves DEF Consume, Goto, Known, Redeeming, store, history
<1>2. CASE ReadReparation(c)
  BY <1>2, ReadSole
<1>3. CASE Bootstrap(c) \/ LoadSponsor(c) \/ Submit(c) \/ SubmitThrows(c)
           \/ PollSucceeds(c) \/ PollThrows(c) \/ Throw(c)
  <2>1. PICK p : pc' = [pc EXCEPT ![c] = p]
    BY <1>3 DEF Bootstrap, LoadSponsor, Submit, SubmitThrows, PollSucceeds, PollThrows, Throw, Goto
  <2>2. pc[c] \in Redeeming /\ UNCHANGED <<record, overlapped>>
    BY <1>3 DEF Bootstrap, LoadSponsor, Submit, SubmitThrows, PollSucceeds, PollThrows, Throw,
                Redeeming, store, history
  <2> QED
    BY <2>1, <2>2, SoleMoves DEF Known
<1>4. CASE Persist(c)
  <2>1. PICK p, r : p = AfterPaying(c, paid[c]) /\ r = copy[c]
    OBVIOUS
  <2>2. r \in Record /\ r.status # "redeemed"
    BY <1>4, <2>1 DEF Persist, Known, RequestsOK, Redeeming, Knows
  <2>3. record' = [r EXCEPT !.paid["hitz"] = paid[c]["hitz"]]
    BY <1>4, <2>1 DEF Persist
  <2>4. record'.status # "redeemed"
    BY <2>2, <2>3 DEF Record
  <2> QED
    BY <1>4, <2>1, <2>4, SoleMoves DEF Persist, Goto, Known, Redeeming, history
<1>5. CASE MarkRedeemed(c) \/ MarkFailed(c)
  BY <1>5, SoleMoves DEF MarkRedeemed, MarkFailed, End, Goto, Known, Redeeming, history
<1> QED
  BY <1>1, <1>2, <1>3, <1>4, <1>5 DEF Proceed

LEMMA OthersSole ==
    ASSUME Known, Sole,
           \/ \E t \in Token : Login(t) \/ Expire(t)
           \/ \E t \in Token, xlm \in BOOLEAN : PostReparation(t, xlm)
           \/ ExpireReparation
           \/ \E c \in Call, t \in Token : LookUp(c, t)
           \/ \E c \in Call : Vanish(c)
           \/ \E t \in inFlight : Land(t) \/ Drop(t)
           \/ SponsorTraffic
    PROVE  Sole'
<1>1. CASE (\E t \in Token : Login(t) \/ Expire(t)) \/ SponsorTraffic
           \/ \E t \in inFlight : Land(t) \/ Drop(t)
  BY <1>1, SoleStays DEF Login, Expire, SponsorTraffic, Land, Drop, store, history
<1>2. CASE (\E t \in Token, xlm \in BOOLEAN : PostReparation(t, xlm)) \/ ExpireReparation
  BY <1>2, SoleStays DEF PostReparation, ExpireReparation, FreshRecord, history
<1>3. ASSUME NEW c \in Call, NEW t \in Token, LookUp(c, t) PROVE Sole'
  <2>1. PICK p \in {"delete", "done"} : pc' = [pc EXCEPT ![c] = p]
    BY <1>3 DEF LookUp, End, Goto
  <2> QED
    BY <1>3, <2>1, SoleMoves DEF LookUp, Known, Redeeming, store, history
<1>4. ASSUME NEW c \in Call, Vanish(c) PROVE Sole'
  BY <1>4, SoleMoves DEF Vanish, End, Goto, Known, Redeeming, store
<1> QED
  BY <1>1, <1>2, <1>3, <1>4

LEMMA SoleInvariance == Spec => []Sole
<1>1. Known /\ Sole /\ [Next]_vars => Sole'
  <2> SUFFICES ASSUME Known, Sole, Next \/ UNCHANGED vars PROVE Sole'
    OBVIOUS
  <2>1. CASE UNCHANGED vars
    BY <2>1, SoleStays DEF vars, store, history
  <2> QED
    BY <2>1, ProceedSole, OthersSole DEF Next
<1>2. Init => Sole
  BY DEF Init, Sole, Redeeming
<1> QED
  BY <1>1, <1>2, KnownInvariance, PTL DEF Spec

\* While redemptions have not overlapped, the one inside knows every leg that
\* the record says is paid.
Informed ==
    ~overlapped =>
       \A c \in Call : pc[c] \in Redeeming /\ record # None =>
          \A l \in Leg : record.paid[l] # None => paid[c][l] = record.paid[l]

\* One request moves, over the same record or out of the redemption.
LEMMA InformedMoves ==
    ASSUME Types, Informed, NEW c \in Call, NEW p, NEW m,
           pc' = [pc EXCEPT ![c] = p], paid' = [paid EXCEPT ![c] = m],
           overlapped => overlapped', UNCHANGED record,
           ~overlapped' /\ p \in Redeeming /\ record # None =>
              \A l \in Leg : record.paid[l] # None => m[l] = record.paid[l]
    PROVE  Informed'
<1>1. ASSUME NEW d \in Call
      PROVE  \/ d = c /\ pc'[d] = p /\ paid'[d] = m
             \/ pc'[d] = pc[d] /\ paid'[d] = paid[d]
  BY DEF Types, TypeOK
<1> QED
  BY <1>1 DEF Informed

LEMMA InformedStays ==
    ASSUME Informed, UNCHANGED <<pc, paid, overlapped>>,
           UNCHANGED record \/ record' = None \/ \A l \in Leg : record'.paid[l] = None
    PROVE  Informed'
BY DEF Informed

\* Reading, and going on without a write.
LEMMA PayingInformed ==
    ASSUME Known, Informed, NEW c \in Call,
           \/ Consume(c) \/ ReadReparation(c) \/ Bootstrap(c) \/ LoadSponsor(c) \/ Submit(c)
           \/ SubmitThrows(c) \/ PollSucceeds(c) \/ PollThrows(c) \/ Throw(c)
    PROVE  Informed'
<1>1. CASE Consume(c)
  <2>1. pc' = [pc EXCEPT ![c] = "read"] /\ UNCHANGED <<record, paid, overlapped>> /\ "read" \notin Redeeming
    BY <1>1 DEF Consume, Goto, Redeeming, store, locals, history
  <2>2. paid' = [paid EXCEPT ![c] = paid[c]]
    BY <2>1 DEF Known, Types, TypeOK
  <2> QED
    BY <2>1, <2>2, InformedMoves DEF Known
<1>2. CASE ReadReparation(c)
  <2>1. CASE End(c)
    <3>1. /\ pc' = [pc EXCEPT ![c] = "done"] /\ "done" \notin Redeeming
          /\ paid' = [paid EXCEPT ![c] = Nothing] /\ UNCHANGED record
      BY <1>2, <2>1 DEF End, Goto, Redeeming, ReadReparation, store
    <3>2. overlapped => overlapped'
      BY <1>2 DEF ReadReparation, Known, Types, TypeOK
    <3> QED
      BY <3>1, <3>2, InformedMoves DEF Known
  <2>2. CASE ~ End(c)
    <3>1. /\ pc' = [pc EXCEPT ![c] = "prepare"] /\ paid' = [paid EXCEPT ![c] = record.paid]
          /\ UNCHANGED record
      BY <1>2, <2>2 DEF ReadReparation, Goto, store
    <3>2. overlapped => overlapped'
      BY <1>2 DEF ReadReparation, Known, Types, TypeOK
    <3> QED
      BY <3>1, <3>2, InformedMoves DEF Known
  <2> QED
    BY <2>1, <2>2
<1>3. CASE Bootstrap(c) \/ LoadSponsor(c) \/ Submit(c) \/ SubmitThrows(c) \/ PollThrows(c) \/ Throw(c)
  <2>1. PICK p : pc' = [pc EXCEPT ![c] = p]
    BY <1>3 DEF Bootstrap, LoadSponsor, Submit, SubmitThrows, PollThrows, Throw, Goto
  <2>2. pc[c] \in Redeeming /\ UNCHANGED <<record, paid, overlapped>>
    BY <1>3 DEF Bootstrap, LoadSponsor, Submit, SubmitThrows, PollThrows, Throw,
                Redeeming, store, locals, history
  <2>3. paid' = [paid EXCEPT ![c] = paid[c]]
    BY <2>2 DEF Known, Types, TypeOK
  <2>4. ~overlapped /\ record # None => \A l \in Leg : record.paid[l] # None => paid[c][l] = record.paid[l]
    BY <2>2 DEF Informed
  <2> QED
    BY <2>1, <2>2, <2>3, <2>4, InformedMoves DEF Known
<1>4. CASE PollSucceeds(c)
  <2>1. PICK p, m : /\ p = (IF tx[c].leg = "hitz" THEN "persist" ELSE "finish")
                    /\ m = [paid[c] EXCEPT ![tx[c].leg] = tx[c]]
    OBVIOUS
  <2>2. /\ pc[c] = "poll" /\ pc' = [pc EXCEPT ![c] = p] /\ UNCHANGED <<record, overlapped>>
        /\ paid' = [paid EXCEPT ![c] = m]
    BY <1>4, <2>1 DEF PollSucceeds, Goto, Known, Types, TypeOK, store, history
  <2>3. pc[c] \in Redeeming /\ Knows("poll", copy[c], paid[c], tx[c])
    BY <2>2 DEF Known, RequestsOK, Redeeming
  <2>4. paid[c][tx[c].leg] = None
    BY <2>3 DEF Knows, Owed
  <2>5. ASSUME ~overlapped, record # None, NEW l \in Leg, record.paid[l] # None
        PROVE  m[l] = record.paid[l]
    <3>1. paid[c][l] = record.paid[l]
      BY <2>3, <2>5 DEF Informed
    <3>2. l # tx[c].leg
      BY <2>4, <2>5, <3>1
    <3> QED
      BY <2>1, <2>3, <3>1, <3>2 DEF Knows
  <2> QED
    BY <2>2, <2>5, InformedMoves DEF Known
<1> QED
  BY <1>1, <1>2, <1>3, <1>4

\* A write says what the request knows.
LEMMA WrittenMarks ==
    ASSUME Known, NEW c \in Call, Persist(c) \/ MarkRedeemed(c) \/ MarkFailed(c)
    PROVE  record'.paid = paid[c] /\ pc[c] \in Redeeming /\ overlapped' = overlapped
<1>1. pc[c] \in {"persist", "finish", "catch"} /\ pc[c] \in Redeeming /\ overlapped' = overlapped
  BY DEF Persist, MarkRedeemed, MarkFailed, Redeeming, history
<1>2. PICK p, r, m, u : p = pc[c] /\ r = copy[c] /\ m = paid[c] /\ u = tx[c] /\ Knows(p, r, m, u)
  BY <1>1 DEF Known, RequestsOK
<1>3. r \in Record /\ m \in [Leg -> Tx \cup {None}] /\ r.paid \in [Leg -> Tx \cup {None}]
  BY <1>2 DEF Knows, Record
<1>4. CASE Persist(c)
  <2>1. p = "persist" /\ m["xlm"] = r.paid["xlm"]
    BY <1>2, <1>4 DEF Persist, Knows
  <2>2. record'.paid = [r.paid EXCEPT !["hitz"] = m["hitz"]]
    BY <1>2, <1>3, <1>4 DEF Persist, Record
  <2>3. [r.paid EXCEPT !["hitz"] = m["hitz"]] = m
    BY <1>3, <2>1 DEF Leg
  <2> QED
    BY <1>1, <1>2, <2>2, <2>3
<1>5. CASE MarkRedeemed(c) \/ MarkFailed(c)
  <2>1. record'.paid = m
    BY <1>2, <1>3, <1>5 DEF MarkRedeemed, MarkFailed, FailedRecord, Record
  <2> QED
    BY <1>1, <1>2, <2>1
<1> QED
  BY <1>4, <1>5

\* A request that writes over the record it read keeps its progress.
LEMMA OwnCopyKeeps ==
    ASSUME Known, NEW c \in Call, Persist(c) \/ MarkRedeemed(c) \/ MarkFailed(c), copy[c] = record
    PROVE  ProgressKept
<1>1. record'.paid = paid[c] /\ pc[c] \in Redeeming
  BY WrittenMarks
<1>2. record.status # "redeemed" /\ \A l \in Leg : record.paid[l] # None => paid[c][l] = record.paid[l]
  BY <1>1 DEF Known, RequestsOK, Knows
<1> QED
  BY <1>1, <1>2 DEF ProgressKept

LEMMA WritesMove ==
    ASSUME Known, NEW c \in Call, Persist(c) \/ MarkRedeemed(c) \/ MarkFailed(c)
    PROVE  pc'[c] # pc[c]
BY DEF Persist, MarkRedeemed, MarkFailed, AfterPaying, End, Goto, Known, Types, TypeOK

LEMMA WriteInformed ==
    ASSUME Known, Sole, NEW c \in Call, Persist(c) \/ MarkRedeemed(c) \/ MarkFailed(c)
    PROVE  Informed'
<1> SUFFICES ASSUME ~overlapped', NEW d \in Call, pc'[d] \in Redeeming, NEW l \in Leg
             PROVE  paid'[d][l] = record'.paid[l]
  BY DEF Informed
<1>1. record'.paid = paid[c] /\ pc[c] \in Redeeming /\ ~overlapped
  BY WrittenMarks
<1>2. CASE Persist(c)
  <2>1. pc' = [pc EXCEPT ![c] = AfterPaying(c, paid[c])] /\ paid' = paid
    BY <1>2 DEF Persist, Goto, locals
  <2>2. d = c \/ pc[d] \in Redeeming
    BY <2>1 DEF Known, Types, TypeOK
  <2> QED
    BY <1>1, <2>1, <2>2 DEF Sole
<1>3. CASE MarkRedeemed(c) \/ MarkFailed(c)
  <2>1. pc' = [pc EXCEPT ![c] = "done"]
    BY <1>3 DEF MarkRedeemed, MarkFailed, End, Goto
  <2>2. d # c /\ pc[d] \in Redeeming
    BY <2>1 DEF Known, Types, TypeOK, Redeeming
  <2> QED
    BY <1>1, <2>2 DEF Sole
<1> QED
  BY <1>2, <1>3

LEMMA OthersInformed ==
    ASSUME Known, Informed,
           \/ \E t \in Token : Login(t) \/ Expire(t)
           \/ \E t \in Token, xlm \in BOOLEAN : PostReparation(t, xlm)
           \/ ExpireReparation
           \/ \E c \in Call, t \in Token : LookUp(c, t)
           \/ \E c \in Call : Vanish(c)
           \/ \E t \in inFlight : Land(t) \/ Drop(t)
           \/ SponsorTraffic
    PROVE  Informed'
<1>1. CASE (\E t \in Token : Login(t) \/ Expire(t)) \/ SponsorTraffic
           \/ \E t \in inFlight : Land(t) \/ Drop(t)
  BY <1>1, InformedStays DEF Login, Expire, SponsorTraffic, Land, Drop, store, locals, history
<1>2. CASE (\E t \in Token, xlm \in BOOLEAN : PostReparation(t, xlm)) \/ ExpireReparation
  BY <1>2, InformedStays DEF PostReparation, ExpireReparation, FreshRecord, Nothing, locals, history
<1>3. ASSUME NEW c \in Call, NEW t \in Token, LookUp(c, t) PROVE Informed'
  <2>1. PICK p, m : /\ p \notin Redeeming /\ pc' = [pc EXCEPT ![c] = p]
                    /\ paid' = [paid EXCEPT ![c] = m]
    <3>1. CASE End(c)
      BY <3>1 DEF End, Goto, Redeeming
    <3>2. CASE ~ End(c)
      <4>1. pc' = [pc EXCEPT ![c] = "delete"] /\ paid' = [paid EXCEPT ![c] = paid[c]]
        BY <1>3, <3>2 DEF LookUp, Goto, Known, Types, TypeOK
      <4> QED
        BY <4>1 DEF Redeeming
    <3> QED
      BY <3>1, <3>2
  <2>2. UNCHANGED <<record, overlapped>>
    BY <1>3 DEF LookUp, store, history
  <2> QED
    BY <2>1, <2>2, InformedMoves DEF Known
<1>4. ASSUME NEW c \in Call, Vanish(c) PROVE Informed'
  <2>1. /\ pc' = [pc EXCEPT ![c] = "done"] /\ "done" \notin Redeeming
        /\ paid' = [paid EXCEPT ![c] = Nothing] /\ UNCHANGED <<record, overlapped>>
    BY <1>4 DEF Vanish, End, Goto, Redeeming, store
  <2> QED
    BY <2>1, InformedMoves DEF Known
<1> QED
  BY <1>1, <1>2, <1>3, <1>4

LEMMA InformedInvariance == Spec => []Informed
<1>1. Known /\ Sole /\ Informed /\ [Next]_vars => Informed'
  <2> SUFFICES ASSUME Known, Sole, Informed, Next \/ UNCHANGED vars PROVE Informed'
    OBVIOUS
  <2>1. CASE UNCHANGED vars
    BY <2>1, InformedStays DEF vars, store, locals, history
  <2>2. ASSUME NEW c \in Call, Proceed(c) PROVE Informed'
    BY <2>2, PayingInformed, WriteInformed DEF Proceed
  <2> QED
    BY <2>1, <2>2, OthersInformed DEF Next
<1>2. Init => Informed
  BY DEF Init, Informed, Redeeming
<1> QED
  BY <1>1, <1>2, KnownInvariance, SoleInvariance, PTL DEF Spec

\* What the record says is paid or redeemed is taken back by no step of a
\* request, except, once redemptions have overlapped, by one whose copy is not
\* the record any more: a copy is never of a redeemed record, and a request that
\* is alone knows every leg the record says is paid.
THEOREM ProgressIsKept == Spec => ProgressStays
<1>1. Known /\ Sole /\ Informed /\ [Next]_vars => [record # None => ProgressKept \/ StaleCopyAtWork]_vars
  <2> SUFFICES ASSUME Known, Sole, Informed, Next, record # None
               PROVE  ProgressKept \/ StaleCopyAtWork
    OBVIOUS
  <2>1. UNCHANGED record => ProgressKept
    BY DEF ProgressKept
  <2>2. ASSUME NEW t \in Token, NEW xlm \in BOOLEAN, PostReparation(t, xlm) PROVE ProgressKept
    BY <2>2 DEF PostReparation, ProgressKept, Known, Types, TypeOK
  <2>3. ASSUME NEW c \in Call, Persist(c) \/ MarkRedeemed(c) \/ MarkFailed(c)
        PROVE  ProgressKept \/ StaleCopyAtWork
    <3>1. record'.paid = paid[c] /\ pc[c] \in Redeeming
      BY <2>3, WrittenMarks
    <3>2. CASE ~overlapped
      <4>1. record.status # "redeemed"
        BY <2>3, <3>1, <3>2 DEF Sole
      <4>2. \A l \in Leg : record.paid[l] # None => record'.paid[l] = record.paid[l]
        BY <3>1, <3>2 DEF Informed
      <4> QED
        BY <4>1, <4>2 DEF ProgressKept
    <3>3. CASE overlapped /\ copy[c] # record
      BY <2>3, <3>1, <3>3, WritesMove DEF StaleCopyAtWork
    <3>4. CASE copy[c] = record
      BY <2>3, <3>4, OwnCopyKeeps
    <3> QED
      BY <3>2, <3>3, <3>4
  <2>4. ASSUME NEW c \in Call, Proceed(c) PROVE ProgressKept \/ StaleCopyAtWork
    <3>1. CASE Persist(c) \/ MarkRedeemed(c) \/ MarkFailed(c)
      BY <2>3, <3>1
    <3>2. CASE ~ (Persist(c) \/ MarkRedeemed(c) \/ MarkFailed(c))
      BY <2>1, <2>4, <3>2 DEF Proceed, Consume, ReadReparation, Bootstrap, LoadSponsor, Submit,
                      SubmitThrows, PollSucceeds, PollThrows, Throw, store
    <3> QED
      BY <3>1, <3>2
  <2>5. CASE ExpireReparation
    BY <2>5 DEF ExpireReparation, ProgressKept
  <2> QED
    BY <2>1, <2>2, <2>4, <2>5 DEF Next, Login, Expire, LookUp, Vanish, Land, Drop,
                      SponsorTraffic, store
<1> QED
  BY <1>1, KnownInvariance, SoleInvariance, InformedInvariance, PTL DEF Spec, ProgressStays
-----------------------------------------------------------------------------
(* The account of payments.                                                *)

\* Payments of leg l that landed or still may.
Spent(l) == {t \in inFlight \cup landed : t.leg = l}

\* There is a post for every one of them, and for one more.
Covered(l) == Cardinality(Spent(l)) + 1 <= posts

\* Awaits after a payment was sent.
Sent == {"poll", "persist", "finish", "catch"}

\* Posts cover what is spent, ...
Booked == \A l \in Leg : Cardinality(Spent(l)) <= posts

\* ... a leg that a request will pay or is paying, ...
Allowed ==
    \A l \in Leg, c \in Call :
       pc[c] \in Redeeming /\ paid[c][l] = None => Cardinality(Spent(l) \ {tx[c]}) + 1 <= posts

\* ... and a leg that the record lets the next request pay.
Claimable ==
    \A l \in Leg :
       /\ record # None /\ record.paid[l] = None
       /\ \A c \in Call : pc[c] \in Sent => tx[c] \notin Spent(l)
       => Covered(l)

\* A request that failed left no payment behind that it does not know.
Settled ==
    \A c \in Call :
       pc[c] = "catch" /\ tx[c] # None /\ paid[c][tx[c].leg] = None =>
           tx[c] \notin inFlight \cup landed

Account == Booked /\ Allowed /\ Claimable /\ Settled

Ledger == ~overlapped /\ ~lost => Account

LEMMA SpentFinite ==
    ASSUME Types, NEW l \in Leg
    PROVE  /\ IsFiniteSet(Spent(l)) /\ Cardinality(Spent(l)) \in Nat /\ posts \in Nat
           /\ \A x : /\ IsFiniteSet(Spent(l) \ {x}) /\ Cardinality(Spent(l) \ {x}) \in Nat
                     /\ Cardinality(Spent(l) \ {x}) =
                          IF x \in Spent(l) THEN Cardinality(Spent(l)) - 1 ELSE Cardinality(Spent(l))
<1>1. IsFiniteSet(inFlight \cup landed)
  BY FS_Union DEF Types
<1>2. IsFiniteSet(Spent(l))
  BY <1>1, FS_Subset DEF Spent
<1> QED
  BY <1>2, FS_RemoveElement, FS_CardinalityType DEF Types, TypeOK

\* A payment is of one leg, and nothing is no payment.
LEMMA SpentIsOfItsLeg ==
    ASSUME Types, NEW l \in Leg
    PROVE  None \notin Spent(l) /\ \A u \in Spent(l) : u.leg = l
BY NoneAssumption DEF Spent, Types, TypeOK

\* A request whose payment u is none, or of a leg it knows to be paid, has spent
\* nothing on the legs it does not know.
LEMMA TrafficPayment ==
    ASSUME Types, NEW l \in Leg, NEW m, NEW u, m[l] = None, u = None \/ m[u.leg] # None
    PROVE  u \notin Spent(l) /\ Spent(l) \ {u} = Spent(l)
<1>1. u \notin Spent(l)
  BY SpentIsOfItsLeg
<1> QED
  BY <1>1
\* While redemptions have not overlapped, the others are outside.
LEMMA OthersOutside ==
    ASSUME Sole, ~overlapped, NEW c \in Call, pc[c] \in Redeeming
    PROVE  \A d \in Call : d # c => pc[d] \notin Redeeming
BY DEF Sole

MovesTo(c, p, m, u) ==
    /\ pc' = [pc EXCEPT ![c] = p]
    /\ paid' = [paid EXCEPT ![c] = m]
    /\ tx' = [tx EXCEPT ![c] = u]

\* The account fits the one request inside, at await p with marks m and payment u.
Fits(p, m, u) ==
    /\ \A l \in Leg : p \in Redeeming /\ m[l] = None => Cardinality(Spent(l) \ {u}) + 1 <= posts
    /\ \A l \in Leg :
          /\ record # None /\ record.paid[l] = None
          /\ p \in Sent => u \notin Spent(l)
          => Covered(l)
    /\ p = "catch" /\ u # None /\ m[u.leg] = None => u \notin inFlight \cup landed

\* The account after that request has moved.
LEMMA AccountMoves ==
    ASSUME Types, NEW c \in Call, \A d \in Call : d # c => pc[d] \notin Redeeming,
           NEW p, NEW m, NEW u, MovesTo(c, p, m, u), Booked', Fits(p, m, u)'
    PROVE  Account'
<1>1. /\ pc'[c] = p /\ paid'[c] = m /\ tx'[c] = u
      /\ \A d \in Call : d # c => pc'[d] \notin Redeeming
  BY DEF Types, TypeOK, MovesTo
<1>2. Allowed'
  BY <1>1 DEF Allowed, Fits
<1>3. Claimable'
  BY <1>1 DEF Claimable, Fits
<1>4. Settled'
  BY <1>1 DEF Settled, Redeeming, Fits
<1> QED
  BY <1>2, <1>3, <1>4 DEF Account

LEMMA SpentStays ==
    ASSUME UNCHANGED <<inFlight, landed, posts>>
    PROVE  \A l \in Leg : Spent(l)' = Spent(l) /\ (Covered(l)' <=> Covered(l))
<1>1. \A l \in Leg : Spent(l)' = Spent(l)
  BY DEF Spent
<1> QED
  BY <1>1 DEF Covered

\* No request inside moves, and no payment becomes possible.
LEMMA AccountStays ==
    ASSUME Account, UNCHANGED <<inFlight, landed, posts>>,
           UNCHANGED record \/ record' = None,
           \A c \in Call : \/ pc'[c] = pc[c] /\ paid'[c] = paid[c] /\ tx'[c] = tx[c]
                           \/ pc[c] \notin Redeeming /\ pc'[c] \notin Redeeming
    PROVE  Account'
<1>1. Sent \subseteq Redeeming /\ "catch" \in Redeeming
  BY DEF Sent, Redeeming
<1>2. Booked'
  BY SpentStays DEF Account, Booked
<1>3. Allowed'
  BY SpentStays DEF Account, Allowed
<1>4. Claimable'
  <2> SUFFICES ASSUME NEW l \in Leg, record' # None, record'.paid[l] = None,
                      \A c \in Call : pc'[c] \in Sent => tx'[c] \notin Spent(l)'
               PROVE  Covered(l)'
    BY DEF Claimable
  <2>1. record # None /\ record.paid[l] = None
    OBVIOUS
  <2>2. \A c \in Call : pc[c] \in Sent => tx[c] \notin Spent(l)
    BY <1>1, SpentStays
  <2> QED
    BY <2>1, <2>2, SpentStays DEF Account, Claimable
<1>5. Settled'
  BY <1>1 DEF Account, Settled
<1> QED
  BY <1>2, <1>3, <1>4, <1>5 DEF Account
\* A request outside stays outside.
LEMMA OutsideMoves ==
    ASSUME Types, Account, NEW c \in Call, pc[c] \notin Redeeming,
           UNCHANGED <<inFlight, landed, posts, record>>,
           \/ End(c)
           \/ UNCHANGED <<paid, tx>> /\ \E p : Goto(c, p) /\ p \notin Redeeming
    PROVE  Account'
<1>1. \A d \in Call : d # c => pc'[d] = pc[d] /\ paid'[d] = paid[d] /\ tx'[d] = tx[d]
  BY DEF End, Goto, Types, TypeOK
<1>2. pc'[c] \notin Redeeming
  BY DEF End, Goto, Redeeming, Types, TypeOK
<1>3. \A d \in Call : \/ pc'[d] = pc[d] /\ paid'[d] = paid[d] /\ tx'[d] = tx[d]
                      \/ pc[d] \notin Redeeming /\ pc'[d] \notin Redeeming
  BY <1>1, <1>2
<1> QED
  BY <1>3, AccountStays, ZenonT(60)

LEMMA OutsideAccount ==
    ASSUME Known, Account,
           \/ \E t \in Token : Login(t) \/ Expire(t)
           \/ ExpireReparation
           \/ \E c \in Call, t \in Token : LookUp(c, t)
           \/ \E c \in Call : Consume(c)
           \/ \E c \in Call : (ReadReparation(c) \/ Vanish(c)) /\ End(c) /\ pc[c] \notin Redeeming
    PROVE  Account'
<1>1. CASE (\E t \in Token : Login(t) \/ Expire(t)) \/ ExpireReparation
  <2>1. /\ UNCHANGED <<inFlight, landed, posts>> /\ UNCHANGED <<pc, paid, tx>>
        /\ UNCHANGED record \/ record' = None
    BY <1>1 DEF Login, Expire, ExpireReparation, store, locals, chain
  <2>2. \A d \in Call : \/ pc'[d] = pc[d] /\ paid'[d] = paid[d] /\ tx'[d] = tx[d]
                        \/ pc[d] \notin Redeeming /\ pc'[d] \notin Redeeming
    BY <2>1
  <2> QED
    BY <2>1, <2>2, AccountStays, ZenonT(60)
<1>2. ASSUME NEW c \in Call, NEW t \in Token, LookUp(c, t) PROVE Account'
  <2>1. /\ pc[c] \notin Redeeming /\ UNCHANGED <<inFlight, landed, posts, record>>
        /\ \/ End(c)
           \/ UNCHANGED <<paid, tx>> /\ Goto(c, "delete") /\ "delete" \notin Redeeming
    BY <1>2 DEF LookUp, Redeeming, store, chain
  <2> QED
    BY <2>1, OutsideMoves DEF Known
<1>3. ASSUME NEW c \in Call, Consume(c) PROVE Account'
  <2>1. /\ pc[c] \notin Redeeming /\ UNCHANGED <<inFlight, landed, posts, record>>
        /\ UNCHANGED <<paid, tx>> /\ Goto(c, "read") /\ "read" \notin Redeeming
    BY <1>3 DEF Consume, Redeeming, store, locals, chain
  <2> QED
    BY <2>1, OutsideMoves DEF Known
<1>4. ASSUME NEW c \in Call, ReadReparation(c) \/ Vanish(c), End(c), pc[c] \notin Redeeming
      PROVE  Account'
  <2>1. UNCHANGED <<inFlight, landed, posts, record>>
    BY <1>4 DEF ReadReparation, Vanish, store, chain
  <2> QED
    BY <1>4, <2>1, OutsideMoves DEF Known
<1> QED
  BY <1>1, <1>2, <1>3, <1>4

\* A new post covers one more payment of each leg.
LEMMA PostAccount ==
    ASSUME Known, Account, NEW t \in Token, NEW xlm \in BOOLEAN, PostReparation(t, xlm)
    PROVE  Account'
<1>1. UNCHANGED <<pc, paid, tx, inFlight, landed>> /\ posts' = posts + 1 /\ posts \in Nat
  BY DEF PostReparation, locals, chain, Known, Types, TypeOK
<1>2. \A l \in Leg : Spent(l)' = Spent(l)
  BY <1>1 DEF Spent
<1>3. \A l \in Leg : Cardinality(Spent(l)) \in Nat /\ \A x : Cardinality(Spent(l) \ {x}) \in Nat
  BY SpentFinite DEF Known
<1>4. Booked' /\ Claimable'
  BY <1>1, <1>2, <1>3 DEF Account, Booked, Claimable, Covered
<1>5. Allowed'
  <2> SUFFICES ASSUME NEW l \in Leg, NEW c \in Call, pc'[c] \in Redeeming, paid'[c][l] = None
               PROVE  Cardinality(Spent(l)' \ {tx'[c]}) + 1 <= posts'
    BY DEF Allowed
  <2>1. Cardinality(Spent(l) \ {tx[c]}) + 1 <= posts
    BY <1>1 DEF Account, Allowed
  <2>2. Spent(l)' \ {tx'[c]} = Spent(l) \ {tx[c]}
    BY <1>1, <1>2
  <2>3. Cardinality(Spent(l) \ {tx[c]}) \in Nat
    BY <1>3
  <2> QED
    BY <1>1, <2>1, <2>2, <2>3
<1>6. Settled'
  BY <1>1 DEF Account, Settled
<1> QED
  BY <1>4, <1>5, <1>6 DEF Account

\* A redemption begins: what the record lets it pay is covered.
LEMMA ReadAccount ==
    ASSUME Known, Account, NEW c \in Call, ReadReparation(c), ~ End(c), ~overlapped'
    PROVE  Account'
<1>1. PICK m : m = record.paid
  OBVIOUS
<1>2. /\ record # None /\ pc[c] = "read" /\ \A d \in Call : pc[d] \notin Redeeming
      /\ pc' = [pc EXCEPT ![c] = "prepare"] /\ paid' = [paid EXCEPT ![c] = m] /\ UNCHANGED tx
  BY <1>1 DEF ReadReparation, Eligible, Goto
<1>3. tx[c] = None /\ tx' = [tx EXCEPT ![c] = None]
  BY <1>2 DEF Known, RequestsOK, Types, TypeOK, Redeeming
<1>4. UNCHANGED <<inFlight, landed, posts, record>>
  BY DEF ReadReparation, store, chain
<1>5. \A l \in Leg : m[l] = None => Covered(l)
  BY <1>1, <1>2 DEF Account, Claimable, Sent, Redeeming
<1>6. \A l \in Leg : m[l] = None => Cardinality(Spent(l)' \ {None}) + 1 <= posts'
  <2> SUFFICES ASSUME NEW l \in Leg, m[l] = None
               PROVE  Cardinality(Spent(l)' \ {None}) + 1 <= posts'
    OBVIOUS
  <2>1. Spent(l) \ {None} = Spent(l)
    BY SpentIsOfItsLeg DEF Known
  <2> QED
    BY <1>4, <1>5, <2>1, SpentStays DEF Covered
<1>7. Booked'
  BY <1>4, SpentStays DEF Account, Booked
<1>8. \A l \in Leg : record' # None /\ record'.paid[l] = None => Covered(l)'
  BY <1>1, <1>4, <1>5, SpentStays
<1>9. MovesTo(c, "prepare", m, None)
  BY <1>2, <1>3 DEF MovesTo
<1>10. Fits("prepare", m, None)'
  BY <1>6, <1>8 DEF Fits
<1> QED
  BY <1>2, <1>7, <1>9, <1>10, AccountMoves DEF Known

\* Moves of a request inside that send nothing.
LEMMA BootstrapAccount ==
    ASSUME Known, Sole, Account, ~overlapped, NEW c \in Call, Bootstrap(c) \/ LoadSponsor(c)
    PROVE  Account'
<1>1. PICK m, old, p, u :
         /\ m = paid[c] /\ old = tx[c] /\ pc' = [pc EXCEPT ![c] = p]
         /\ p \in {"load", "submit", "finish"} /\ tx' = [tx EXCEPT ![c] = u]
         /\ u = old \/ p = "submit"
  <2>1. CASE Bootstrap(c)
    <3>1. AfterPaying(c, paid[c]) \in {"load", "finish"}
      BY DEF AfterPaying
    <3>2. tx' = [tx EXCEPT ![c] = tx[c]]
      BY <2>1 DEF Bootstrap, locals, Known, Types, TypeOK
    <3> QED
      BY <2>1, <3>1, <3>2 DEF Bootstrap, Goto
  <2>2. CASE LoadSponsor(c)
    BY <2>2 DEF LoadSponsor, Goto
  <2> QED
    BY <2>1, <2>2
<1>2. /\ pc[c] \in {"prepare", "load"} /\ UNCHANGED <<record, inFlight, landed, posts, paid>>
      /\ paid' = [paid EXCEPT ![c] = m]
  BY <1>1 DEF Bootstrap, LoadSponsor, store, locals, chain, Known, Types, TypeOK
<1>3. pc[c] \in Redeeming /\ (old = None \/ m[old.leg] # None)
  BY <1>1, <1>2 DEF Known, RequestsOK, Redeeming, Knows
<1>4. \A l \in Leg : m[l] = None => old \notin Spent(l) /\ Spent(l) \ {old} = Spent(l)
  BY <1>3, TrafficPayment DEF Known
<1>5. \A l \in Leg : m[l] = None => Cardinality(Spent(l)' \ {u}) + 1 <= posts'
  <2> SUFFICES ASSUME NEW l \in Leg, m[l] = None
               PROVE  Cardinality(Spent(l) \ {u}) + 1 <= posts
    BY <1>2, SpentStays
  <2>1. Cardinality(Spent(l)) + 1 <= posts
    BY <1>1, <1>3, <1>4 DEF Account, Allowed
  <2>2. /\ posts \in Nat /\ Cardinality(Spent(l)) \in Nat
        /\ Cardinality(Spent(l) \ {u}) \in {Cardinality(Spent(l)), Cardinality(Spent(l)) - 1}
    BY SpentFinite DEF Known
  <2> QED
    BY <2>1, <2>2
<1>6. Booked'
  BY <1>2, SpentStays DEF Account, Booked
<1>7. \A l \in Leg : record' # None /\ record'.paid[l] = None => Covered(l)'
  <2> SUFFICES ASSUME NEW l \in Leg, record # None, record.paid[l] = None PROVE Covered(l)
    BY <1>2, SpentStays
  <2>1. \A d \in Call : pc[d] \notin Sent
    BY <1>2, <1>3, OthersOutside DEF Sent, Redeeming
  <2> QED
    BY <2>1 DEF Account, Claimable
<1>8. p # "catch" /\ \A d \in Call : d # c => pc[d] \notin Redeeming
  BY <1>1, <1>3, OthersOutside
<1>9. MovesTo(c, p, m, u)
  BY <1>1, <1>2 DEF MovesTo
<1>10. Fits(p, m, u)'
  BY <1>5, <1>7, <1>8 DEF Fits
<1> QED
  BY <1>6, <1>8, <1>9, <1>10, AccountMoves DEF Known
\* Sending: the payment was covered when it was built.
LEMMA SendAccount ==
    ASSUME Known, Sole, Account, ~overlapped, NEW c \in Call,
           Submit(c) \/ (SubmitThrows(c) /\ ~lost')
    PROVE  Account'
<1>1. PICK m, u, p :
         /\ m = paid[c] /\ u = tx[c] /\ pc' = [pc EXCEPT ![c] = p] /\ p \in {"poll", "catch"}
         /\ p = "catch" => u \notin (inFlight \cup landed)'
  <2>1. PICK p : /\ pc' = [pc EXCEPT ![c] = p] /\ p \in {"poll", "catch"}
                 /\ p = "catch" => SubmitThrows(c) /\ ~lost'
    BY DEF Submit, SubmitThrows, Goto
  <2>2. p = "catch" => tx[c] \notin (inFlight \cup landed)'
    BY <2>1 DEF SubmitThrows
  <2> QED
    BY <2>1, <2>2
<1>2. /\ pc[c] = "submit" /\ pc[c] \in Redeeming /\ UNCHANGED <<record, landed, posts, paid, tx>>
      /\ inFlight \subseteq inFlight' /\ inFlight' \subseteq inFlight \cup {u}
  BY <1>1 DEF Submit, SubmitThrows, SentBy, Redeeming, store, locals
<1>3. Knows("submit", copy[c], m, u) /\ u \in Tx /\ m[u.leg] = None /\ u.leg \in Leg
  BY <1>1, <1>2 DEF Known, RequestsOK, Knows, Owed
<1>4. MovesTo(c, p, m, u)
  BY <1>1, <1>2 DEF MovesTo, Known, Types, TypeOK
<1>5. \A l \in Leg : Spent(l)' \in {Spent(l), Spent(l) \cup {u}} /\ (l # u.leg => Spent(l)' = Spent(l))
  BY <1>2 DEF Spent
<1>6. \A l \in Leg : Spent(l)' \ {u} = Spent(l) \ {u}
  BY <1>5
<1>7. \A l \in Leg : m[l] = None => Cardinality(Spent(l) \ {u}) + 1 <= posts
  BY <1>1, <1>2 DEF Account, Allowed
<1>8. Booked'
  <2> SUFFICES ASSUME NEW l \in Leg PROVE Cardinality(Spent(l)') <= posts
    BY <1>2 DEF Booked
  <2>1. CASE Spent(l)' = Spent(l)
    BY <2>1 DEF Account, Booked
  <2>2. CASE Spent(l)' = Spent(l) \cup {u} /\ l = u.leg
    <3>1. Spent(l)' = (Spent(l) \ {u}) \cup {u}
      BY <2>2
    <3>2. IsFiniteSet(Spent(l) \ {u}) /\ Cardinality(Spent(l) \ {u}) \in Nat
      BY SpentFinite DEF Known
    <3>3. Cardinality(Spent(l)') = Cardinality(Spent(l) \ {u}) + 1
      BY <3>1, <3>2, FS_AddElement
    <3> QED
      BY <1>3, <1>7, <2>2, <3>3
  <2> QED
    BY <1>5, <2>1, <2>2
<1>9. Fits(p, m, u)'
  <2>1. \A l \in Leg : m[l] = None => Cardinality(Spent(l)' \ {u}) + 1 <= posts'
    BY <1>2, <1>6, <1>7
  <2>2. ASSUME NEW l \in Leg, record' # None, record'.paid[l] = None, u \notin Spent(l)'
        PROVE  Covered(l)'
    <3>1. \A d \in Call : pc[d] \notin Sent
      BY <1>2, OthersOutside DEF Sent, Redeeming
    <3>2. Covered(l)
      BY <1>2, <2>2, <3>1 DEF Account, Claimable
    <3>3. Spent(l)' = Spent(l)
      BY <1>5, <2>2
    <3> QED
      BY <1>2, <3>2, <3>3 DEF Covered
  <2> QED
    BY <1>1, <2>1, <2>2 DEF Fits, Sent
<1> QED
  BY <1>2, <1>4, <1>8, <1>9, AccountMoves, OthersOutside DEF Known

\* A request hears of its payment, gives it up, or fails elsewhere.
LEMMA PollAccount ==
    ASSUME Known, Sole, Account, ~overlapped, NEW c \in Call,
           PollSucceeds(c) \/ (PollThrows(c) /\ ~lost') \/ Throw(c)
    PROVE  Account'
<1>1. PICK m, u, n, p :
         /\ m = paid[c] /\ u = tx[c] /\ n = paid'[c] /\ p = pc'[c]
  OBVIOUS
<1>2. /\ pc[c] \in {"poll", "prepare", "load", "persist", "finish"} /\ pc[c] \in Redeeming
      /\ UNCHANGED <<record, inFlight, landed, posts, tx>>
  BY DEF PollSucceeds, PollThrows, Throw, Redeeming, store, locals, chain
<1>3. Knows(pc[c], copy[c], m, u)
  BY <1>1, <1>2 DEF Known, RequestsOK
<1>4. MovesTo(c, p, n, u) /\ (n = m \/ n = [m EXCEPT ![u.leg] = u])
  <2>1. /\ \E q : pc' = [pc EXCEPT ![c] = q]
        /\ UNCHANGED paid \/ paid' = [paid EXCEPT ![c] = [paid[c] EXCEPT ![tx[c].leg] = tx[c]]]
    BY DEF PollSucceeds, PollThrows, Throw, Goto, locals, Known, Types, TypeOK
  <2> QED
    BY <1>1, <1>2, <2>1 DEF MovesTo, Known, Types, TypeOK
<1>5. PollSucceeds(c) => p \in {"persist", "finish"} /\ pc[c] = "poll"
  BY <1>1 DEF PollSucceeds, Goto, Known, Types, TypeOK
<1>6. ~PollSucceeds(c) => p = "catch" /\ n = m
  BY <1>1 DEF PollThrows, Throw, Goto, locals, Known, Types, TypeOK
<1>7. \A l \in Leg : n[l] = None => m[l] = None
  <2>1. CASE PollSucceeds(c)
    <3>1. u \in Tx /\ u # None /\ m \in [Leg -> Tx \cup {None}]
      BY <1>3, <1>5, <2>1, NoneAssumption DEF Knows
    <3> HIDE DEF Tx
    <3> QED
      BY <1>4, <3>1
  <2> QED
    BY <1>6, <2>1
<1>8. p = "catch" /\ u # None /\ m[u.leg] = None => u \notin inFlight \cup landed
  <2> SUFFICES ASSUME p = "catch", u # None, m[u.leg] = None PROVE u \notin inFlight \cup landed
    OBVIOUS
  <2>1. CASE PollThrows(c) /\ ~lost'
    BY <1>1, <2>1 DEF PollThrows
  <2>2. CASE Throw(c)
    BY <1>3, <2>2 DEF Throw, Knows
  <2> QED
    BY <1>5, <2>1, <2>2
<1>9. Booked'
  BY <1>2, SpentStays DEF Account, Booked
<1>10. Fits(p, n, u)'
  <2>1. \A l \in Leg : n[l] = None => Cardinality(Spent(l)' \ {u}) + 1 <= posts'
    BY <1>1, <1>2, <1>7, SpentStays DEF Account, Allowed
  <2>2. ASSUME NEW l \in Leg, record' # None, record'.paid[l] = None, u \notin Spent(l)'
        PROVE  Covered(l)'
    <3>1. \A d \in Call : pc[d] \in Sent => tx[d] \notin Spent(l)
      BY <1>1, <1>2, <2>2, OthersOutside, SpentStays DEF Sent, Redeeming
    <3> QED
      BY <1>2, <2>2, <3>1, SpentStays DEF Account, Claimable
  <2>3. p \in Sent
    BY <1>5, <1>6 DEF Sent
  <2>4. p = "catch" /\ u # None /\ n[u.leg] = None => u \notin (inFlight \cup landed)'
    BY <1>2, <1>5, <1>6, <1>8
  <2> QED
    BY <2>1, <2>2, <2>3, <2>4 DEF Fits
<1> QED
  BY <1>2, <1>4, <1>9, <1>10, AccountMoves, OthersOutside DEF Known
\* The HITZ hash is recorded; what the record still allows is what the request
\* does not know to be paid.
LEMMA PersistAccount ==
    ASSUME Known, Sole, Account, ~overlapped, NEW c \in Call, Persist(c)
    PROVE  Account'
<1>1. PICK r, m, u, p : r = copy[c] /\ m = paid[c] /\ u = tx[c] /\ p = AfterPaying(c, paid[c])
  OBVIOUS
<1>2. /\ pc[c] = "persist" /\ pc[c] \in Redeeming /\ pc' = [pc EXCEPT ![c] = p]
      /\ record' = [r EXCEPT !.paid["hitz"] = m["hitz"]]
      /\ UNCHANGED <<inFlight, landed, posts, paid, tx>>
  BY <1>1 DEF Persist, Goto, Redeeming, locals, chain
<1>3. Knows("persist", r, m, u)
  BY <1>1, <1>2 DEF Known, RequestsOK
<1>4. /\ r \in Record /\ u \in Tx /\ u # None /\ u.leg = "hitz" /\ m["hitz"] = u
      /\ m["xlm"] = r.paid["xlm"]
  BY <1>3, NoneAssumption DEF Knows
<1>5. MovesTo(c, p, m, u) /\ p # "catch"
  BY <1>1, <1>2 DEF MovesTo, AfterPaying, Known, Types, TypeOK
<1>6. \A l \in Leg : record'.paid[l] = m[l]
  <2> HIDE DEF Tx
  <2> QED
    BY <1>2, <1>4 DEF Record, Leg
<1>7. \A l \in Leg : m[l] = None => Cardinality(Spent(l) \ {u}) + 1 <= posts /\ Covered(l)
  <2> SUFFICES ASSUME NEW l \in Leg, m[l] = None
               PROVE  Cardinality(Spent(l) \ {u}) + 1 <= posts /\ Covered(l)
    OBVIOUS
  <2>1. Cardinality(Spent(l) \ {u}) + 1 <= posts
    BY <1>1, <1>2 DEF Account, Allowed
  <2>2. Spent(l) \ {u} = Spent(l)
    BY <1>4, TrafficPayment DEF Known
  <2> QED
    BY <2>1, <2>2 DEF Covered
<1>8. Booked'
  BY <1>2, SpentStays DEF Account, Booked
<1>9. Fits(p, m, u)'
  BY <1>2, <1>5, <1>6, <1>7, SpentStays DEF Fits
<1> QED
  BY <1>2, <1>5, <1>8, <1>9, AccountMoves, OthersOutside DEF Known

\* The last write: the next request may pay what this one did not.
LEMMA WriteAccount ==
    ASSUME Known, Sole, Account, ~overlapped, NEW c \in Call, MarkRedeemed(c) \/ MarkFailed(c)
    PROVE  Account'
<1>1. PICK r, m, u : r = copy[c] /\ m = paid[c] /\ u = tx[c]
  OBVIOUS
<1>2. /\ pc[c] \in {"finish", "catch"} /\ pc[c] \in Redeeming /\ End(c)
      /\ UNCHANGED <<inFlight, landed, posts>>
  BY DEF MarkRedeemed, MarkFailed, Redeeming, chain
<1>3. Knows(pc[c], r, m, u)
  BY <1>1, <1>2 DEF Known, RequestsOK
<1>4. record'.paid = m
  <2>1. r \in Record
    BY <1>3 DEF Knows
  <2>2. \/ record' = [r EXCEPT !.status = "redeemed", !.paid = m]
        \/ record' = [r EXCEPT !.status = "failed", !.paid = m]
    BY <1>1 DEF MarkRedeemed, MarkFailed, FailedRecord
  <2> HIDE DEF Tx
  <2> QED
    BY <2>1, <2>2 DEF Record
<1>5. \A l \in Leg : m[l] = None => Covered(l)
  <2> SUFFICES ASSUME NEW l \in Leg, m[l] = None PROVE Covered(l)
    OBVIOUS
  <2>1. Cardinality(Spent(l) \ {u}) + 1 <= posts
    BY <1>1, <1>2 DEF Account, Allowed
  <2>2. u = None \/ m[u.leg] # None \/ u \notin inFlight \cup landed
    BY <1>1, <1>2, <1>3 DEF Account, Settled, Knows
  <2>3. Spent(l) \ {u} = Spent(l)
    <3>1. CASE u = None \/ m[u.leg] # None
      BY <3>1, TrafficPayment DEF Known
    <3>2. CASE u \notin inFlight \cup landed
      BY <3>2 DEF Spent
    <3> QED
      BY <2>2, <3>1, <3>2
  <2> QED
    BY <2>1, <2>3 DEF Covered
<1>6. MovesTo(c, "done", Nothing, None)
  BY <1>2 DEF MovesTo, End, Goto
<1>7. Booked'
  BY <1>2, SpentStays DEF Account, Booked
<1>8. Fits("done", Nothing, None)'
  BY <1>2, <1>4, <1>5, SpentStays DEF Fits, Redeeming
<1> QED
  BY <1>2, <1>6, <1>7, <1>8, AccountMoves, OthersOutside DEF Known

\* A request is gone, its payment recorded or impossible.
LEMMA VanishAccount ==
    ASSUME Known, Sole, Account, ~overlapped, NEW c \in Call, Vanish(c), ~lost',
           pc[c] \in Redeeming
    PROVE  Account'
<1>1. ~ Unrecorded(c) /\ End(c) /\ UNCHANGED <<record, inFlight, landed, posts>>
  BY DEF Vanish, store, chain
<1>2. MovesTo(c, "done", Nothing, None)
  BY <1>1 DEF MovesTo, End, Goto
<1>3. Booked'
  BY <1>1, SpentStays DEF Account, Booked
<1>4. ASSUME NEW l \in Leg, record # None, record.paid[l] = None PROVE Covered(l)
  <2>1. ASSUME pc[c] \in Sent, tx[c] \in Spent(l) PROVE FALSE
    <3>1. tx[c] \in inFlight \cup landed /\ tx[c].leg = l /\ tx[c] # None
      BY <2>1, SpentIsOfItsLeg DEF Spent, Known
    <3>2. PICK k \in Leg : record.paid[k] = tx[c]
      BY <1>1, <1>4, <2>1, <3>1 DEF Unrecorded, Sent
    <3>3. k = l
      BY <1>4, <3>1, <3>2 DEF Known, RecordOK, Marks
    <3> QED
      BY <1>4, <3>1, <3>2, <3>3
  <2>2. \A d \in Call : pc[d] \in Sent => tx[d] \notin Spent(l)
    BY <2>1, OthersOutside DEF Sent, Redeeming
  <2> QED
    BY <1>4, <2>2 DEF Account, Claimable
<1>5. Fits("done", Nothing, None)'
  BY <1>1, <1>4, SpentStays DEF Fits, Redeeming
<1> QED
  BY <1>2, <1>3, <1>5, AccountMoves, OthersOutside DEF Known

\* The chain makes payments land or impossible, and never possible again.
LEMMA ChainAccount ==
    ASSUME Known, Account, SponsorTraffic \/ \E t \in inFlight : Land(t) \/ Drop(t)
    PROVE  Account'
<1>1. /\ UNCHANGED <<pc, paid, tx, record, posts>>
      /\ (inFlight \cup landed)' \subseteq inFlight \cup landed
  BY DEF SponsorTraffic, Land, Drop, Advance, store, locals
<1>2. \A l \in Leg : Spent(l)' \subseteq Spent(l)
  BY <1>1 DEF Spent
<1>3. \A l \in Leg : /\ IsFiniteSet(Spent(l)) /\ Cardinality(Spent(l)) \in Nat /\ posts \in Nat
                     /\ \A x : IsFiniteSet(Spent(l) \ {x})
  BY SpentFinite DEF Known
<1>4. \A l \in Leg : Cardinality(Spent(l)') <= Cardinality(Spent(l)) /\ Cardinality(Spent(l)') \in Nat
  BY <1>2, <1>3, FS_Subset, FS_CardinalityType
<1>5. Booked'
  BY <1>1, <1>3, <1>4 DEF Account, Booked
<1>6. Allowed'
  <2> SUFFICES ASSUME NEW l \in Leg, NEW c \in Call, pc[c] \in Redeeming, paid[c][l] = None
               PROVE  Cardinality(Spent(l)' \ {tx[c]}) + 1 <= posts
    BY <1>1 DEF Allowed
  <2>1. Cardinality(Spent(l) \ {tx[c]}) + 1 <= posts
    BY DEF Account, Allowed
  <2>2. PICK S, T : S = Spent(l) \ {tx[c]} /\ T = Spent(l)' \ {tx[c]}
    OBVIOUS
  <2>3. T \subseteq S /\ IsFiniteSet(S)
    BY <1>2, <1>3, <2>2
  <2>4. Cardinality(T) <= Cardinality(S) /\ Cardinality(T) \in Nat /\ Cardinality(S) \in Nat
    BY <2>3, FS_Subset, FS_CardinalityType
  <2> QED
    BY <1>3, <2>1, <2>2, <2>4
<1>7. Claimable'
  <2> SUFFICES ASSUME NEW l \in Leg, record # None, record.paid[l] = None,
                      \A c \in Call : pc[c] \in Sent => tx[c] \notin Spent(l)'
               PROVE  Cardinality(Spent(l)') + 1 <= posts
    BY <1>1 DEF Claimable, Covered
  <2>1. CASE Spent(l)' = Spent(l)
    BY <2>1 DEF Account, Claimable, Covered
  <2>2. CASE Spent(l)' # Spent(l)
    <3>1. Cardinality(Spent(l)') # Cardinality(Spent(l))
      BY <1>2, <1>3, <2>2, FS_Subset
    <3> QED
      BY <1>3, <1>4, <3>1 DEF Account, Booked
  <2> QED
    BY <2>1, <2>2
<1>8. Settled'
  BY <1>1 DEF Account, Settled
<1> QED
  BY <1>5, <1>6, <1>7, <1>8 DEF Account

-----------------------------------------------------------------------------
LEMMA LedgerInvariance == Spec => []Ledger
<1>1. Known /\ Sole /\ Ledger /\ [Next]_vars => Ledger'
  <2> SUFFICES ASSUME Known, Sole, Ledger, Next \/ UNCHANGED vars, ~overlapped', ~lost'
               PROVE  Account'
    BY DEF Ledger
  <2>1. ~overlapped /\ ~lost
    <3>1. /\ UNCHANGED overlapped \/ \E c \in Call : ReadReparation(c)
          /\ UNCHANGED lost \/ \E c \in Call : SubmitThrows(c) \/ PollThrows(c) \/ Vanish(c)
      BY DEF Next, vars, Proceed, Login, Expire, PostReparation, ExpireReparation, LookUp, Consume,
             ReadReparation, Bootstrap, LoadSponsor, Submit, SubmitThrows, PollSucceeds, PollThrows,
             Persist, MarkRedeemed, Throw, MarkFailed, Vanish, Land, Drop, SponsorTraffic, history
    <3>2. ASSUME NEW c \in Call, ReadReparation(c) PROVE ~overlapped
      BY <3>2 DEF ReadReparation
    <3>3. ASSUME NEW c \in Call, SubmitThrows(c) \/ PollThrows(c) \/ Vanish(c) PROVE ~lost
      BY <3>3 DEF SubmitThrows, PollThrows, Vanish
    <3> QED
      BY <3>1, <3>2, <3>3
  <2>2. Account
    BY <2>1 DEF Ledger
  <2>3. CASE UNCHANGED vars
    <3>1. UNCHANGED <<pc, paid, tx, record, posts, inFlight, landed>>
      BY <2>3 DEF vars, store, locals, chain
    <3> QED
      BY <2>2, <3>1, AccountStays
  <2>4. ASSUME NEW c \in Call, Proceed(c) PROVE Account'
    <3>1. CASE Consume(c)
      BY <2>2, <3>1, OutsideAccount
    <3>2. CASE ReadReparation(c)
      <4>1. pc[c] \notin Redeeming
        BY <3>2 DEF ReadReparation, Redeeming
      <4> QED
        BY <2>2, <3>2, <4>1, OutsideAccount, ReadAccount
    <3>3. CASE Bootstrap(c) \/ LoadSponsor(c)
      BY <2>1, <2>2, <3>3, BootstrapAccount
    <3>4. CASE Submit(c) \/ SubmitThrows(c)
      BY <2>1, <2>2, <3>4, SendAccount
    <3>5. CASE PollSucceeds(c) \/ PollThrows(c) \/ Throw(c)
      BY <2>1, <2>2, <3>5, PollAccount
    <3>6. CASE Persist(c) \/ MarkRedeemed(c) \/ MarkFailed(c)
      BY <2>1, <2>2, <3>6, PersistAccount, WriteAccount
    <3> QED
      BY <2>4, <3>1, <3>2, <3>3, <3>4, <3>5, <3>6 DEF Proceed
  <2>5. ASSUME NEW c \in Call, Vanish(c) PROVE Account'
    <3>1. End(c)
      BY <2>5 DEF Vanish
    <3> QED
      BY <2>1, <2>2, <2>5, <3>1, OutsideAccount, VanishAccount
  <2>6. ASSUME NEW t \in Token, NEW xlm \in BOOLEAN, PostReparation(t, xlm) PROVE Account'
    BY <2>2, <2>6, PostAccount
  <2>7. CASE \/ \E t \in Token : Login(t) \/ Expire(t)
             \/ ExpireReparation
             \/ \E c \in Call, t \in Token : LookUp(c, t)
    BY <2>2, <2>7, OutsideAccount
  <2>8. CASE SponsorTraffic \/ \E t \in inFlight : Land(t) \/ Drop(t)
    BY <2>2, <2>8, ChainAccount
  <2> QED
    BY <2>3, <2>4, <2>5, <2>6, <2>7, <2>8 DEF Next
<1>2. Init => Ledger
  <2> SUFFICES ASSUME Init PROVE Account
    BY DEF Ledger
  <2>1. \A l \in Leg : Cardinality(Spent(l)) = 0
    BY FS_EmptySet DEF Init, Spent
  <2> QED
    BY <2>1 DEF Init, Account, Booked, Allowed, Claimable, Settled, Redeeming
<1> QED
  BY <1>1, <1>2, KnownInvariance, SoleInvariance, PTL DEF Spec

\* Each campaign post is paid at most once per leg, whatever failed and was
\* retried, as long as redemptions do not overlap and no payment's outcome is
\* lost, for any number of requests, links, posts and sponsor transactions.
THEOREM PaysOnce == Spec => []UndisturbedPaysOnce
<1>1. Known /\ Ledger => UndisturbedPaysOnce
  <2> SUFFICES ASSUME Known, Account, NEW l \in Leg
               PROVE  Cardinality({t \in landed : t.leg = l}) <= posts
    BY DEF Ledger, UndisturbedPaysOnce, PaidOnce
  <2>1. PICK S, T : S = Spent(l) /\ T = {t \in landed : t.leg = l}
    OBVIOUS
  <2>2. T \subseteq S /\ IsFiniteSet(S) /\ posts \in Nat
    BY <2>1, SpentFinite DEF Spent, Known
  <2>3. Cardinality(T) <= Cardinality(S) /\ Cardinality(T) \in Nat /\ Cardinality(S) \in Nat
    BY <2>2, FS_Subset, FS_CardinalityType
  <2>4. Cardinality(S) <= posts
    BY <2>1 DEF Account, Booked
  <2> QED
    BY <2>1, <2>2, <2>3, <2>4
<1> QED
  BY <1>1, KnownInvariance, LedgerInvariance, PTL

\* A record names only payments that landed, and an undisturbed redemption never
\* pays a leg again.
THEOREM RecordsAreRight == Spec => []RecordsMatchPayments
<1>1. MarkersAreTrue /\ UndisturbedPaysOnce => RecordsMatchPayments
  BY DEF RecordsMatchPayments
<1> QED
  BY <1>1, TrueMarkers, PaysOnce, PTL

-----------------------------------------------------------------------------
(***************************************************************************)
(* What the campaign script may claim, for every file, any number of runs  *)
(* and any traffic on the sponsor's account.  The invariant follows the    *)
(* row: all rows before it are served as long as none has failed, and at   *)
(* the XLM leg the HITZ of this run and row has landed.                    *)
(***************************************************************************)

Mode == [dryRun : BOOLEAN, skipOnchain : BOOLEAN]

Script ==
    [run : Nat, mode : Mode, row : Nat,
     pc : {"stopped", "row", "load", "send", "poll"}, leg : {"hitz", "xlm"}, seq : Int,
     failed : Nat, missing : SUBSET Nat, exit : {"none", "clean", "failed"}]

PaymentOf == [run : Nat, row : Nat, leg : {"hitz", "xlm"}, seq : Int]

Paying == script.pc \in {"load", "send", "poll"}

CampaignTypes ==
    /\ campaign \in Seq(CampaignRow) /\ campaign # <<>>
    /\ script \in Script
    /\ account \in [sequence : Int, sent : SUBSET PaymentOf, landed : SUBSET PaymentOf]

\* Where the script stands.
ScriptInv ==
    /\ script.pc # "stopped" => script.row \in 1..Len(campaign) /\ script.exit = "none"
    /\ script.pc = "row" => script.leg = "hitz"
    /\ Paying => ThisRow.to # "email"
    /\ script.pc \in {"send", "poll"} => ~script.mode.dryRun

\* What the ledger and the mails hold for it.
ProgressInv ==
    /\ \A t \in account.sent \cup account.landed :
          t.leg = "xlm" => LandedLegs(t.run, t.row, "hitz") # {}
    /\ Paying /\ script.leg = "xlm" /\ ~script.mode.dryRun =>
          LandedLegs(script.run, script.row, "hitz") # {}
    /\ script.pc # "stopped" /\ script.failed = 0 /\ ~script.mode.dryRun =>
          \A i \in 1..(script.row - 1) : Served(i)

CampaignInv == CampaignTypes /\ ScriptInv /\ ProgressInv /\ CleanExitServesAll

-----------------------------------------------------------------------------
\* A script with one field set is a script.
LEMMA LegSet ==
    \A s \in Script : \A leg \in {"hitz", "xlm"} : [s EXCEPT !.leg = leg] \in Script
BY DEF Script

LEMMA SeqSet == \A s \in Script : \A n \in Int : [s EXCEPT !.seq = n] \in Script
BY DEF Script

LEMMA PcSet ==
    \A s \in Script : \A at \in {"stopped", "row", "load", "send", "poll"} :
       [s EXCEPT !.pc = at] \in Script
BY DEF Script

LEMMA RowSet == \A s \in Script : \A n \in Nat : [s EXCEPT !.row = n] \in Script
BY DEF Script

LEMMA ExitSet ==
    \A s \in Script : \A code \in {"none", "clean", "failed"} : [s EXCEPT !.exit = code] \in Script
BY DEF Script

LEMMA FailedSet == \A s \in Script : \A n \in Nat : [s EXCEPT !.failed = n] \in Script
BY DEF Script

LEMMA MissingSet ==
    \A s \in Script : \A rows \in SUBSET Nat : [s EXCEPT !.missing = rows] \in Script
BY DEF Script

\* NextRow moves the row on, or stops with the exit code, and touches no more.
LEMMA NextRowMoves ==
    ASSUME CampaignTypes, NEW s \in Script, s.row \in 1..Len(campaign), s.exit = "none"
    PROVE  LET t == NextRow(s) IN
           /\ t \in Script
           /\ t.run = s.run /\ t.mode = s.mode /\ t.missing = s.missing /\ t.failed = s.failed
           /\ t.leg = "hitz"
           /\ \/ t.pc = "row" /\ t.row = s.row + 1 /\ t.row \in 1..Len(campaign) /\ t.exit = "none"
              \/ /\ t.pc = "stopped" /\ s.row = Len(campaign)
                 /\ t.exit = (IF s.failed > 0 THEN "failed" ELSE "clean")
<1> DEFINE a == [s EXCEPT !.leg = "hitz"]
           b == [a EXCEPT !.seq = 0]
<1>0. Len(campaign) \in Nat
  BY DEF CampaignTypes
<1>a. a \in Script
  BY LegSet
<1>b. b \in Script
  <2> HIDE DEF a
  <2> QED
    BY <1>a, SeqSet
<1>1. CASE s.row < Len(campaign)
  <2> DEFINE n == s.row + 1
             c == [b EXCEPT !.row = n]
             t == [s EXCEPT !.leg = "hitz", !.seq = 0, !.row = @ + 1, !.pc = "row"]
  <2>1. NextRow(s) = t
    BY <1>1 DEF NextRow
  <2>2. t \in Script
    <3>1. n \in Nat
      BY DEF Script
    <3>2. c \in Script
      <4> HIDE DEF b, n
      <4> QED
        BY <1>b, <3>1, RowSet
    <3>3. t = [c EXCEPT !.pc = "row"]
      OBVIOUS
    <3>4. [c EXCEPT !.pc = "row"] \in Script
      <4> HIDE DEF c
      <4> QED
        BY <3>2, PcSet
    <3> QED
      BY <3>3, <3>4
  <2>3. /\ t.run = s.run /\ t.mode = s.mode /\ t.missing = s.missing /\ t.failed = s.failed
        /\ t.leg = "hitz" /\ t.pc = "row" /\ t.row = s.row + 1 /\ t.exit = "none"
    BY DEF Script
  <2>4. t.row \in 1..Len(campaign)
    BY <1>0, <1>1, <2>3
  <2> QED
    BY <2>1, <2>2, <2>3, <2>4
<1>2. CASE s.row = Len(campaign)
  <2> DEFINE code == IF s.failed > 0 THEN "failed" ELSE "clean"
             c == [b EXCEPT !.pc = "stopped"]
             t == [s EXCEPT !.leg = "hitz", !.seq = 0, !.pc = "stopped", !.exit = code]
  <2>1. NextRow(s) = t
    BY <1>0, <1>2 DEF NextRow
  <2>2. t \in Script
    <3>1. code \in {"none", "clean", "failed"}
      OBVIOUS
    <3>2. c \in Script
      <4> HIDE DEF b
      <4> QED
        BY <1>b, PcSet
    <3>3. t = [c EXCEPT !.exit = code]
      OBVIOUS
    <3>4. [c EXCEPT !.exit = code] \in Script
      <4> HIDE DEF c, code
      <4> QED
        BY <3>1, <3>2, ExitSet
    <3> QED
      BY <3>3, <3>4
  <2>3. /\ t.run = s.run /\ t.mode = s.mode /\ t.missing = s.missing /\ t.failed = s.failed
        /\ t.leg = "hitz" /\ t.pc = "stopped" /\ t.exit = code
    BY DEF Script
  <2> QED
    BY <1>2, <2>1, <2>2, <2>3
<1> QED
  BY <1>0, <1>1, <1>2

-----------------------------------------------------------------------------
\* What a row has been given, it keeps.
LEMMA ServedStays ==
    ASSUME campaign' = campaign, mailed \subseteq mailed', account.landed \subseteq account'.landed,
           script'.run = script.run, script'.mode = script.mode,
           script.missing \subseteq script'.missing, NEW i, Served(i)
    PROVE  Served(i)'
<1>1. ASSUME NEW leg, LandedLegs(script.run, i, leg) # {}
      PROVE  (LandedLegs(script.run, i, leg) # {})'
  BY <1>1 DEF LandedLegs
<1>2. CASE campaign[i].to = "email"
  BY <1>2 DEF Served
<1>3. CASE campaign[i].to # "email"
  BY <1>1, <1>3 DEF Served
<1> QED
  BY <1>2, <1>3

\* The XLM legs sent or landed have their HITZ.
HitzFirst ==
    \A t \in account.sent \cup account.landed :
       t.leg = "xlm" => LandedLegs(t.run, t.row, "hitz") # {}

AccountOK == account \in [sequence : Int, sent : SUBSET PaymentOf, landed : SUBSET PaymentOf]

\* A row ends, s being the script with the row's outcome counted: the
\* invariant holds again if the row was served or counted as failed.
LEMMA RowEnds ==
    ASSUME CampaignInv, script.pc # "stopped", NEW n, n = script.row,
           NEW s \in Script, s.row = script.row, s.run = script.run, s.mode = script.mode,
           script.missing \subseteq s.missing, s.exit = "none", s.failed >= script.failed,
           script' = NextRow(s), campaign' = campaign, mailed \subseteq mailed',
           account.landed \subseteq account'.landed, AccountOK', HitzFirst',
           s.failed = 0 /\ ~s.mode.dryRun => Served(n)'
    PROVE  CampaignInv'
<1>0. /\ CampaignTypes /\ Len(campaign) \in Nat /\ script \in Script
      /\ script.row \in 1..Len(campaign)
  BY DEF CampaignInv, CampaignTypes, ScriptInv
<1>1. /\ script' \in Script /\ script'.run = s.run /\ script'.mode = s.mode
      /\ script'.missing = s.missing /\ script'.failed = s.failed /\ script'.leg = "hitz"
      /\ \/ /\ script'.pc = "row" /\ script'.row = s.row + 1
            /\ script'.row \in 1..Len(campaign) /\ script'.exit = "none"
         \/ /\ script'.pc = "stopped" /\ s.row = Len(campaign)
            /\ script'.exit = (IF s.failed > 0 THEN "failed" ELSE "clean")
  BY <1>0, NextRowMoves
<1>2. s.failed \in Nat /\ script.failed \in Nat
  BY <1>0 DEF Script
<1>3. ASSUME s.failed = 0, ~s.mode.dryRun, NEW i \in 1..n
      PROVE  Served(i)'
  <2>1. CASE i = n
    BY <1>3, <2>1
  <2>2. CASE i # n
    <3>1. script.failed = 0 /\ ~script.mode.dryRun
      BY <1>2, <1>3
    <3>2. i \in 1..(script.row - 1)
      BY <1>0, <2>2
    <3>3. Served(i)
      BY <3>1, <3>2 DEF CampaignInv, ProgressInv
    <3>4. /\ script'.run = script.run /\ script'.mode = script.mode
          /\ script.missing \subseteq script'.missing
      BY <1>1
    <3> QED
      BY <3>3, <3>4, ServedStays
  <2> QED
    BY <2>1, <2>2
<1>4. CampaignTypes'
  BY <1>0, <1>1 DEF CampaignTypes, AccountOK
<1>5. ScriptInv'
  BY <1>1 DEF ScriptInv, Paying
<1>6. ProgressInv'
  <2>1. ~Paying'
    BY <1>1 DEF Paying
  <2>2. script'.pc # "stopped" /\ script'.failed = 0 /\ ~script'.mode.dryRun =>
           \A i \in 1..(script'.row - 1) : Served(i)'
    <3> SUFFICES ASSUME script'.pc # "stopped", script'.failed = 0, ~script'.mode.dryRun,
                        NEW i \in 1..(script'.row - 1)
                 PROVE  Served(i)'
      OBVIOUS
    <3>1. i \in 1..n
      BY <1>0, <1>1
    <3> QED
      BY <1>1, <1>3, <3>1
  <2> QED
    BY <2>1, <2>2 DEF ProgressInv, HitzFirst
<1>7. CleanExitServesAll'
  <2> SUFFICES ASSUME script'.exit = "clean", ~script'.mode.dryRun, NEW i \in DOMAIN campaign'
               PROVE  Served(i)'
    BY DEF CleanExitServesAll
  <2>1. s.row = Len(campaign) /\ s.failed = 0
    BY <1>1, <1>2
  <2>2. i \in 1..n
    BY <1>0, <2>1 DEF CampaignTypes
  <2> QED
    BY <1>1, <1>3, <2>1, <2>2
<1> QED
  BY <1>4, <1>5, <1>6, <1>7 DEF CampaignInv

\* A row that failed needs no more.
LEMMA RowFails ==
    ASSUME CampaignInv, script.pc # "stopped", RowFailed, campaign' = campaign,
           mailed \subseteq mailed', account.landed \subseteq account'.landed,
           AccountOK', HitzFirst'
    PROVE  CampaignInv'
<1> DEFINE s == [script EXCEPT !.failed = @ + 1]
<1>0. script \in Script /\ script.exit = "none" /\ script.failed \in Nat
  BY DEF CampaignInv, CampaignTypes, ScriptInv, Script
<1>1. s \in Script
  BY <1>0, FailedSet
<1>2. /\ s.row = script.row /\ s.run = script.run /\ s.mode = script.mode
      /\ s.missing = script.missing /\ s.exit = "none" /\ s.failed = script.failed + 1
  BY <1>0 DEF Script
<1>3. script' = NextRow(s)
  BY DEF RowFailed
<1> QED
  <2> HIDE DEF s
  <2> QED
    BY <1>0, <1>1, <1>2, <1>3, RowEnds

\* A row that is done was served.
LEMMA RowIsDone ==
    ASSUME CampaignInv, script.pc # "stopped", RowDone, campaign' = campaign,
           mailed \subseteq mailed', account.landed \subseteq account'.landed,
           AccountOK', HitzFirst', NEW n, n = script.row,
           ~script.mode.dryRun => Served(n)'
    PROVE  CampaignInv'
<1>0. script \in Script /\ script.exit = "none" /\ script.failed \in Nat
  BY DEF CampaignInv, CampaignTypes, ScriptInv, Script
<1> QED
  BY <1>0, RowEnds DEF RowDone

\* The ledger's part of the invariant when the script alone moves.
LEMMA LedgerKept ==
    ASSUME CampaignInv, account' = account
    PROVE  AccountOK' /\ HitzFirst' /\ account.landed \subseteq account'.landed
<1>1. AccountOK /\ HitzFirst
  BY DEF CampaignInv, CampaignTypes, ProgressInv, AccountOK, HitzFirst
<1> QED
  BY <1>1 DEF AccountOK, HitzFirst, LandedLegs

\* The script goes on within the row.
LEMMA SameRow ==
    ASSUME CampaignInv, script.pc # "stopped", script' \in Script,
           script'.run = script.run, script'.mode = script.mode, script'.row = script.row,
           script'.missing = script.missing, script'.failed = script.failed,
           script'.exit = script.exit, script'.pc \in {"load", "send", "poll"},
           script'.pc # "load" => ~script.mode.dryRun,
           campaign' = campaign, campaign[script.row].to # "email", mailed' = mailed,
           account.landed \subseteq account'.landed, AccountOK', HitzFirst',
           script'.leg = "xlm" /\ ~script.mode.dryRun =>
               LandedLegs(script.run, script.row, "hitz") # {}
    PROVE  CampaignInv'
<1>0. /\ CampaignTypes /\ script.row \in 1..Len(campaign) /\ script.exit = "none"
  BY DEF CampaignInv, ScriptInv
<1>1. CampaignTypes'
  BY <1>0 DEF CampaignTypes, AccountOK
<1>2. ScriptInv'
  BY <1>0 DEF ScriptInv, ThisRow
<1>3. script'.leg = "xlm" /\ ~script.mode.dryRun =>
          (LandedLegs(script.run, script.row, "hitz") # {})'
  BY DEF LandedLegs
<1>4. script'.failed = 0 /\ ~script'.mode.dryRun => \A i \in 1..(script'.row - 1) : Served(i)'
  <2> SUFFICES ASSUME script'.failed = 0, ~script'.mode.dryRun, NEW i \in 1..(script.row - 1)
               PROVE  Served(i)'
    OBVIOUS
  <2>1. Served(i)
    BY DEF CampaignInv, ProgressInv
  <2> QED
    BY <2>1, ServedStays
<1>5. ProgressInv'
  BY <1>3, <1>4 DEF ProgressInv, HitzFirst
<1>6. CleanExitServesAll'
  BY <1>0 DEF CleanExitServesAll
<1> QED
  BY <1>1, <1>2, <1>5, <1>6 DEF CampaignInv

-----------------------------------------------------------------------------
\* One lemma per action.
LEMMA CampaignStarts == CampaignInit => CampaignInv
<1> SUFFICES ASSUME CampaignInit PROVE CampaignInv
  OBVIOUS
<1>1. script \in Script /\ script.pc = "stopped" /\ script.leg = "hitz" /\ script.exit = "none"
  <2> DEFINE mode == [dryRun |-> FALSE, skipOnchain |-> FALSE]
             first == AtFirstRow(0, mode)
  <2>1. first \in Script /\ first.leg = "hitz" /\ first.exit = "none"
    BY DEF AtFirstRow, Script, Mode
  <2>2. script = [first EXCEPT !.pc = "stopped"]
    BY DEF CampaignInit, NotStarted
  <2> HIDE DEF first
  <2>3. script \in Script
    BY <2>1, <2>2, PcSet
  <2> QED
    BY <2>1, <2>2, <2>3 DEF Script
<1>2. CampaignTypes
  BY <1>1, CampaignAssumption DEF CampaignInit, CampaignTypes
<1> QED
  BY <1>1, <1>2
  DEF CampaignInit, CampaignInv, ScriptInv, ProgressInv, CleanExitServesAll, Paying

LEMMA RunStep == ASSUME CampaignInv, RunScript PROVE CampaignInv'
<1>0. CampaignTypes /\ script.run \in Nat /\ Len(campaign) \in Nat /\ Len(campaign) >= 1
  BY DEF CampaignInv, CampaignTypes, Script
<1>1. PICK mode \in Modes : script' = AtFirstRow(script.run + 1, mode)
  BY DEF RunScript
<1>2. /\ script' \in Script /\ script'.pc = "row" /\ script'.row = 1 /\ script'.exit = "none"
      /\ script'.leg = "hitz"
  BY <1>0, <1>1, CampaignAssumption DEF AtFirstRow, Script, Mode
<1>3. CampaignTypes'
  BY <1>0, <1>2 DEF RunScript, CampaignTypes
<1>4. ScriptInv'
  BY <1>0, <1>2 DEF RunScript, ScriptInv, Paying
<1>5. HitzFirst'
  BY LedgerKept DEF RunScript
<1> QED
  BY <1>2, <1>3, <1>4, <1>5
  DEF CampaignInv, ProgressInv, HitzFirst, Paying, CleanExitServesAll

LEMMA EmailStep == ASSUME CampaignInv, EmailRow PROVE CampaignInv'
<1> DEFINE n == script.row
<1>0. script.pc # "stopped" /\ UNCHANGED <<campaign, account>> /\ campaign[n].to = "email"
  BY DEF EmailRow, ThisRow
<1>1. AccountOK' /\ HitzFirst' /\ account.landed \subseteq account'.landed
  BY <1>0, LedgerKept
<1>2. CASE RowFailed /\ mailed \subseteq mailed'
  BY <1>0, <1>1, <1>2, RowFails
<1>3. CASE RowDone /\ mailed' = mailed /\ (script.mode.dryRun \/ campaign[n].hitz = "none")
  BY <1>0, <1>1, <1>3, RowIsDone DEF Served
<1>4. CASE RowDone /\ mailed' = mailed \cup {<<script.run, script.row>>}
  <2>1. script'.run = script.run
    <3>1. script' = NextRow(script)
      BY <1>4 DEF RowDone
    <3> QED
      BY <1>0, <3>1, NextRowMoves DEF CampaignInv, CampaignTypes, ScriptInv
  <2>2. <<script'.run, n>> \in mailed'
    BY <1>4, <2>1
  <2>3. ASSUME NEW k, k = n PROVE Served(k)'
    BY <1>0, <2>2, <2>3 DEF Served
  <2> QED
    BY <1>0, <1>1, <1>4, <2>3, RowIsDone
<1> QED
  BY <1>2, <1>3, <1>4 DEF EmailRow, SendEmail, ThisRow

LEMMA AccountStep == ASSUME CampaignInv, AccountRow PROVE CampaignInv'
<1> DEFINE n == script.row
<1>0. /\ script.pc = "row" /\ UNCHANGED <<campaign, account, mailed>> /\ campaign[n].to # "email"
      /\ script \in Script /\ script.leg = "hitz" /\ n \in Nat
  BY DEF AccountRow, ThisRow, CampaignInv, CampaignTypes, ScriptInv, Script
<1>1. AccountOK' /\ HitzFirst' /\ account.landed \subseteq account'.landed
  BY <1>0, LedgerKept
<1>2. CASE RowFailed
  BY <1>0, <1>1, <1>2, RowFails
<1>3. CASE RowDone /\ (script.mode.skipOnchain \/ campaign[n].to = "invalid")
  <2>1. script'.mode = script.mode
    <3>1. script' = NextRow(script)
      BY <1>3 DEF RowDone
    <3> QED
      BY <1>0, <3>1, NextRowMoves DEF CampaignInv, CampaignTypes, ScriptInv
  <2>2. ASSUME NEW k, k = n PROVE Served(k)'
    BY <1>0, <1>3, <2>1, <2>2 DEF Served
  <2> QED
    BY <1>0, <1>1, <1>3, <2>2, RowIsDone
<1>4. CASE RowDone /\ campaign[n].hitz = "none"
  BY <1>0, <1>1, <1>4, RowIsDone DEF Served
<1>5. CASE script' = NextRow([script EXCEPT !.missing = @ \cup {script.row}])
  <2> DEFINE rows == script.missing \cup {script.row}
             s == [script EXCEPT !.missing = rows]
  <2>1. s \in Script
    <3>1. rows \in SUBSET Nat
      BY <1>0 DEF Script
    <3> HIDE DEF rows
    <3> QED
      BY <1>0, <3>1, MissingSet
  <2>2. /\ s.row = script.row /\ s.run = script.run /\ s.mode = script.mode
        /\ s.missing = rows /\ s.exit = script.exit /\ s.failed = script.failed
    BY <1>0 DEF Script
  <2>3. script' = NextRow(s)
    BY <1>5
  <2> HIDE DEF s
  <2>4. script.exit = "none" /\ script.failed \in Nat /\ n \in 1..Len(campaign) /\ CampaignTypes
    BY <1>0 DEF CampaignInv, CampaignTypes, ScriptInv, Script
  <2>5. script'.missing = rows
    BY <2>1, <2>2, <2>3, <2>4, NextRowMoves
  <2>6. ASSUME NEW k, k = n PROVE Served(k)'
    <3>1. k \in script'.missing
      BY <2>5, <2>6
    <3> QED
      BY <1>0, <2>6, <3>1 DEF Served
  <2> QED
    BY <1>0, <1>1, <2>1, <2>2, <2>3, <2>4, <2>6, RowEnds
<1>6. CASE script' = [script EXCEPT !.pc = "load"]
  <2>1. script' \in Script
    BY <1>0, <1>6, PcSet
  <2>2. /\ script'.run = script.run /\ script'.mode = script.mode /\ script'.row = script.row
        /\ script'.missing = script.missing /\ script'.failed = script.failed
        /\ script'.exit = script.exit /\ script'.pc = "load" /\ script'.leg = "hitz"
    BY <1>0, <1>6 DEF Script
  <2> QED
    BY <1>0, <1>1, <2>1, <2>2, SameRow
<1> QED
  BY <1>2, <1>3, <1>4, <1>5, <1>6 DEF AccountRow, ThisRow

\* A leg is paid when its payment landed; in a dry run nothing is.
LEMMA LegStep ==
    ASSUME CampaignInv, Paying, LegPaid, UNCHANGED <<campaign, account, mailed>>,
           ~script.mode.dryRun => LandedLegs(script.run, script.row, script.leg) # {}
    PROVE  CampaignInv'
<1> DEFINE n == script.row
<1>0. /\ script.pc # "stopped" /\ campaign[n].to # "email" /\ script \in Script /\ n \in Nat
      /\ script.leg \in {"hitz", "xlm"}
  BY DEF Paying, ThisRow, CampaignInv, CampaignTypes, ScriptInv, Script
<1>1. AccountOK' /\ HitzFirst' /\ account.landed \subseteq account'.landed
  BY LedgerKept
<1>2. ~script.mode.dryRun => LandedLegs(script.run, n, "hitz") # {}
  BY <1>0 DEF CampaignInv, ProgressInv
<1>3. CASE RowDone /\ (script.leg = "xlm" \/ campaign[n].xlm = "none")
  <2>1. script'.run = script.run
    <3>1. script' = NextRow(script)
      BY <1>3 DEF RowDone
    <3> QED
      BY <1>0, <3>1, NextRowMoves DEF CampaignInv, CampaignTypes, ScriptInv
  <2>2. ASSUME NEW k, k = n, ~script.mode.dryRun PROVE Served(k)'
    <3>1. /\ LandedLegs(script.run, n, "hitz") # {}
          /\ campaign[n].xlm # "none" => LandedLegs(script.run, n, "xlm") # {}
      BY <1>2, <1>3, <2>2
    <3>2. ASSUME NEW leg, LandedLegs(script.run, n, leg) # {}
          PROVE  (LandedLegs(script.run, k, leg) # {})'
      <4>1. LandedLegs(script.run, k, leg) # {}
        BY <2>2, <3>2
      <4> QED
        BY <2>1, <4>1 DEF LandedLegs
    <3>3. campaign[k] = campaign[n]
      BY <2>2
    <3> QED
      BY <1>0, <3>1, <3>2, <3>3 DEF Served
  <2> QED
    BY <1>0, <1>1, <1>3, <2>2, RowIsDone
<1>4. CASE RowFailed
  BY <1>0, <1>1, <1>4, RowFails
<1>5. CASE script.leg # "xlm" /\ script' = [script EXCEPT !.leg = "xlm", !.pc = "load"]
  <2> DEFINE s == [script EXCEPT !.leg = "xlm"]
  <2>1. s \in Script
    BY <1>0, LegSet
  <2>2. script' = [s EXCEPT !.pc = "load"]
    BY <1>5
  <2>3. script' \in Script
    <3> HIDE DEF s
    <3> QED
      BY <2>1, <2>2, PcSet
  <2>4. /\ script'.run = script.run /\ script'.mode = script.mode /\ script'.row = script.row
        /\ script'.missing = script.missing /\ script'.failed = script.failed
        /\ script'.exit = script.exit /\ script'.pc = "load" /\ script'.leg = "xlm"
    BY <1>0, <1>5 DEF Script
  <2> QED
    BY <1>0, <1>1, <1>2, <2>3, <2>4, SameRow
<1> QED
  BY <1>3, <1>4, <1>5 DEF LegPaid, ThisRow

LEMMA LoadStep == ASSUME CampaignInv, LoadSponsorSequence PROVE CampaignInv'
<1>0. /\ script.pc = "load" /\ UNCHANGED <<campaign, account, mailed>> /\ script \in Script
      /\ Paying /\ campaign[script.row].to # "email"
  BY DEF LoadSponsorSequence, Paying, ThisRow, CampaignInv, CampaignTypes, ScriptInv
<1>1. CASE script.mode.dryRun
  BY <1>0, <1>1, LegStep DEF LoadSponsorSequence
<1>2. CASE ~script.mode.dryRun
  <2> DEFINE number == account.sequence + 1
             s == [script EXCEPT !.pc = "send"]
  <2>1. number \in Int
    BY DEF CampaignInv, CampaignTypes
  <2>2. s \in Script
    BY <1>0, PcSet
  <2>3. script' = [s EXCEPT !.seq = number]
    BY <1>2 DEF LoadSponsorSequence
  <2>4. script' \in Script
    <3> HIDE DEF s, number
    <3> QED
      BY <2>1, <2>2, <2>3, SeqSet
  <2>5. /\ script'.run = script.run /\ script'.mode = script.mode /\ script'.row = script.row
        /\ script'.missing = script.missing /\ script'.failed = script.failed
        /\ script'.exit = script.exit /\ script'.pc = "send" /\ script'.leg = script.leg
    BY <1>0, <2>3 DEF Script
  <2>6. script.leg = "xlm" => LandedLegs(script.run, script.row, "hitz") # {}
    BY <1>0, <1>2 DEF CampaignInv, ProgressInv
  <2> QED
    BY <1>0, <1>2, <2>4, <2>5, <2>6, LedgerKept, SameRow
<1> QED
  BY <1>1, <1>2

LEMMA SendStep == ASSUME CampaignInv, SendPayment PROVE CampaignInv'
<1>0. /\ script.pc = "send" /\ UNCHANGED <<campaign, mailed>> /\ script \in Script
      /\ Paying /\ campaign[script.row].to # "email" /\ ~script.mode.dryRun
  BY DEF SendPayment, Paying, ThisRow, CampaignInv, CampaignTypes, ScriptInv
<1>1. script.leg = "xlm" => LandedLegs(script.run, script.row, "hitz") # {}
  BY <1>0 DEF CampaignInv, ProgressInv
<1>2. AccountOK' /\ HitzFirst' /\ account.landed \subseteq account'.landed
  <2>1. CASE account' = account
    BY <2>1, LedgerKept
  <2>2. CASE account' = [account EXCEPT !.sent = @ \cup {Payment}]
    <3>1. Payment \in PaymentOf /\ Payment.leg = script.leg /\ Payment.run = script.run
          /\ Payment.row = script.row
      BY <1>0 DEF Payment, PaymentOf, Script
    <3>2. AccountOK /\ HitzFirst
      BY DEF CampaignInv, CampaignTypes, ProgressInv, AccountOK, HitzFirst
    <3>3. account'.sent = account.sent \cup {Payment} /\ account'.landed = account.landed
      BY <2>2, <3>2 DEF AccountOK
    <3>4. AccountOK'
      BY <2>2, <3>1, <3>2 DEF AccountOK
    <3>5. ASSUME NEW t \in account'.sent \cup account'.landed, t.leg = "xlm"
          PROVE  LandedLegs(t.run, t.row, "hitz") # {}
      BY <1>1, <3>1, <3>2, <3>3, <3>5 DEF HitzFirst
    <3>6. HitzFirst'
      BY <3>3, <3>5 DEF HitzFirst, LandedLegs
    <3> QED
      BY <3>3, <3>4, <3>6
  <2> QED
    BY <2>1, <2>2 DEF SendPayment
<1>3. CASE RowFailed
  BY <1>0, <1>2, <1>3, RowFails
<1>4. CASE script' = [script EXCEPT !.pc = "poll"]
  <2>1. script' \in Script
    BY <1>0, <1>4, PcSet
  <2>2. /\ script'.run = script.run /\ script'.mode = script.mode /\ script'.row = script.row
        /\ script'.missing = script.missing /\ script'.failed = script.failed
        /\ script'.exit = script.exit /\ script'.pc = "poll" /\ script'.leg = script.leg
    BY <1>0, <1>4 DEF Script
  <2> QED
    BY <1>0, <1>1, <1>2, <2>1, <2>2, SameRow
<1> QED
  BY <1>3, <1>4 DEF SendPayment

LEMMA AwaitStep == ASSUME CampaignInv, AwaitPayment PROVE CampaignInv'
<1>1. Payment \in LandedLegs(script.run, script.row, script.leg)
  BY DEF AwaitPayment, LandedLegs, Payment
<1> QED
  BY <1>1, LegStep DEF AwaitPayment, Paying

LEMMA GiveUpStep ==
    ASSUME CampaignInv, PaymentTimesOut \/ PaymentThrows
    PROVE  CampaignInv'
<1>1. RowFailed /\ script.pc # "stopped" /\ UNCHANGED <<campaign, account, mailed>>
  BY DEF PaymentTimesOut, PaymentThrows, GiveUpPayment
<1> QED
  BY <1>1, LedgerKept, RowFails

LEMMA InterruptStep == ASSUME CampaignInv, Interrupt PROVE CampaignInv'
<1> DEFINE s == [script EXCEPT !.pc = "stopped"]
<1>0. script \in Script /\ UNCHANGED <<campaign, account, mailed>>
  BY DEF Interrupt, CampaignInv, CampaignTypes
<1>1. s \in Script
  BY <1>0, PcSet
<1>2. script' = [s EXCEPT !.exit = "none"]
  BY DEF Interrupt
<1>3. script' \in Script
  <2> HIDE DEF s
  <2> QED
    BY <1>1, <1>2, ExitSet
<1>4. script'.pc = "stopped" /\ script'.exit = "none"
  BY <1>0, <1>2 DEF Script
<1>5. HitzFirst'
  BY <1>0, LedgerKept
<1> QED
  BY <1>0, <1>3, <1>4, <1>5
  DEF CampaignInv, CampaignTypes, ScriptInv, ProgressInv, HitzFirst, Paying, CleanExitServesAll

\* The ledger moves: what landed stays, and an XLM payment that lands was sent.
LEMMA LedgerStep ==
    ASSUME CampaignInv, UNCHANGED <<campaign, script, mailed>>,
           AccountOK', account.landed \subseteq account'.landed,
           account'.sent \cup account'.landed \subseteq account.sent \cup account.landed
    PROVE  CampaignInv'
<1>1. CampaignTypes' /\ ScriptInv'
  BY DEF CampaignInv, CampaignTypes, ScriptInv, AccountOK, Paying, ThisRow
<1>2. ASSUME NEW run, NEW row, LandedLegs(run, row, "hitz") # {}
      PROVE  (LandedLegs(run, row, "hitz") # {})'
  BY <1>2 DEF LandedLegs
<1>3. ASSUME NEW i, Served(i) PROVE Served(i)'
  BY <1>3, ServedStays
<1>4. HitzFirst'
  BY <1>2 DEF CampaignInv, ProgressInv, HitzFirst
<1>5. ProgressInv'
  BY <1>2, <1>3, <1>4 DEF CampaignInv, ProgressInv, HitzFirst, Paying
<1>6. CleanExitServesAll'
  BY <1>3 DEF CampaignInv, CleanExitServesAll
<1> QED
  BY <1>1, <1>5, <1>6 DEF CampaignInv

LEMMA NetworkStep ==
    ASSUME CampaignInv, LandPayment \/ ForeignPayment \/ OpenAccount
    PROVE  CampaignInv'
<1> DEFINE used == UseSequence(account)
<1>0. AccountOK
  BY DEF CampaignInv, CampaignTypes, AccountOK
<1>1. /\ used \in [sequence : Int, sent : SUBSET PaymentOf, landed : SUBSET PaymentOf]
      /\ used.sent \subseteq account.sent /\ used.landed = account.landed
  BY <1>0 DEF AccountOK, UseSequence
<1>2. CASE LandPayment
  <2>1. PICK t \in account.sent :
           account' = used \/ account' = [used EXCEPT !.landed = @ \cup {t}]
    BY <1>2 DEF LandPayment
  <2>2. t \in PaymentOf
    BY <1>0 DEF AccountOK
  <2> HIDE DEF used
  <2>3. AccountOK'
    BY <1>1, <2>1, <2>2 DEF AccountOK
  <2>4. account'.sent = used.sent /\ account'.landed \in {used.landed, used.landed \cup {t}}
    BY <1>1, <2>1
  <2>5. /\ account.landed \subseteq account'.landed
        /\ account'.sent \cup account'.landed \subseteq account.sent \cup account.landed
    BY <1>1, <2>4
  <2> QED
    BY <1>2, <2>3, <2>5, LedgerStep DEF LandPayment
<1>3. CASE ForeignPayment
  BY <1>1, <1>3, LedgerStep DEF ForeignPayment, AccountOK
<1>4. CASE OpenAccount
  BY <1>0, <1>4, LedgerStep DEF OpenAccount, AccountOK
<1> QED
  BY <1>2, <1>3, <1>4

-----------------------------------------------------------------------------
LEMMA CampaignInvariance == CampaignSpec => []CampaignInv
<1>1. CampaignInv /\ [CampaignNext]_campaignVars => CampaignInv'
  <2> SUFFICES ASSUME CampaignInv, [CampaignNext]_campaignVars PROVE CampaignInv'
    OBVIOUS
  <2>1. CASE UNCHANGED campaignVars
    BY <2>1, LedgerStep
    DEF campaignVars, CampaignInv, CampaignTypes, AccountOK
  <2> QED
    BY <2>1, RunStep, EmailStep, AccountStep, LoadStep, SendStep, AwaitStep, GiveUpStep,
       InterruptStep, NetworkStep
    DEF CampaignNext
<1> QED
  BY <1>1, CampaignStarts, PTL DEF CampaignSpec

\* A live run that exits clean has served every row, for any file and any
\* number of runs, whatever is sent, put off, lost or late.
THEOREM CleanExit == CampaignSpec => []CleanExitServesAll
BY CampaignInvariance, PTL DEF CampaignInv

\* No XLM of a run and row lands without its HITZ.
THEOREM HitzComesFirst == CampaignSpec => []XlmFollowsHitz
<1>1. CampaignInv => XlmFollowsHitz
  BY DEF CampaignInv, ProgressInv, XlmFollowsHitz
<1> QED
  BY <1>1, CampaignInvariance, PTL

\* What the operator concludes from an exit code and from an interrupted row
\* holds, for any file and any number of runs.
THEOREM CampaignSound == CampaignSpec => []CampaignIsSound
<1>1. CleanExitServesAll /\ XlmFollowsHitz => CampaignIsSound
  BY DEF CampaignIsSound
<1> QED
  BY <1>1, CleanExit, HitzComesFirst, PTL

-----------------------------------------------------------------------------
(***************************************************************************)
(* The quiet key never silences an alert that nobody got, for any number   *)
(* of claims.  The invariant is inductive once alert is a function:        *)
(* whoever sets the key is then the one that mails or drops it.            *)
(***************************************************************************)

AlertInv == AlertTypeOK /\ QuietAfterAlert

LEMMA AlertStart == AlertInit => AlertInv
BY DEF AlertInit, AlertInv, AlertTypeOK, QuietAfterAlert

\* One claim moves: only it can stop being the one that mails or drops.
LEMMA OneClaimMoves ==
    ASSUME AlertInv, NEW c \in Claim, NEW from, NEW to, AlertAt(c, from, to)
    PROVE  /\ alert[c] = from /\ alert'[c] = to
           /\ \A d \in Claim : d # c => alert'[d] = alert[d]
BY DEF AlertInv, AlertTypeOK, AlertAt

LEMMA AlertTypes == AlertTypeOK /\ [AlertNext]_alertVars => AlertTypeOK'
<1> SUFFICES ASSUME AlertTypeOK, [AlertNext]_alertVars PROVE AlertTypeOK'
  OBVIOUS
<1> USE DEF AlertTypeOK
<1>1. ASSUME NEW c \in Claim, RedeemClaim(c) PROVE AlertTypeOK'
  BY <1>1 DEF RedeemClaim, AlertAt
<1>2. ASSUME NEW c \in Claim, ReadSponsorBalance(c) PROVE AlertTypeOK'
  BY <1>2 DEF ReadSponsorBalance, AlertAt
<1>3. ASSUME NEW c \in Claim, CheckQuiet(c) PROVE AlertTypeOK'
  BY <1>3 DEF CheckQuiet, AlertAt
<1>4. ASSUME NEW c \in Claim, SetQuiet(c) PROVE AlertTypeOK'
  BY <1>4 DEF SetQuiet, AlertAt
<1>5. ASSUME NEW c \in Claim, SendAlert(c) PROVE AlertTypeOK'
  BY <1>5 DEF SendAlert, AlertAt, AfterFailedMail
<1>6. ASSUME NEW c \in Claim, DropQuiet(c) PROVE AlertTypeOK'
  BY <1>6 DEF DropQuiet, AlertAt, KeyGone
<1>7. ASSUME NEW c \in Claim, LoseAlert(c) PROVE AlertTypeOK'
  BY <1>7 DEF LoseAlert, AlertAt
<1>8. CASE QuietExpires
  BY <1>8 DEF QuietExpires, KeyGone
<1>9. CASE BalanceMoves
  BY <1>9 DEF BalanceMoves
<1>10. CASE UNCHANGED alertVars
  BY <1>10 DEF alertVars
<1> QED
  BY <1>1, <1>2, <1>3, <1>4, <1>5, <1>6, <1>7, <1>8, <1>9, <1>10 DEF AlertNext

LEMMA AlertStep == AlertInv /\ [AlertNext]_alertVars => QuietAfterAlert'
<1> SUFFICES ASSUME AlertInv, [AlertNext]_alertVars, quiet', ~unheard'
             PROVE  heard' \/ \E c \in Claim : alert'[c] \in {"mail", "drop"}
  BY DEF QuietAfterAlert
<1> DEFINE Goal == heard' \/ \E c \in Claim : alert'[c] \in {"mail", "drop"}
<1>0. quiet /\ ~unheard => heard \/ \E d \in Claim : alert[d] \in {"mail", "drop"}
  BY DEF AlertInv, QuietAfterAlert
<1>1. ASSUME NEW c \in Claim, NEW from, NEW to, AlertAt(c, from, to),
             from \notin {"mail", "drop"}, UNCHANGED <<quiet, heard, unheard>>
      PROVE  Goal
  BY <1>0, <1>1, OneClaimMoves
<1>2. ASSUME NEW c \in Claim, RedeemClaim(c) PROVE Goal
  BY <1>1, <1>2 DEF RedeemClaim
<1>3. ASSUME NEW c \in Claim, ReadSponsorBalance(c) PROVE Goal
  BY <1>1, <1>3 DEF ReadSponsorBalance
<1>4. ASSUME NEW c \in Claim, CheckQuiet(c) PROVE Goal
  BY <1>1, <1>4 DEF CheckQuiet
<1>5. ASSUME NEW c \in Claim, SetQuiet(c) PROVE Goal
  <2>1. CASE AlertAt(c, "set", "mail")
    BY <2>1, OneClaimMoves
  <2>2. CASE AlertAt(c, "set", "none") /\ UNCHANGED <<quiet, unheard>>
    BY <1>1, <1>5, <2>2 DEF SetQuiet
  <2> QED
    BY <1>5, <2>1, <2>2 DEF SetQuiet
<1>6. ASSUME NEW c \in Claim, SendAlert(c) PROVE Goal
  <2>1. CASE heard' = quiet
    BY <1>6, <2>1 DEF SendAlert
  <2>2. CASE AlertAt(c, "mail", AfterFailedMail)
    BY <2>2, OneClaimMoves DEF AfterFailedMail
  <2> QED
    BY <1>6, <2>1, <2>2 DEF SendAlert
<1>7. ASSUME NEW c \in Claim, DropQuiet(c) PROVE Goal
  <2>1. CASE KeyGone
    BY <2>1 DEF KeyGone
  <2>2. CASE unheard' = quiet /\ quiet' = quiet
    <3>1. quiet
      BY <2>2
    <3>2. unheard'
      BY <2>2, <3>1
    <3> QED
      BY <3>2
  <2> QED
    BY <1>7, <2>1, <2>2 DEF DropQuiet
<1>8. ASSUME NEW c \in Claim, LoseAlert(c) PROVE Goal
  <2>1. CASE alert[c] \in {"mail", "drop"}
    BY <1>8, <2>1 DEF LoseAlert
  <2>2. CASE alert[c] \notin {"mail", "drop"}
    BY <1>0, <1>8, <2>2, OneClaimMoves DEF LoseAlert
  <2> QED
    BY <2>1, <2>2
<1>9. CASE QuietExpires
  BY <1>9 DEF QuietExpires, KeyGone
<1>10. CASE BalanceMoves
  BY <1>0, <1>10 DEF BalanceMoves
<1>11. CASE UNCHANGED alertVars
  BY <1>0, <1>11 DEF alertVars
<1> QED
  BY <1>2, <1>3, <1>4, <1>5, <1>6, <1>7, <1>8, <1>9, <1>10, <1>11 DEF AlertNext

\* Whatever claims set, mail and drop across each other: a key that keeps
\* alerts quiet stands for a mail that was sent or is still to be.
THEOREM NoSilence == AlertSpec => []QuietAfterAlert
<1>1. AlertInv /\ [AlertNext]_alertVars => AlertInv'
  BY AlertTypes, AlertStep DEF AlertInv
<1>2. AlertInv => QuietAfterAlert
  BY DEF AlertInv
<1> QED
  BY <1>1, <1>2, AlertStart, PTL DEF AlertSpec

-----------------------------------------------------------------------------
(***************************************************************************)
(* Signing in: a login leaves no token behind that nobody was sent, and a  *)
(* load of the verify page never uses up the link it then refuses, for any *)
(* number of links, tabs and ticks.  The invariant follows a link that is  *)
(* gone: one load that holds it got it, or its login took it back.         *)
(***************************************************************************)

LoginRecord ==
    [step : {"none", "posted", "mail", "undo", "done", "refused", "swallowed", "faulted"},
     email : {"none"} \cup {Normal[raw] : raw \in Raw}, until : Nat]
PageRecord ==
    [step : {"closed", "verifying", "refused", "success", "failed"}, token : 0..MaxLogins,
     took : BOOLEAN, fired : BOOLEAN, effects : Nat, at : Nat]
AskRecord == [tab : Tab, nr : Nat, step : {"get", "delete", "answer"}, exp : Nat]

SignInTypes ==
    /\ clock \in 1..MaxClock
    /\ modal \in [status : {"idle", "sending", "sent", "error"}, login : 0..MaxLogins]
    /\ logins \in [Link -> LoginRecord]
    /\ links \in [Link -> 0..(MaxClock + TokenLife)]
    /\ inbox \in SUBSET Link
    /\ tabs \in [Tab -> PageRecord]
    /\ asked \in SUBSET AskRecord

\* Who holds a token that is good, and until when it is.
LinksInv ==
    /\ \A t \in inbox : logins[t].step \in {"done", "undo", "swallowed", "faulted"}
    /\ \A t \in Link : links[t] > 0 =>
          /\ links[t] = logins[t].until
          /\ t \in inbox \/ logins[t].step \in {"mail", "undo", "faulted"}
    /\ \A t \in Link : logins[t].step = "mail" => links[t] > 0

\* A load of the page asks once, and has its link once the request got it.
TabsInv ==
    /\ \A tab \in Tab : tabs[tab].token = 0 => tabs[tab] = Closed
    /\ \A tab \in Tab : tabs[tab].token # 0 => tabs[tab].token \in inbox
    /\ \A tab \in Tab : tabs[tab].took => tabs[tab].fired
    /\ \A q \in asked : /\ tabs[q.tab].fired /\ tabs[q.tab].token # 0
                        /\ q.step = "get" <=> ~tabs[q.tab].took
    /\ \A p, q \in asked : p.tab = q.tab => p = q

\* A link that was mailed and is gone was got by a load, or taken back.
Used(t) == \E tab \in Tab : tabs[tab].token = t /\ tabs[tab].took
UsedInv == \A t \in inbox : links[t] = 0 => Used(t) \/ logins[t].step = "swallowed"

SignInInv == SignInTypes /\ LinksInv /\ TabsInv /\ UsedInv /\ RefusalsAreTrue

LEMMA SignInStarts == SignInInit => SignInInv
<1> SUFFICES ASSUME SignInInit PROVE SignInInv
  OBVIOUS
<1>0. MaxClock \in Nat /\ MaxClock # 0 /\ TokenLife \in Nat /\ MaxLogins \in Nat
  BY SignInAssumption
<1>1. SignInTypes
  BY <1>0 DEF SignInInit, SignInTypes, LoginRecord, PageRecord, AskRecord, NoModal, NoLogin, Closed
<1>2. LinksInv /\ TabsInv /\ UsedInv /\ RefusalsAreTrue
  BY DEF SignInInit, LinksInv, TabsInv, UsedInv, RefusalsAreTrue, Closed, NoLogin
<1> QED
  BY <1>1, <1>2 DEF SignInInv

\* The answer of a login changes the modal's status only.
LEMMA ToldTypes ==
    ASSUME SignInTypes, NEW t, NEW ok \in BOOLEAN, Told(t, ok)
    PROVE  modal' \in [status : {"idle", "sending", "sent", "error"}, login : 0..MaxLogins]
BY DEF Told, AnswerOf, SignInTypes

\* A login moves on, and no other.
LEMMA LoginMoves ==
    ASSUME SignInTypes, NEW t \in Link,
           NEW step \in {"mail", "undo", "done", "refused", "swallowed", "faulted"}, LoginTo(t, step)
    PROVE  /\ logins' \in [Link -> LoginRecord]
           /\ logins'[t].step = step /\ logins'[t].until = logins[t].until
           /\ \A u \in Link \ {t} : logins'[u] = logins[u]
BY DEF LoginTo, SignInTypes, LoginRecord

\* What a login does to its own link leaves what was mailed before alone.
LEMMA FormStep ==
    ASSUME SignInInv, SignInTypes', LinksInv', UNCHANGED <<tabs, asked>>, inbox \subseteq inbox',
           \A t \in inbox : /\ logins'[t].until = logins[t].until
                            /\ links'[t] = links[t] \/ logins'[t].step = "swallowed"
                            /\ logins[t].step = "swallowed" => logins'[t].step = "swallowed",
           \A t \in inbox' \ inbox : links'[t] # 0
    PROVE  SignInInv'
<1>1. TabsInv'
  BY DEF SignInInv, TabsInv
<1>2. UsedInv'
  BY DEF SignInInv, UsedInv, Used
<1>3. RefusalsAreTrue'
  <2>1. \A tab \in Tab : tabs[tab].step = "refused" => tabs[tab].token \in inbox
    BY DEF SignInInv, TabsInv, Closed
  <2> QED
    BY <2>1 DEF SignInInv, RefusalsAreTrue
<1> QED
  BY <1>1, <1>2, <1>3 DEF SignInInv

LEMMA SubmitStep == ASSUME SignInInv, NEW raw \in Raw, SubmitEmail(raw) PROVE SignInInv'
<1>1. PICK t \in Unused :
         /\ logins' = [logins EXCEPT ![t].step = "posted", ![t].email = Normal[raw]]
         /\ modal' = [status |-> "sending", login |-> t]
  BY DEF SubmitEmail
<1>2. /\ UNCHANGED <<clock, links, inbox, tabs, asked>>
      /\ t \in Link /\ logins[t] = NoLogin /\ SignInTypes /\ LinksInv
  BY <1>1 DEF SubmitEmail, Unused, SignInInv
<1>3. /\ logins' \in [Link -> LoginRecord] /\ logins'[t].step = "posted"
      /\ \A u \in Link \ {t} : logins'[u] = logins[u]
  BY <1>1, <1>2 DEF SignInTypes, LoginRecord
<1>4. t \notin inbox /\ links[t] = 0
  BY <1>2 DEF LinksInv, NoLogin, SignInTypes
<1>5. SignInTypes'
  <2>1. Link \subseteq 0..MaxLogins
    BY SignInAssumption DEF Link
  <2> QED
    BY <1>1, <1>2, <1>3, <2>1 DEF SignInTypes
<1>6. LinksInv'
  BY <1>2, <1>3, <1>4 DEF LinksInv, SignInTypes
<1> QED
  BY <1>2, <1>3, <1>4, <1>5, <1>6, FormStep DEF SignInTypes

LEMMA StoreTokenStep == ASSUME SignInInv, NEW t \in Link, StoreToken(t) PROVE SignInInv'
<1>1. /\ UNCHANGED <<clock, inbox, tabs, asked>> /\ logins[t].step = "posted"
      /\ SignInTypes /\ LinksInv
  BY DEF StoreToken, LoginAt, SignInInv
<1>2. t \notin inbox
  BY <1>1 DEF LinksInv
<1>3. links[t] = 0
  BY <1>1, <1>2 DEF LinksInv, SignInTypes
<1>4. CASE logins[t].email = "invalid"
  <2>1. LoginTo(t, "refused") /\ Told(t, FALSE) /\ links' = links
    BY <1>4 DEF StoreToken
  <2>2. SignInTypes'
    BY <1>1, <2>1, LoginMoves, ToldTypes DEF SignInTypes
  <2>3. /\ logins'[t].step = "refused" /\ logins'[t].until = logins[t].until
        /\ \A u \in Link \ {t} : logins'[u] = logins[u]
    BY <1>1, <2>1, LoginMoves
  <2>4. LinksInv'
    BY <1>1, <1>2, <1>3, <2>1, <2>3 DEF LinksInv, SignInTypes
  <2> QED
    BY <1>1, <1>2, <2>1, <2>2, <2>3, <2>4, FormStep DEF SignInTypes
<1>5. CASE logins[t].email # "invalid"
  <2> DEFINE until == clock + TokenLife
  <2>1. /\ logins' = [logins EXCEPT ![t].step = "mail", ![t].until = until]
        /\ links' = [links EXCEPT ![t] = until] /\ modal' = modal
    BY <1>5 DEF StoreToken
  <2>2. until \in 0..(MaxClock + TokenLife) /\ until > 0 /\ until \in Nat
    BY <1>1, SignInAssumption DEF SignInTypes
  <2> HIDE DEF until
  <2>3. /\ logins' \in [Link -> LoginRecord] /\ logins'[t].step = "mail" /\ logins'[t].until = until
        /\ \A u \in Link \ {t} : logins'[u] = logins[u]
    BY <1>1, <2>1, <2>2 DEF SignInTypes, LoginRecord
  <2>4. /\ links' \in [Link -> 0..(MaxClock + TokenLife)] /\ links'[t] = until
        /\ \A u \in Link \ {t} : links'[u] = links[u]
    BY <1>1, <2>1, <2>2 DEF SignInTypes
  <2>5. SignInTypes'
    BY <1>1, <2>1, <2>3, <2>4 DEF SignInTypes
  <2>6. LinksInv'
    BY <1>1, <1>2, <2>2, <2>3, <2>4 DEF LinksInv, SignInTypes
  <2> QED
    BY <1>1, <1>2, <2>3, <2>4, <2>5, <2>6, FormStep DEF SignInTypes
<1> QED
  BY <1>4, <1>5

LEMMA MailLinkStep == ASSUME SignInInv, NEW t \in Link, MailLink(t) PROVE SignInInv'
<1>1. /\ UNCHANGED <<clock, links, tabs, asked>> /\ logins[t].step = "mail"
      /\ SignInTypes /\ LinksInv
  BY DEF MailLink, LoginAt, SignInInv
<1>2. t \notin inbox /\ links[t] > 0 /\ links[t] # 0
  BY <1>1 DEF LinksInv, SignInTypes
<1>3. CASE /\ LoginTo(t, "done") /\ inbox' = inbox \cup {t}
           /\ \E answered \in BOOLEAN : Told(t, answered)
  <2>1. SignInTypes'
    BY <1>1, <1>3, LoginMoves, ToldTypes DEF SignInTypes
  <2>2. /\ logins'[t].step = "done" /\ logins'[t].until = logins[t].until
        /\ \A u \in Link \ {t} : logins'[u] = logins[u]
    BY <1>1, <1>3, LoginMoves
  <2>3. LinksInv'
    BY <1>1, <1>2, <1>3, <2>2 DEF LinksInv, SignInTypes
  <2> QED
    BY <1>1, <1>2, <1>3, <2>1, <2>2, <2>3, FormStep DEF SignInTypes
<1>4. CASE LoginTo(t, AfterBounce) /\ UNCHANGED modal /\ inbox' \in {inbox, inbox \cup {t}}
  <2>1. LoginTo(t, "undo")
    BY <1>4 DEF AfterBounce
  <2>2. SignInTypes'
    BY <1>1, <1>4, <2>1, LoginMoves DEF SignInTypes
  <2>3. /\ logins'[t].step = "undo" /\ logins'[t].until = logins[t].until
        /\ \A u \in Link \ {t} : logins'[u] = logins[u]
    BY <1>1, <2>1, LoginMoves
  <2>4. LinksInv'
    BY <1>1, <1>2, <1>4, <2>3 DEF LinksInv, SignInTypes
  <2> QED
    BY <1>1, <1>2, <1>4, <2>2, <2>3, <2>4, FormStep DEF SignInTypes
<1> QED
  BY <1>3, <1>4 DEF MailLink

LEMMA TakeBackStep == ASSUME SignInInv, NEW t \in Link, TakeTokenBack(t) PROVE SignInInv'
<1>1. /\ UNCHANGED <<clock, inbox, tabs, asked>> /\ logins[t].step = "undo"
      /\ SignInTypes /\ LinksInv /\ LoginTo(t, "swallowed") /\ Told(t, FALSE)
      /\ links' = [links EXCEPT ![t] = 0]
  BY DEF TakeTokenBack, LoginAt, SignInInv
<1>2. /\ links' \in [Link -> 0..(MaxClock + TokenLife)] /\ links'[t] = 0
      /\ \A u \in Link \ {t} : links'[u] = links[u]
  BY <1>1, SignInAssumption DEF SignInTypes
<1>3. SignInTypes'
  BY <1>1, <1>2, LoginMoves, ToldTypes DEF SignInTypes
<1>4. /\ logins'[t].step = "swallowed" /\ logins'[t].until = logins[t].until
      /\ \A u \in Link \ {t} : logins'[u] = logins[u]
  BY <1>1, LoginMoves
<1>5. LinksInv'
  BY <1>1, <1>2, <1>4 DEF LinksInv, SignInTypes
<1> QED
  BY <1>1, <1>2, <1>3, <1>4, <1>5, FormStep DEF SignInTypes

LEMMA LoginFaultStep == ASSUME SignInInv, NEW t \in Link, LoginFault(t) PROVE SignInInv'
<1>1. /\ UNCHANGED <<clock, links, inbox, tabs, asked>> /\ logins[t].step \in {"posted", "mail", "undo"}
      /\ SignInTypes /\ LinksInv /\ LoginTo(t, "faulted") /\ Told(t, FALSE)
  BY DEF LoginFault, SignInInv
<1>2. SignInTypes'
  BY <1>1, LoginMoves, ToldTypes DEF SignInTypes
<1>3. /\ logins'[t].step = "faulted" /\ logins'[t].until = logins[t].until
      /\ \A u \in Link \ {t} : logins'[u] = logins[u]
  BY <1>1, LoginMoves
<1>4. LinksInv'
  BY <1>1, <1>3 DEF LinksInv, SignInTypes
<1> QED
  BY <1>1, <1>2, <1>3, <1>4, FormStep DEF SignInTypes

\* What a load of the page shows, and nothing else of it.
LEMMA DisplayMoves ==
    ASSUME SignInTypes, NEW tab \in Tab, NEW what \in {"refused", "success", "failed"},
           Display(tab, what)
    PROVE  /\ tabs' \in [Tab -> PageRecord]
           /\ tabs'[tab].step = what /\ tabs'[tab].at = clock
           /\ \A other \in Tab : /\ tabs'[other].token = tabs[other].token
                                 /\ tabs'[other].fired = tabs[other].fired
                                 /\ tabs'[other].took = tabs[other].took
           /\ \A other \in Tab \ {tab} : tabs'[other] = tabs[other]
<1>0. tabs \in [Tab -> PageRecord] /\ clock \in Nat
  BY SignInAssumption DEF SignInTypes
<1>1. PICK old \in PageRecord : old = tabs[tab]
  BY <1>0
<1>2. PICK m : m = [old EXCEPT !.step = what, !.at = clock]
  OBVIOUS
<1>3. /\ m \in PageRecord /\ m.step = what /\ m.at = clock
      /\ m.token = old.token /\ m.fired = old.fired /\ m.took = old.took
  BY <1>0, <1>2 DEF PageRecord
<1>4. tabs' = [tabs EXCEPT ![tab] = m]
  BY <1>0, <1>1, <1>2 DEF Display
<1> QED
  BY <1>0, <1>1, <1>3, <1>4

\* What a load of the page that says so may take from it.
Refused(tab) ==
    LET t == tabs[tab].token IN
    \/ tabs[tab].at >= logins[t].until
    \/ \E other \in Tab \ {tab} : tabs[other].token = t /\ tabs[other].took
    \/ logins[t].step = "swallowed"

\* A refusal stays true while loads keep their links.
LEMMA RefusalStays ==
    ASSUME SignInInv, UNCHANGED logins,
           \A tab \in Tab : tabs[tab].token # 0 => /\ tabs'[tab].token = tabs[tab].token
                                                   /\ tabs[tab].took => tabs'[tab].took,
           NEW tab \in Tab, tabs[tab].step = "refused", tabs'[tab].at = tabs[tab].at
    PROVE  Refused(tab)'
<1>1. tabs[tab].token # 0
  BY DEF SignInInv, TabsInv, Closed
<1> QED
  BY <1>1 DEF SignInInv, RefusalsAreTrue, Refused

LEMMA OpenLinkStep ==
    ASSUME SignInInv, NEW tab \in Tab, NEW t \in Link, OpenLink(tab, t) PROVE SignInInv'
<1>1. /\ UNCHANGED <<clock, modal, logins, links, inbox, asked>> /\ t \in inbox
      /\ SignInTypes /\ LinksInv /\ TabsInv /\ UsedInv /\ tabs[tab] = Closed
      /\ tabs' = [tabs EXCEPT ![tab].token = t, ![tab].step = "verifying"]
  BY DEF OpenLink, SignInInv
<1>2. t # 0 /\ t \in 0..MaxLogins /\ 0 \notin inbox
  BY <1>1, SignInAssumption DEF Link, SignInTypes
<1>3. /\ tabs' \in [Tab -> PageRecord] /\ tabs'[tab].token = t /\ tabs'[tab].step = "verifying"
      /\ ~tabs'[tab].took
      /\ \A other \in Tab \ {tab} : tabs'[other] = tabs[other]
  BY <1>1, <1>2 DEF SignInTypes, PageRecord, Closed
<1>4. tabs[tab].token = 0
  BY <1>1 DEF Closed
<1>5. SignInTypes' /\ LinksInv'
  BY <1>1, <1>3 DEF SignInTypes, LinksInv
<1>6. \A q \in asked : q.tab \in Tab \ {tab}
  BY <1>1, <1>4 DEF TabsInv, SignInTypes, AskRecord
<1>7. TabsInv'
  BY <1>1, <1>2, <1>3, <1>6 DEF TabsInv
<1>8. UsedInv'
  <2>1. ASSUME NEW u \in inbox, Used(u) PROVE Used(u)'
    <3>1. PICK other \in Tab : tabs[other].token = u /\ tabs[other].took
      BY <2>1 DEF Used
    <3>2. other # tab
      BY <1>2, <1>4, <3>1
    <3> QED
      BY <1>3, <3>1, <3>2 DEF Used
  <2> QED
    BY <1>1, <2>1 DEF UsedInv
<1>9. RefusalsAreTrue'
  BY <1>1, <1>3, <1>4, RefusalStays DEF RefusalsAreTrue, Refused
<1> QED
  BY <1>5, <1>7, <1>8, <1>9 DEF SignInInv

LEMMA RunEffectStep == ASSUME SignInInv, NEW tab \in Tab, RunEffect(tab) PROVE SignInInv'
<1> DEFINE new == [tab |-> tab, nr |-> tabs[tab].effects, step |-> "get", exp |-> 0]
<1>1. /\ UNCHANGED <<clock, modal, logins, links, inbox>>
      /\ SignInTypes /\ LinksInv /\ TabsInv /\ UsedInv /\ tabs[tab] # Closed
      /\ tabs' = [tabs EXCEPT ![tab].fired = TRUE, ![tab].effects = @ + 1]
  BY DEF RunEffect, SignInInv
<1>2. /\ tabs' \in [Tab -> PageRecord] /\ tabs'[tab].fired
      /\ \A other \in Tab : /\ tabs'[other].token = tabs[other].token
                            /\ tabs'[other].took = tabs[other].took
                            /\ tabs'[other].step = tabs[other].step
                            /\ tabs'[other].at = tabs[other].at
                            /\ tabs[other].fired => tabs'[other].fired
  BY <1>1 DEF SignInTypes, PageRecord
<1>3. tabs[tab].token # 0 /\ new \in AskRecord /\ new.tab = tab /\ new.step = "get"
  BY <1>1 DEF TabsInv, SignInTypes, AskRecord, PageRecord
<1>4. \/ asked' = asked
      \/ /\ asked' = asked \cup {new} /\ ~tabs[tab].fired
         /\ \A q \in asked : q.tab # tab
  BY <1>1 DEF RunEffect, MayFire, TabsInv
<1>5. SignInTypes' /\ LinksInv'
  <2> HIDE DEF new
  <2> QED
    BY <1>1, <1>2, <1>3, <1>4 DEF SignInTypes, LinksInv
<1>6. TabsInv'
  <2>1. \A other \in Tab : tabs'[other].token = 0 => tabs'[other] = Closed
    <3>1. \A other \in Tab \ {tab} : tabs'[other] = tabs[other]
      BY <1>1 DEF SignInTypes
    <3> QED
      BY <1>1, <1>2, <1>3, <3>1 DEF TabsInv
  <2>2. \A q \in asked' : q.tab \in Tab
    BY <1>5 DEF SignInTypes, AskRecord
  <2> HIDE DEF new
  <2>3. \A q \in asked' : /\ tabs'[q.tab].fired /\ tabs'[q.tab].token # 0
                          /\ q.step = "get" <=> ~tabs'[q.tab].took
    BY <1>1, <1>2, <1>3, <1>4, <2>2 DEF TabsInv
  <2>4. \A p, q \in asked' : p.tab = q.tab => p = q
    BY <1>1, <1>3, <1>4 DEF TabsInv
  <2>5. \A other \in Tab : tabs'[other].token # 0 => tabs'[other].token \in inbox'
    BY <1>1, <1>2 DEF TabsInv
  <2> QED
    BY <1>1, <1>2, <2>1, <2>3, <2>4, <2>5 DEF TabsInv
<1> HIDE DEF new
<1>7. UsedInv'
  BY <1>1, <1>2 DEF UsedInv, Used
<1>8. RefusalsAreTrue'
  BY <1>1, <1>2, RefusalStays DEF RefusalsAreTrue, Refused
<1> QED
  BY <1>5, <1>6, <1>7, <1>8 DEF SignInInv

\* A request and the load it belongs to.
LEMMA AskedOf ==
    ASSUME SignInInv, NEW q \in asked
    PROVE  /\ q \in AskRecord /\ q.tab \in Tab /\ tabs[q.tab].fired
           /\ tabs[q.tab].token \in inbox /\ tabs[q.tab].token \in Link
           /\ \A p \in asked \ {q} : p.tab # q.tab
BY DEF SignInInv, SignInTypes, TabsInv, AskRecord

\* The request of a load goes on or ends.
LEMMA AskedMoves ==
    ASSUME SignInInv, NEW q \in asked, NEW p \in AskRecord, p.tab = q.tab,
           asked' \subseteq (asked \ {q}) \cup {p},
           UNCHANGED <<logins, inbox>>, SignInTypes', LinksInv',
           p \in asked' => p.step # "get" /\ tabs'[q.tab].took,
           \A tab \in Tab : /\ tabs'[tab].token = tabs[tab].token
                            /\ tabs'[tab].fired = tabs[tab].fired
                            /\ tabs[tab].took => tabs'[tab].took,
           \A tab \in Tab \ {q.tab} : tabs'[tab] = tabs[tab],
           tabs'[q.tab].step = "refused" =>
              (tabs[q.tab].step = "refused" /\ tabs'[q.tab].at = tabs[q.tab].at) \/ Refused(q.tab)',
           \A t \in inbox : links'[t] = 0 => links[t] = 0 \/ (t = tabs[q.tab].token /\ tabs'[q.tab].took)
    PROVE  SignInInv'
<1>1. TabsInv'
  <2>1. \A r \in asked' : /\ tabs'[r.tab].fired /\ tabs'[r.tab].token # 0
                          /\ r.step = "get" <=> ~tabs'[r.tab].took
    <3> SUFFICES ASSUME NEW r \in asked'
                 PROVE  /\ tabs'[r.tab].fired /\ tabs'[r.tab].token # 0
                        /\ r.step = "get" <=> ~tabs'[r.tab].took
      OBVIOUS
    <3>1. CASE r = p
      BY <3>1, AskedOf DEF SignInInv, TabsInv
    <3>2. CASE r # p
      <4>1. r \in asked /\ r # q
        BY <3>2
      <4>2. r.tab \in Tab \ {q.tab}
        BY <4>1, AskedOf
      <4> QED
        BY <4>1, <4>2 DEF SignInInv, TabsInv
    <3> QED
      BY <3>1, <3>2
  <2>2. \A r, s \in asked' : r.tab = s.tab => r = s
    BY AskedOf DEF SignInInv, TabsInv
  <2>3. \A tab \in Tab : tabs'[tab].token = 0 => tabs'[tab] = Closed
    BY AskedOf DEF SignInInv, TabsInv
  <2>4. \A tab \in Tab : tabs'[tab].took => tabs'[tab].fired
    BY AskedOf DEF SignInInv, TabsInv
  <2>5. \A tab \in Tab : tabs'[tab].token # 0 => tabs'[tab].token \in inbox'
    BY DEF SignInInv, TabsInv
  <2> QED
    BY <2>1, <2>2, <2>3, <2>4, <2>5 DEF TabsInv
<1>2. UsedInv'
  BY AskedOf DEF SignInInv, UsedInv, Used
<1>3. RefusalsAreTrue'
  <2> SUFFICES ASSUME NEW tab \in Tab, tabs'[tab].step = "refused" PROVE Refused(tab)'
    BY DEF RefusalsAreTrue, Refused
  <2>1. CASE tabs[tab].step = "refused" /\ tabs'[tab].at = tabs[tab].at
    BY <2>1, RefusalStays
  <2>2. CASE ~(tabs[tab].step = "refused" /\ tabs'[tab].at = tabs[tab].at)
    <3>1. tab = q.tab
      BY <2>2
    <3> QED
      BY <2>2, <3>1
  <2> QED
    BY <2>1, <2>2
<1> QED
  BY <1>1, <1>2, <1>3 DEF SignInInv

LEMMA GetLinkStep == ASSUME SignInInv, NEW q \in asked, GetLink(q) PROVE SignInInv'
<1> DEFINE tab == q.tab
           t == tabs[q.tab].token
<1>1. /\ UNCHANGED <<clock, modal, logins, links, inbox>> /\ q.step = "get"
      /\ SignInTypes /\ LinksInv
  BY DEF GetLink, SignInInv
<1>2. LinksInv'
  BY <1>1 DEF LinksInv
<1>3. tab \in Tab /\ t \in inbox /\ t \in Link /\ q \in AskRecord
  BY AskedOf
<1>4. CASE Live(t)
  <2>1. StepTo(q, "delete") /\ tabs' = [tabs EXCEPT ![tab].took = TRUE]
    BY <1>4 DEF GetLink
  <2>2. PICK p : p = [q EXCEPT !.step = "delete"]
    OBVIOUS
  <2>3. p \in AskRecord /\ p.tab = q.tab /\ p.step = "delete"
    BY <1>3, <2>2 DEF AskRecord
  <2>4. asked' = (asked \ {q}) \cup {p}
    BY <2>1, <2>2 DEF StepTo
  <2>5. /\ tabs' \in [Tab -> PageRecord] /\ tabs'[tab].took
        /\ tabs'[tab].step = tabs[tab].step /\ tabs'[tab].at = tabs[tab].at
        /\ tabs'[tab].token = tabs[tab].token /\ tabs'[tab].fired = tabs[tab].fired
        /\ \A other \in Tab \ {tab} : tabs'[other] = tabs[other]
    <3> HIDE DEF tab
    <3> QED
      BY <1>1, <1>3, <2>1 DEF SignInTypes, PageRecord
  <2>6. SignInTypes'
    BY <1>1, <2>3, <2>4, <2>5 DEF SignInTypes
  <2> QED
    BY <1>1, <1>2, <2>3, <2>4, <2>5, <2>6, AskedMoves
<1>5. CASE ~Live(t)
  <2>1. asked' = asked \ {q} /\ Display(tab, "refused")
    BY <1>5 DEF GetLink
  <2>2. /\ tabs' \in [Tab -> PageRecord]
        /\ tabs'[tab].step = "refused" /\ tabs'[tab].at = clock
        /\ \A other \in Tab : /\ tabs'[other].token = tabs[other].token
                              /\ tabs'[other].fired = tabs[other].fired
                              /\ tabs'[other].took = tabs[other].took
        /\ \A other \in Tab \ {tab} : tabs'[other] = tabs[other]
    <3> HIDE DEF tab
    <3> QED
      BY <1>1, <1>3, <2>1, DisplayMoves
  <2>3. SignInTypes'
    BY <1>1, <2>1, <2>2 DEF SignInTypes
  <2>4. \/ clock >= logins[t].until
        \/ \E other \in Tab \ {tab} : tabs[other].token = t /\ tabs[other].took
        \/ logins[t].step = "swallowed"
    <3>1. links[t] \in Nat /\ clock \in Nat
      BY <1>1, <1>3, SignInAssumption DEF SignInTypes
    <3>2. CASE links[t] > 0
      <4>1. links[t] = logins[t].until
        BY <1>1, <1>3, <3>2 DEF LinksInv
      <4> QED
        BY <1>5, <3>1, <3>2, <4>1 DEF Live
    <3>3. CASE links[t] = 0
      <4>1. Used(t) \/ logins[t].step = "swallowed"
        BY <1>3, <3>3 DEF SignInInv, UsedInv
      <4>2. ~tabs[tab].took
        BY <1>1 DEF SignInInv, TabsInv
      <4> QED
        BY <4>1, <4>2 DEF Used
    <3> QED
      BY <3>1, <3>2, <3>3
  <2>5. Refused(tab)'
    BY <1>1, <1>3, <2>2, <2>4 DEF Refused
  <2> QED
    BY <1>1, <1>2, <1>3, <2>1, <2>2, <2>3, <2>5, AskedMoves
<1> QED
  BY <1>4, <1>5

LEMMA DeleteLinkStep == ASSUME SignInInv, NEW q \in asked, DeleteLink(q) PROVE SignInInv'
<1> DEFINE t == tabs[q.tab].token
<1>1. /\ UNCHANGED <<clock, modal, logins, inbox, tabs>> /\ q.step = "delete"
      /\ SignInTypes /\ LinksInv /\ links' = [links EXCEPT ![t] = 0]
  BY DEF DeleteLink, SignInInv
<1>2. t \in inbox /\ t \in Link /\ q \in AskRecord
  BY AskedOf
<1>3. PICK p : p = [q EXCEPT !.step = "answer", !.exp = clock + SessionLife]
  OBVIOUS
<1>4. p \in AskRecord /\ p.tab = q.tab /\ p.step = "answer"
  <2>1. clock + SessionLife \in Nat
    BY <1>1, SignInAssumption DEF SignInTypes
  <2> QED
    BY <1>2, <1>3, <2>1 DEF AskRecord
<1>5. asked' = (asked \ {q}) \cup {p}
  BY <1>3 DEF DeleteLink
<1> HIDE DEF t
<1>6. /\ links' \in [Link -> 0..(MaxClock + TokenLife)] /\ links'[t] = 0
      /\ \A u \in Link \ {t} : links'[u] = links[u]
  BY <1>1, <1>2, SignInAssumption DEF SignInTypes
<1>7. SignInTypes'
  BY <1>1, <1>4, <1>5, <1>6 DEF SignInTypes
<1>8. LinksInv'
  <2>1. logins[t].step # "mail"
    BY <1>1, <1>2 DEF LinksInv
  <2> QED
    BY <1>1, <1>2, <1>6, <2>1 DEF LinksInv
<1>9. tabs[q.tab].took
  BY <1>1 DEF SignInInv, TabsInv
<1>10. \A u \in inbox : links'[u] = 0 => links[u] = 0 \/ (u = tabs[q.tab].token /\ tabs'[q.tab].took)
  BY <1>1, <1>6, <1>9 DEF SignInTypes, t
<1> QED
  BY <1>1, <1>4, <1>5, <1>7, <1>8, <1>9, <1>10, AskedMoves

\* A request that ends, well or not.
LEMMA AskedEnds ==
    ASSUME SignInInv, NEW q \in asked, asked' = asked \ {q},
           NEW what \in {"success", "failed"}, Display(q.tab, what),
           UNCHANGED <<clock, modal, logins, links, inbox>>
    PROVE  SignInInv'
<1> DEFINE tab == q.tab
<1>1. tab \in Tab /\ q \in AskRecord /\ SignInTypes /\ LinksInv
  BY AskedOf DEF SignInInv
<1>2. Display(tab, what)
  OBVIOUS
<1> HIDE DEF tab
<1>3. /\ tabs' \in [Tab -> PageRecord] /\ tabs'[tab].step = what
      /\ \A other \in Tab : /\ tabs'[other].token = tabs[other].token
                            /\ tabs'[other].fired = tabs[other].fired
                            /\ tabs'[other].took = tabs[other].took
      /\ \A other \in Tab \ {tab} : tabs'[other] = tabs[other]
  BY <1>1, <1>2, DisplayMoves
<1>4. SignInTypes' /\ LinksInv'
  BY <1>1, <1>3 DEF SignInTypes, LinksInv
<1> QED
  BY <1>1, <1>3, <1>4, AskedMoves DEF tab

\* Whatever is done to the modal, the cookie and the clock.
LEMMA OutsideStep ==
    ASSUME SignInInv, CloseModal \/ Me \/ Logout \/ TimePasses \/ UNCHANGED signInVars
    PROVE  SignInInv'
<1>1. UNCHANGED <<logins, links, inbox, tabs, asked>>
  BY DEF CloseModal, Me, Logout, TimePasses, signInVars
<1>2. /\ clock' \in 1..MaxClock
      /\ modal' \in [status : {"idle", "sending", "sent", "error"}, login : 0..MaxLogins]
  BY SignInAssumption
  DEF CloseModal, Me, Logout, TimePasses, signInVars, SignInInv, SignInTypes, NoModal
<1>3. SignInTypes'
  BY <1>1, <1>2 DEF SignInInv, SignInTypes
<1> QED
  BY <1>1, <1>3 DEF SignInInv, LinksInv, TabsInv, UsedInv, Used, RefusalsAreTrue

\* login.ts:58-61, page.tsx:48-50.  No token is left that nobody was sent, and
\* no load of the page uses up the link it then refuses, for any number of
\* links, loads of the page and ticks.
THEOREM LinksStayTrue == SignInSpec => []LinksAreTrue
<1>1. SignInInv /\ [SignInNext]_signInVars => SignInInv'
  <2> SUFFICES ASSUME SignInInv, [SignInNext]_signInVars PROVE SignInInv'
    OBVIOUS
  <2>1. CASE \E raw \in Raw : SubmitEmail(raw)
    BY <2>1, SubmitStep
  <2>2. CASE \E t \in Link : StoreToken(t) \/ MailLink(t) \/ TakeTokenBack(t) \/ LoginFault(t)
    BY <2>2, StoreTokenStep, MailLinkStep, TakeBackStep, LoginFaultStep
  <2>3. CASE \E tab \in Tab : RunEffect(tab) \/ \E t \in Link : OpenLink(tab, t)
    BY <2>3, RunEffectStep, OpenLinkStep
  <2>4. ASSUME NEW q \in asked, GetLink(q) \/ DeleteLink(q) \/ AnswerVerify(q) \/ VerifyFault(q)
        PROVE  SignInInv'
    <3>1. CASE AnswerVerify(q)
      BY <3>1, AskedEnds DEF AnswerVerify
    <3>2. CASE VerifyFault(q)
      BY <3>2, AskedEnds DEF VerifyFault
    <3> QED
      BY <2>4, <3>1, <3>2, GetLinkStep, DeleteLinkStep
  <2> QED
    BY <2>1, <2>2, <2>3, <2>4, OutsideStep DEF SignInNext
<1>2. SignInInv => LinksAreTrue
  <2> SUFFICES ASSUME SignInInv PROVE LinksAreTrue
    OBVIOUS
  <2>1. SignInTypeOK
    BY DEF SignInInv, SignInTypes, SignInTypeOK
  <2>2. NoDeadTokens
    BY DEF SignInInv, LinksInv, NoDeadTokens, Live
  <2> QED
    BY <2>1, <2>2 DEF LinksAreTrue, SignInInv
<1> QED
  BY <1>1, <1>2, SignInStarts, PTL DEF SignInSpec
=============================================================================
