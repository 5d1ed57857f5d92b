-------------------- MODULE AppPartsProofs --------------------
(***************************************************************************)
(* The proofs about the web app of one visitor, part by part.              *)
(***************************************************************************)
EXTENDS SendPanel, WebSession, SwapPanel, SacrificePanel, HolderScene, AdminTools, SumTheorems

-----------------------------------------------------------------------------
(***************************************************************************)
(* The proofs about WebSession: the page never mixes two sessions, and     *)
(* never shows the answer of a refresh that a newer one has overtaken, for *)
(* any wallets and any number of events.                                   *)
(***************************************************************************)

\* The publicKey of a session.
Keys == WalletKeys \cup {EmailKey, Nobody}

Refresh == [seq : Nat, key : Keys, at : Nat, stage : {"mass", "balance"}]

Sessions == {LoggedOut, AsEmail} \cup {AsWallet(k) : k \in WalletKeys}

\* Refreshes have a sequence number each, none above the newest; the newest
\* one, while it runs, is the one newest tells of, and when it has ended well
\* it left its own answer on screen.
RefreshInv ==
    /\ session \in Sessions
    /\ stored \in WalletKeys \cup {Nobody}
    /\ height \in Nat /\ events \in Nat
    /\ height <= events /\ events <= MaxEvents
    /\ newest \in [seq : Nat, key : Keys, at : Nat, ended : {"no", "ok", "error"}]
    /\ newest.at <= height
    /\ refreshes \subseteq Refresh
    /\ \A r \in refreshes :
          /\ r.seq <= newest.seq
          /\ r.seq = newest.seq => r.key = newest.key /\ r.at = newest.at /\ newest.ended = "no"
    /\ \A r, q \in refreshes : r.seq = q.seq => r = q
    /\ newest.ended = "ok" => shown.of = newest.key /\ (shown.at >= newest.at \/ shown = NoBalance)

-----------------------------------------------------------------------------
LEMMA SessionsAreTyped ==
    ASSUME NEW s \in Sessions
    PROVE  s.publicKey \in Keys
BY DEF Sessions, LoggedOut, AsEmail, AsWallet, Keys

\* The page loads with one refresh, the newest.
LEMMA RefreshInvInit == SessionInit => RefreshInv
BY SessionAssumption
DEF SessionInit, RefreshInv, Sessions, LoggedOut, Keys, Refresh, Nobody, NoBalance

\* A refresh that starts is the newest, and no other has its number.
LEMMA StartKeepsInv ==
    ASSUME RefreshInv, NEW key \in Keys, StartRefresh(key),
           session' \in Sessions, stored' \in WalletKeys \cup {Nobody}, height' = height,
           events' \in Nat, events' >= events, events' <= MaxEvents, shown' = shown
    PROVE  RefreshInv'
<1> DEFINE r == [seq |-> newest.seq + 1, key |-> key, at |-> height, stage |-> "mass"]
<1>1. /\ refreshes' = refreshes \cup {r}
      /\ newest' = [seq |-> r.seq, key |-> key, at |-> height, ended |-> "no"]
  BY DEF StartRefresh
<1>2. r \in Refresh /\ newest.seq \in Nat /\ r.seq = newest.seq + 1
  BY DEF RefreshInv, Refresh
<1>3. refreshes' \subseteq Refresh
  BY <1>1, <1>2 DEF RefreshInv
<1>4. newest' \in [seq : Nat, key : Keys, at : Nat, ended : {"no", "ok", "error"}]
  BY <1>1, <1>2 DEF RefreshInv
<1>5. \A q \in refreshes : q.seq < r.seq
  BY <1>2 DEF RefreshInv, Refresh
<1>6. \A q \in refreshes' :
          /\ q.seq <= newest'.seq
          /\ q.seq = newest'.seq => q.key = newest'.key /\ q.at = newest'.at /\ newest'.ended = "no"
  BY <1>1, <1>2, <1>5 DEF RefreshInv, Refresh
<1>7. \A p, q \in refreshes' : p.seq = q.seq => p = q
  BY <1>1, <1>2, <1>5 DEF RefreshInv, Refresh
<1>8. newest'.ended = "no" /\ newest'.at = height
  BY <1>1
<1>9. height' \in Nat /\ height' <= events'
  BY DEF RefreshInv
<1> HIDE DEF r
<1>10. QED
  BY <1>3, <1>4, <1>6, <1>7, <1>8, <1>9 DEF RefreshInv

\* A session that changes starts a refresh when its account changed, and
\* touches nothing else of the protocol.
LEMMA BecomesKeepsInv ==
    ASSUME RefreshInv, NEW s \in Sessions, Becomes(s), stored' \in WalletKeys \cup {Nobody},
           events' \in Nat, events' >= events, events' <= MaxEvents
    PROVE  RefreshInv'
<1>1. /\ session' = s /\ height' = height /\ shown' = shown
      /\ s.publicKey \in Keys
  BY SessionsAreTyped DEF Becomes, SessionBecomes
<1>2. CASE s.publicKey = session.publicKey
  <2>1. refreshes' = refreshes /\ newest' = newest
    BY <1>2 DEF Becomes, SessionBecomes
  <2>2. QED
    BY <1>1, <2>1 DEF RefreshInv, NoBalance
<1>3. CASE s.publicKey # session.publicKey
  <2>1. StartRefresh(s.publicKey)
    BY <1>3 DEF Becomes, SessionBecomes
  <2>2. QED
    BY <1>1, <2>1, StartKeepsInv
<1>4. QED
  BY <1>2, <1>3

\* When the newest refresh ends no other has its number, and what it leaves on
\* screen is its own; the end of an older one changes nothing.
LEMMA EndKeepsInv ==
    ASSUME RefreshInv, NEW r \in refreshes, NEW how \in {"ok", "error"}, End(r, how),
           session' = session, stored' = stored, height' = height, events' = events,
           IsCurrent(r) /\ how = "ok" =>
               shown'.of = r.key /\ (shown'.at >= r.at \/ shown' = NoBalance),
           ~IsCurrent(r) => shown' = shown
    PROVE  RefreshInv'
<1>1. refreshes' = refreshes \ {r}
  BY DEF End
<1>2. refreshes' \subseteq Refresh /\ \A p, q \in refreshes' : p.seq = q.seq => p = q
  BY <1>1 DEF RefreshInv
<1>3. CASE r.seq = newest.seq
  <2>1. newest' = [newest EXCEPT !.ended = how]
    BY <1>3 DEF End
  <2>2. /\ newest' \in [seq : Nat, key : Keys, at : Nat, ended : {"no", "ok", "error"}]
        /\ newest'.seq = newest.seq /\ newest'.key = newest.key /\ newest'.at = newest.at
        /\ newest'.ended = how
    BY <2>1 DEF RefreshInv
  <2>3. \A q \in refreshes' : q.seq <= newest'.seq /\ q.seq # newest'.seq
    BY <1>1, <1>3, <2>2 DEF RefreshInv
  <2>4. r.key = newest.key /\ r.at = newest.at
    BY <1>3 DEF RefreshInv
  <2>5. how = "ok" => shown'.of = newest'.key /\ (shown'.at >= newest'.at \/ shown' = NoBalance)
    BY <1>3, <2>2, <2>4 DEF IsCurrent
  <2>6. newest'.at <= height' /\ height' \in Nat /\ height' <= events' /\ events' <= MaxEvents
    BY <2>2 DEF RefreshInv
  <2>7. QED
    BY <1>2, <2>2, <2>3, <2>5, <2>6 DEF RefreshInv, NoBalance
<1>4. CASE r.seq # newest.seq
  <2>1. newest' = newest /\ shown' = shown
    BY <1>4 DEF End, IsCurrent
  <2>2. QED
    BY <1>1, <1>2, <2>1 DEF RefreshInv, NoBalance
<1>5. QED
  BY <1>3, <1>4
\* One event more stays within the bound.
LEMMA EventCounts ==
    ASSUME RefreshInv, Event
    PROVE  events' \in Nat /\ events' >= events /\ events' <= MaxEvents
BY SessionAssumption DEF Event, RefreshInv

\* What WalletContext does.
LEMMA WalletStepKeepsInv ==
    ASSUME RefreshInv,
           \/ MeServed \/ MeAnswers \/ WalletRestores \/ OpenModal \/ ModalAnswers
           \/ Disconnect \/ DisconnectAnswers \/ KitDisconnects \/ OtherTab
           \/ \E k \in WalletKeys : KitUpdates(k)
    PROVE  RefreshInv'
<1>1. /\ LoggedOut \in Sessions /\ AsEmail \in Sessions
      /\ \A k \in WalletKeys : AsWallet(k) \in Sessions
      /\ DropWallet \in Sessions
  <2>1. LoggedOut \in Sessions /\ AsEmail \in Sessions
        /\ \A k \in WalletKeys : AsWallet(k) \in Sessions
    BY DEF Sessions
  <2>2. DropWallet \in Sessions
    <3>1. CASE session.type = "wallet"
      <4>1. PICK k \in WalletKeys : session = AsWallet(k)
        BY <3>1 DEF RefreshInv, Sessions, LoggedOut, AsEmail
      <4>2. DropWallet = LoggedOut
        BY <3>1, <4>1 DEF DropWallet, AsWallet, LoggedOut
      <4>3. QED
        BY <2>1, <4>2
    <3>2. CASE session.type # "wallet"
      BY <3>2 DEF DropWallet, RefreshInv
    <3>3. QED
      BY <3>1, <3>2
  <2>3. QED
    BY <2>1, <2>2
<1>2. events \in Nat /\ events <= MaxEvents
  BY DEF RefreshInv
<1>3. ASSUME Stays, stored' \in WalletKeys \cup {Nobody},
             events' \in Nat, events' >= events, events' <= MaxEvents
      PROVE  RefreshInv'
  BY <1>3 DEF Stays, protocolVars, RefreshInv, NoBalance
<1>4. CASE MeServed
  BY <1>2, <1>3, <1>4 DEF MeServed, RefreshInv
<1>5. CASE MeAnswers
  <2>1. events' = events /\ stored' = stored
    BY <1>5 DEF MeAnswers
  <2>2. CASE Becomes(AsEmail)
    BY <1>1, <1>2, <2>1, <2>2, BecomesKeepsInv DEF RefreshInv
  <2>3. CASE Stays
    BY <1>2, <1>3, <2>1, <2>3 DEF RefreshInv
  <2>4. QED
    BY <1>5, <2>2, <2>3 DEF MeAnswers
<1>6. CASE WalletRestores
  <2>1. events' = events /\ stored' = stored
    BY <1>6 DEF WalletRestores
  <2>2. CASE stored # Nobody
    <3>1. Becomes(AsWallet(stored)) /\ stored \in WalletKeys
      BY <1>6, <2>2 DEF WalletRestores, RefreshInv
    <3>2. QED
      BY <1>1, <1>2, <2>1, <3>1, BecomesKeepsInv DEF RefreshInv
  <2>3. CASE stored = Nobody
    <3>1. Stays
      BY <1>6, <2>3 DEF WalletRestores
    <3>2. QED
      BY <1>2, <1>3, <2>1, <3>1 DEF RefreshInv
  <2>4. QED
    BY <2>2, <2>3
<1>7. CASE OpenModal
  <2>1. Stays /\ Event /\ stored' = stored
    BY <1>7 DEF OpenModal
  <2>2. QED
    BY <1>3, <2>1, EventCounts DEF RefreshInv
<1>8. CASE ModalAnswers
  <2>1. events' = events
    BY <1>8 DEF ModalAnswers
  <2>2. ASSUME NEW k \in WalletKeys, stored' = k, Becomes(AsWallet(k))
        PROVE  RefreshInv'
    BY <1>1, <1>2, <2>1, <2>2, BecomesKeepsInv
  <2>3. CASE Stays /\ stored' = stored
    BY <1>2, <1>3, <2>1, <2>3 DEF RefreshInv
  <2>4. QED
    BY <1>8, <2>2, <2>3 DEF ModalAnswers
<1>9. CASE Disconnect
  <2>1. Event /\ stored' = stored
    BY <1>9 DEF Disconnect
  <2>2. Stays \/ Becomes(LoggedOut)
    BY <1>9 DEF Disconnect
  <2>3. CASE Stays
    BY <1>3, <2>1, <2>3, EventCounts DEF RefreshInv
  <2>4. CASE Becomes(LoggedOut)
    BY <1>1, <2>1, <2>4, EventCounts, BecomesKeepsInv DEF RefreshInv
  <2>5. QED
    BY <2>2, <2>3, <2>4
<1>10. CASE DisconnectAnswers
  <2>1. Becomes(LoggedOut) /\ events' = events /\ stored' \in {stored, Nobody}
    BY <1>10 DEF DisconnectAnswers
  <2>2. QED
    BY <1>1, <1>2, <2>1, BecomesKeepsInv DEF RefreshInv
<1>11. CASE KitDisconnects
  <2>1. Event /\ stored' = Nobody /\ Becomes(DropWallet)
    BY <1>11 DEF KitDisconnects
  <2>2. QED
    BY <1>1, <2>1, EventCounts, BecomesKeepsInv
<1>12. CASE OtherTab
  <2>1. Stays /\ Event /\ stored' = stored
    BY <1>12 DEF OtherTab
  <2>2. QED
    BY <1>3, <2>1, EventCounts DEF RefreshInv
<1>13. ASSUME NEW k \in WalletKeys, KitUpdates(k)
       PROVE  RefreshInv'
  <2>1. Event /\ stored' = k /\ Becomes(AsWallet(k))
    BY <1>13 DEF KitUpdates
  <2>2. QED
    BY <1>1, <2>1, EventCounts, BecomesKeepsInv
<1>14. QED
  BY <1>4, <1>5, <1>6, <1>7, <1>8, <1>9, <1>10, <1>11, <1>12, <1>13

\* What ProtocolContext and the ledger do.
LEMMA ProtocolStepKeepsInv ==
    ASSUME RefreshInv,
           \/ Block
           \/ \E k \in WalletKeys \cup {EmailKey, Nobody} : PollRefresh(k)
           \/ \E r \in refreshes : MassArrives(r) \/ BalanceArrives(r) \/ RefreshFails(r)
    PROVE  RefreshInv'
<1>1. CASE Block
  <2>1. Event /\ height' = height + 1 /\ UNCHANGED <<session, stored, refreshes, newest, shown>>
    BY <1>1 DEF Block, walletVars
  <2>2. height' \in Nat /\ height' <= events' /\ height' >= height
    BY <2>1 DEF Event, RefreshInv
  <2>3. newest.at \in Nat /\ height \in Nat /\ newest.at <= height
    BY DEF RefreshInv
  <2>4. newest'.at <= height'
    BY <2>1, <2>2, <2>3
  <2>5. QED
    BY <2>1, <2>2, <2>4, EventCounts DEF RefreshInv, NoBalance
<1>2. ASSUME NEW k \in WalletKeys \cup {EmailKey, Nobody}, PollRefresh(k)
      PROVE  RefreshInv'
  <2>1. Event /\ StartRefresh(k) /\ UNCHANGED <<session, stored, height, shown>>
    BY <1>2 DEF PollRefresh, walletVars
  <2>2. QED
    BY <2>1, EventCounts, StartKeepsInv DEF RefreshInv, Keys
<1>3. ASSUME NEW r \in refreshes, MassArrives(r)
      PROVE  RefreshInv'
  <2>1. UNCHANGED <<session, stored, height, events>> /\ r.stage = "mass"
    BY <1>3 DEF MassArrives, walletVars
  <2>2. CASE IsCurrent(r) /\ r.key # Nobody
    <3> DEFINE q == [r EXCEPT !.stage = "balance"]
    <3>1. refreshes' = (refreshes \ {r}) \cup {q} /\ newest' = newest /\ shown' = shown
      BY <1>3, <2>2 DEF MassArrives
    <3>2. q \in Refresh /\ q.seq = r.seq /\ q.key = r.key /\ q.at = r.at
      BY DEF RefreshInv, Refresh
    <3> HIDE DEF q
    <3>3. refreshes' \subseteq Refresh /\ \A p1, p2 \in refreshes' : p1.seq = p2.seq => p1 = p2
      BY <3>1, <3>2 DEF RefreshInv
    <3>4. \A p \in refreshes' :
             /\ p.seq <= newest'.seq
             /\ p.seq = newest'.seq => p.key = newest'.key /\ p.at = newest'.at /\ newest'.ended = "no"
      BY <3>1, <3>2 DEF RefreshInv
    <3>5. QED
      BY <2>1, <3>1, <3>3, <3>4 DEF RefreshInv, NoBalance
  <2>3. CASE ~(IsCurrent(r) /\ r.key # Nobody)
    <3>1. /\ End(r, "ok")
          /\ IF IsCurrent(r) THEN shown' = NoBalance /\ stale' = FALSE ELSE UNCHANGED <<shown, stale>>
      BY <1>3, <2>3 DEF MassArrives
    <3>2. IsCurrent(r) => shown'.of = r.key /\ shown' = NoBalance
      BY <2>3, <3>1 DEF NoBalance
    <3>3. ~IsCurrent(r) => shown' = shown
      BY <3>1
    <3>4. QED
      BY <2>1, <3>1, <3>2, <3>3, EndKeepsInv
  <2>4. QED
    BY <2>2, <2>3
<1>4. ASSUME NEW r \in refreshes, BalanceArrives(r)
      PROVE  RefreshInv'
  <2>1. UNCHANGED <<session, stored, height, events>> /\ End(r, "ok")
    BY <1>4 DEF BalanceArrives, walletVars
  <2>2. ~IsCurrent(r) => shown' = shown
    BY <1>4 DEF BalanceArrives
  <2>3. ASSUME IsCurrent(r)
        PROVE  shown'.of = r.key /\ shown'.at >= r.at
    <3>1. PICK h \in (r.at..height) \cup {FailedRead} : shown' = [of |-> r.key, at |-> h]
      BY <1>4, <2>3 DEF BalanceArrives
    <3>2. r.at \in Nat /\ r.at <= height /\ height <= MaxEvents /\ height \in Nat
      BY <2>3, SessionAssumption DEF IsCurrent, RefreshInv, Refresh
    <3>3. h >= r.at
      BY <3>2, SessionAssumption DEF FailedRead
    <3>4. QED
      BY <3>1, <3>3
  <2>4. QED
    BY <2>1, <2>2, <2>3, EndKeepsInv
<1>5. ASSUME NEW r \in refreshes, RefreshFails(r)
      PROVE  RefreshInv'
  <2>1. UNCHANGED <<session, stored, height, events, shown>> /\ End(r, "error")
    BY <1>5 DEF RefreshFails, walletVars
  <2>2. QED
    BY <2>1, EndKeepsInv
<1>6. QED
  BY <1>1, <1>2, <1>3, <1>4, <1>5

\* RefreshInv holds in every reachable state.
THEOREM RefreshInvariance == SessionSpec => []RefreshInv
<1>1. RefreshInv /\ [SessionNext]_sessionVars => RefreshInv'
  <2> SUFFICES ASSUME RefreshInv, [SessionNext]_sessionVars
               PROVE  RefreshInv'
    OBVIOUS
  <2>1. CASE SessionNext
    BY <2>1, WalletStepKeepsInv, ProtocolStepKeepsInv DEF SessionNext
  <2>2. CASE UNCHANGED sessionVars
    BY <2>2 DEF RefreshInv, sessionVars, walletVars, protocolVars, NoBalance
  <2>3. QED
    BY <2>1, <2>2
<1>2. QED
  BY <1>1, RefreshInvInit, PTL DEF SessionSpec

\* contexts/WalletContext.tsx: publicKey, email and connectionType always tell
\* of one session, in whatever order the wallet kit, the session cookie and the
\* user's clicks are answered.
THEOREM SessionWhole == SessionSpec => []SessionIsWhole
<1>1. RefreshInv => SessionIsWhole
  BY DEF RefreshInv, SessionIsWhole, Sessions
<1>2. QED
  BY <1>1, RefreshInvariance, PTL

\* contexts/ProtocolContext.tsx: no answer of an overtaken refresh, of this
\* account or of one that was connected before, is ever on screen once the
\* newest refresh has ended well.
THEOREM BalanceCurrent == SessionSpec => []ShownBalanceIsCurrent
<1>1. RefreshInv => ShownBalanceIsCurrent
  BY DEF RefreshInv, ShownBalanceIsCurrent
<1>2. QED
  BY <1>1, RefreshInvariance, PTL

\* The header shows one account: who is connected, how, and what it holds.
THEOREM HeaderTrue == SessionSpec => []HeaderIsTrue
<1>1. SessionIsWhole /\ ShownBalanceIsCurrent => HeaderIsTrue
  BY DEF HeaderIsTrue
<1>2. QED
  BY <1>1, SessionWhole, BalanceCurrent, PTL

-----------------------------------------------------------------------------
(***************************************************************************)
(* The proofs about SendPanel and the gateway below it: an answer of       *)
(* success leaves what its caller relies on, and what the panel reports    *)
(* has landed.  The ledger only gains accounts and trustlines, and a       *)
(* transaction that has succeeded stays so; a handler's transaction is the *)
(* one its operation called for.                                           *)
(***************************************************************************)

States    == {"none", "bare", "trusting"}
Operation == {"none", "ensure", "bootstrap", "execute", "wallet"}
Effect    == {"none", "create", "create+trust", "trust", "restore", "call"}
Place     == {"idle", "read", "load", "sign", "send", "poll", "build", "done"}
Somebody  == Account \cup {NoAccount}

Transaction ==
    [source : Account \cup {Sponsor}, seq : Nat, effect : Effect, target : Account,
     to : Somebody, state : {"pending", "success", "failed", "gone"}]

Request ==
    [op : Operation, target : Somebody, from : Somebody, to : Somebody, pc : Place,
     effect : Effect, seq : Nat, restored : BOOLEAN, tx : Nat, reply : {"none", "ok", "error"}]

\* The transactions an operation may send.
EffectsOf(op) ==
    CASE op = "ensure"    -> {"create+trust", "trust"}
      [] op = "bootstrap" -> {"create"}
      [] op = "execute"   -> {"create", "restore", "call"}
      [] OTHER            -> {"restore", "call"}

Transfers == {"execute", "wallet"}

\* A call on the ledger, from the account it names to a funded one.
Called(q) ==
    /\ q.tx \in DOMAIN txs /\ txs[q.tx].effect = "call" /\ txs[q.tx].state = "success"
    /\ txs[q.tx].to = q.to /\ txs[q.tx].source = q.target
    /\ q.from = q.target /\ ledger[q.to] # "none"

Ready(q) ==
    CASE q.op = "ensure"    -> ledger[q.target] = "trusting"
      [] q.op = "bootstrap" -> ledger[q.target] # "none"
      [] OTHER              -> Called(q)

\* The transaction a handler waits for is its own.
Awaits(q) ==
    /\ q.tx \in DOMAIN txs /\ txs[q.tx].effect = q.effect /\ txs[q.tx].target = q.target
    /\ txs[q.tx].to = q.to /\ txs[q.tx].source = SourceOf(q)

Underway(q) ==
    /\ q.target \in Account /\ q.op # "none" /\ (q.op \in Transfers => q.to \in Account)
    /\ q.pc \in {"load", "sign", "send", "poll"} => q.effect \in EffectsOf(q.op)
    /\ q.pc = "build" => q.op \in Transfers
    /\ q.effect = "call" => q.from = q.target /\ q.to \in Account /\ ledger[q.to] # "none"
    /\ q.pc = "poll" => Awaits(q)
    /\ q.reply # "ok"

Sound(q) ==
    /\ q \in Request
    /\ q.pc \notin {"idle", "done"} => Underway(q)
    /\ q.reply = "ok" => q.op # "none" /\ q.target \in Account /\ Ready(q)
                         /\ (q.op \in Transfers => q.to \in Account)

\* What transactions that succeeded have made of the ledger.
Applied(t) ==
    t.state = "success" =>
        /\ t.effect \in {"create+trust", "trust"} => ledger[t.target] = "trusting"
        /\ t.effect = "create" => ledger[t.target] # "none"

GatewayInv ==
    /\ ledger \in [Account -> States]
    /\ sequence \in [Account \cup {Sponsor} -> Nat]
    /\ txs \in Seq(Transaction)
    /\ DOMAIN req = Slot
    /\ \A i \in DOMAIN txs : Applied(txs[i])
    /\ \A s \in Slot : Sound(req[s])

\* Nothing is lost: accounts, trustlines, and the calls that landed.
Gains ==
    /\ \A a \in Account : /\ ledger[a] # "none" => ledger'[a] # "none"
                          /\ ledger[a] = "trusting" => ledger'[a] = "trusting"
    /\ DOMAIN txs \subseteq DOMAIN txs'
    /\ \A i \in DOMAIN txs :
          /\ txs'[i].effect = txs[i].effect /\ txs'[i].target = txs[i].target
          /\ txs'[i].to = txs[i].to /\ txs'[i].source = txs[i].source
          /\ txs[i].state = "success" => txs'[i].state = "success"

LEMMA SoundStays ==
    ASSUME Gains, NEW q, Sound(q)
    PROVE  Sound(q)'
<1>1. q.reply = "ok" => q.op # "none" /\ q.target \in Account /\ Ready(q)'
                        /\ (q.op \in Transfers => q.to \in Account)
  <2> SUFFICES ASSUME q.reply = "ok" PROVE Ready(q)'
    BY DEF Sound
  <2>1. q.target \in Account /\ Ready(q) /\ (q.op \in Transfers => q.to \in Account)
        /\ q.op \in Operation /\ q.op # "none"
    BY DEF Sound, Request
  <2>2. CASE q.op \in {"ensure", "bootstrap"}
    BY <2>1, <2>2 DEF Ready, Gains
  <2>3. CASE q.op \in Transfers
    <3>1. Called(q) /\ q.to \in Account
      BY <2>1, <2>3 DEF Ready, Transfers
    <3>2. Called(q)'
      BY <3>1 DEF Called, Gains
    <3> QED
      BY <2>3, <3>2 DEF Ready, Transfers
  <2> QED
    BY <2>1, <2>2, <2>3 DEF Operation, Transfers
<1>2. q.pc \notin {"idle", "done"} => Underway(q)'
  <2> SUFFICES ASSUME q.pc \notin {"idle", "done"} PROVE Underway(q)'
    OBVIOUS
  <2>1. Underway(q)
    BY DEF Sound
  <2>2. q.pc = "poll" => Awaits(q)'
    BY <2>1 DEF Underway, Awaits, Gains, SourceOf
  <2>3. q.effect = "call" => q.from = q.target /\ q.to \in Account /\ ledger'[q.to] # "none"
    BY <2>1 DEF Underway, Gains
  <2> QED
    BY <2>1, <2>2, <2>3 DEF Underway
<1> QED
  BY <1>1, <1>2 DEF Sound

LEMMA SameGains ==
    ASSUME UNCHANGED <<ledger, txs>>
    PROVE  Gains
BY DEF Gains

\* One handler goes on; the chain stays as it is.
LEMMA HandlerMoves ==
    ASSUME GatewayInv, NEW s \in Slot, NEW q, Sound(q), req' = [req EXCEPT ![s] = q],
           UNCHANGED <<ledger, sequence, txs>>
    PROVE  GatewayInv' /\ Gains
<1>1. Gains
  BY SameGains
<1>2. \A x \in Slot : Sound(req[x])'
  <2>1. SUFFICES ASSUME NEW x \in Slot PROVE Sound(req[x])'
    OBVIOUS
  <2>2. PICK w : w = IF x = s THEN q ELSE req[x]
    OBVIOUS
  <2>3. Sound(w) /\ req'[x] = w
    BY <2>2 DEF GatewayInv
  <2>4. Sound(w)'
    BY <1>1, <2>3, SoundStays
  <2> QED
    BY <2>3, <2>4 DEF Sound
<1>3. \A i \in DOMAIN txs' : Applied(txs[i])'
  BY DEF GatewayInv, Applied
<1> QED
  BY <1>1, <1>2, <1>3 DEF GatewayInv

\* No step of the gateway changes what a handler was asked for.
Keeps ==
    \A s \in Slot : /\ req'[s].op = req[s].op
                    /\ req'[s].from = req[s].from /\ req'[s].to = req[s].to

\* One handler goes on with what it was asked for.
LEMMA HandlerGoesOn ==
    ASSUME GatewayInv, NEW s \in Slot, NEW q, Sound(q), req' = [req EXCEPT ![s] = q],
           q.op = req[s].op, q.from = req[s].from, q.to = req[s].to,
           UNCHANGED <<ledger, sequence, txs>>
    PROVE  GatewayInv' /\ Gains /\ Keeps
<1>1. GatewayInv' /\ Gains
  BY HandlerMoves
<1>2. Keeps
  BY DEF GatewayInv, Keeps
<1> QED
  BY <1>1, <1>2

LEMMA AnsweredSound ==
    ASSUME NEW q \in Request, NEW reply \in {"ok", "error"},
           reply = "ok" => q.op # "none" /\ q.target \in Account /\ Ready(q)
                           /\ (q.op \in Transfers => q.to \in Account)
    PROVE  /\ Sound(Answered(q, reply))
           /\ Answered(q, reply).op = q.op
           /\ Answered(q, reply).from = q.from /\ Answered(q, reply).to = q.to
<1>1. PICK w : w = Answered(q, reply)
  OBVIOUS
<1>2. /\ w \in Request /\ w.op = q.op /\ w.target = q.target /\ w.to = q.to /\ w.from = q.from
      /\ w.tx = q.tx /\ w.pc = "done" /\ w.reply = reply
  BY <1>1 DEF Answered, Request, Place, Effect
<1>3. reply = "ok" => Ready(w)
  BY <1>2 DEF Ready, Called
<1> QED
  BY <1>1, <1>2, <1>3 DEF Sound

\* A handler that is under way answers.
LEMMA Replies ==
    ASSUME GatewayInv, NEW s \in Slot, NEW reply \in {"ok", "error"}, Reply(s, reply),
           reply = "ok" => Underway(req[s]) /\ Ready(req[s]),
           UNCHANGED <<ledger, sequence, txs>>
    PROVE  GatewayInv' /\ Gains /\ Keeps
<1>1. req[s] \in Request
  BY DEF GatewayInv, Sound
<1>2. reply = "ok" => req[s].op # "none" /\ req[s].target \in Account /\ Ready(req[s])
                      /\ (req[s].op \in Transfers => req[s].to \in Account)
  BY DEF Underway
<1>3. PICK q : q = Answered(req[s], reply)
  OBVIOUS
<1>4. Sound(q) /\ q.op = req[s].op /\ q.from = req[s].from /\ q.to = req[s].to
  BY <1>1, <1>2, <1>3, AnsweredSound
<1>5. req' = [req EXCEPT ![s] = q]
  BY <1>3 DEF Reply
<1> QED
  BY <1>4, <1>5, HandlerGoesOn

\* A handler that is under way goes to its next transaction.
LEMMA Goes ==
    ASSUME GatewayInv, NEW s \in Slot, Underway(req[s]), NEW pc, NEW effect, Goto(s, pc, effect),
           \/ pc = "load" /\ effect \in EffectsOf(req[s].op) /\ effect \in Effect /\ effect # "call"
           \/ pc = "build" /\ effect = "none" /\ req[s].op \in Transfers,
           UNCHANGED <<ledger, sequence, txs>>
    PROVE  GatewayInv' /\ Gains /\ Keeps
<1>1. req[s] \in Request /\ DOMAIN req = Slot
  BY DEF GatewayInv, Sound
<1>2. PICK r : r = req[s]
  OBVIOUS
<1>3. PICK q : q = [r EXCEPT !.pc = pc, !.effect = effect]
  OBVIOUS
<1>4. /\ q \in Request /\ q.op = r.op /\ q.target = r.target /\ q.to = r.to /\ q.from = r.from
      /\ q.pc = pc /\ q.effect = effect /\ q.reply = r.reply
  BY <1>1, <1>2, <1>3 DEF Request, Place, Effect
<1>5. Underway(q)
  BY <1>2, <1>4 DEF Underway
<1>6. Sound(q)
  BY <1>4, <1>5, <1>2 DEF Sound, Underway
<1>7. req' = [req EXCEPT ![s] = q]
  BY <1>1, <1>2, <1>3 DEF Goto
<1> QED
  BY <1>2, <1>4, <1>6, <1>7, HandlerGoesOn

LEMMA TrustlineKeeps ==
    ASSUME GatewayInv, NEW s \in Slot, EnsureTrustline(s)
    PROVE  GatewayInv' /\ Gains /\ Keeps
<1>1. Sound(req[s]) /\ UNCHANGED <<ledger, sequence, txs>> /\ req[s].op = "ensure"
  BY DEF GatewayInv, EnsureTrustline
<1>2. Underway(req[s])
  BY <1>1 DEF Sound, EnsureTrustline
<1>3. CASE Goto(s, "load", "create+trust")
  BY <1>1, <1>2, <1>3, Goes DEF EffectsOf, Effect
<1>4. CASE Goto(s, "load", "trust")
  BY <1>1, <1>2, <1>4, Goes DEF EffectsOf, Effect
<1>5. CASE ledger[req[s].target] = "trusting" /\ Reply(s, "ok")
  BY <1>1, <1>2, <1>5, Replies DEF Ready
<1>6. PICK horizon \in Past(ledger[req[s].target]) :
         CASE horizon = "none" -> Goto(s, "load", "create+trust")
           [] horizon = "bare" -> Goto(s, "load", "trust")
           [] OTHER         -> Reply(s, "ok")
  BY DEF EnsureTrustline
<1>7. ledger[req[s].target] \in States
  BY <1>2 DEF GatewayInv, Underway
<1> QED
  BY <1>3, <1>4, <1>5, <1>6, <1>7 DEF Past, States

LEMMA BootstrapKeeps ==
    ASSUME GatewayInv, NEW s \in Slot, EnsureBootstrapped(s)
    PROVE  GatewayInv' /\ Gains /\ Keeps
<1>1. Sound(req[s]) /\ UNCHANGED <<ledger, sequence, txs>> /\ req[s].op \in {"bootstrap", "execute"}
  BY DEF GatewayInv, EnsureBootstrapped
<1>2. Underway(req[s])
  BY <1>1 DEF Sound, EnsureBootstrapped
<1>3. CASE Goto(s, "load", "create")
  BY <1>1, <1>2, <1>3, Goes DEF EffectsOf, Effect
<1>4. CASE req[s].op = "bootstrap" /\ ledger[req[s].target] # "none" /\ Reply(s, "ok")
  BY <1>1, <1>2, <1>4, Replies DEF Ready
<1>5. CASE req[s].op = "execute" /\ Goto(s, "build", "none")
  BY <1>1, <1>2, <1>5, Goes DEF Transfers
<1> QED
  BY <1>1, <1>3, <1>4, <1>5 DEF EnsureBootstrapped

LEMMA LoadKeeps ==
    ASSUME GatewayInv, NEW s \in Slot, LoadSource(s)
    PROVE  GatewayInv' /\ Gains /\ Keeps
<1>1. Sound(req[s]) /\ UNCHANGED <<ledger, sequence, txs>> /\ req[s].pc = "load" /\ DOMAIN req = Slot
  BY DEF GatewayInv, LoadSource
<1>2. PICK r : r = req[s]
  OBVIOUS
<1>3. Underway(r) /\ r \in Request
  BY <1>1, <1>2 DEF Sound
<1>4. PICK n : n = sequence[SourceOf(r)] + 1
  OBVIOUS
<1>5. n \in Nat
  BY <1>3, <1>4 DEF SourceOf, GatewayInv, Underway
<1>6. PICK pc \in {"sign", "send"} : pc = IF r.op = "wallet" THEN "sign" ELSE "send"
  OBVIOUS
<1>7. PICK q : q = [r EXCEPT !.seq = n, !.pc = pc]
  OBVIOUS
<1>8. /\ q \in Request /\ q.op = r.op /\ q.target = r.target /\ q.to = r.to /\ q.from = r.from
      /\ q.pc = pc /\ q.effect = r.effect /\ q.reply = r.reply
  BY <1>3, <1>5, <1>7 DEF Request, Place
<1>9. Sound(q)
  BY <1>1, <1>2, <1>3, <1>8 DEF Sound, Underway
<1>10. req' = [req EXCEPT ![s] = q]
  BY <1>1, <1>2, <1>4, <1>6, <1>7 DEF LoadSource
<1> QED
  BY <1>1, <1>2, <1>8, <1>9, <1>10, HandlerGoesOn

LEMMA PrepareKeeps ==
    ASSUME GatewayInv, NEW s \in Slot, Prepare(s)
    PROVE  GatewayInv' /\ Gains /\ Keeps
<1>1. Sound(req[s]) /\ UNCHANGED <<ledger, sequence, txs>> /\ req[s].pc = "build" /\ DOMAIN req = Slot
  BY DEF GatewayInv, Prepare
<1>2. Underway(req[s]) /\ req[s] \in Request
  BY <1>1 DEF Sound
<1>3. CASE Reply(s, "error")
  BY <1>1, <1>3, Replies
<1>4. CASE Goto(s, "load", "restore")
  BY <1>1, <1>2, <1>4, Goes DEF EffectsOf, Effect, Underway, Transfers
<1>5. CASE /\ Simulates(req[s])
           /\ req' = [req EXCEPT ![s].effect = "call",
                                 ![s].seq = sequence[req[s].target] + 1,
                                 ![s].pc = IF req[s].op = "wallet" THEN "sign" ELSE "send"]
  <2>1. PICK r : r = req[s]
    OBVIOUS
  <2>2. PICK n : n = sequence[r.target] + 1
    OBVIOUS
  <2>3. n \in Nat
    BY <1>2, <2>1, <2>2 DEF GatewayInv, Underway
  <2>4. PICK pc \in {"sign", "send"} : pc = IF r.op = "wallet" THEN "sign" ELSE "send"
    OBVIOUS
  <2>5. PICK q : q = [r EXCEPT !.effect = "call", !.seq = n, !.pc = pc]
    OBVIOUS
  <2>6. /\ q \in Request /\ q.op = r.op /\ q.target = r.target /\ q.to = r.to /\ q.from = r.from
        /\ q.pc = pc /\ q.effect = "call" /\ q.reply = r.reply
    BY <1>2, <2>1, <2>3, <2>5 DEF Request, Place, Effect
  <2>7. Underway(q)
    BY <1>1, <1>2, <1>5, <2>1, <2>6 DEF Underway, Simulates, EffectsOf, Transfers
  <2>8. Sound(q)
    BY <2>6, <2>7 DEF Sound, Underway
  <2>9. req' = [req EXCEPT ![s] = q]
    BY <1>1, <1>5, <2>1, <2>2, <2>4, <2>5
  <2> QED
    BY <1>1, <2>1, <2>6, <2>8, <2>9, HandlerGoesOn
<1> QED
  BY <1>3, <1>4, <1>5 DEF Prepare

\* The chain changes, and at most one handler with it.
LEMMA ChainMoves ==
    ASSUME GatewayInv, Gains,
           (ledger \in [Account -> States])', (sequence \in [Account \cup {Sponsor} -> Nat])',
           (txs \in Seq(Transaction))', (\A i \in DOMAIN txs : Applied(txs[i]))',
           NEW s \in Slot, NEW q, Sound(q)', req' = [req EXCEPT ![s] = q]
    PROVE  GatewayInv'
<1>1. SUFFICES ASSUME NEW x \in Slot PROVE Sound(req[x])'
  BY DEF GatewayInv
<1>2. CASE x = s
  BY <1>2 DEF GatewayInv, Sound
<1>3. CASE x # s
  <2>1. PICK w : w = req[x]
    OBVIOUS
  <2>2. Sound(w) /\ req'[x] = w
    BY <1>3, <2>1 DEF GatewayInv
  <2>3. Sound(w)'
    BY <2>2, SoundStays
  <2> QED
    BY <2>2, <2>3 DEF Sound
<1> QED
  BY <1>2, <1>3

LEMMA SubmitKeeps ==
    ASSUME GatewayInv, NEW s \in Slot, Submit(s)
    PROVE  GatewayInv' /\ Gains /\ Keeps
<1>1. Sound(req[s]) /\ UNCHANGED <<ledger, sequence>> /\ req[s].pc = "send" /\ DOMAIN req = Slot
      /\ txs \in Seq(Transaction)
  BY DEF GatewayInv, Submit
<1>2. PICK r : r = req[s]
  OBVIOUS
<1>3. Underway(r) /\ r \in Request /\ r.pc = "send"
  BY <1>1, <1>2 DEF Sound
<1>4. CASE UNCHANGED txs /\ Reply(s, "error")
  BY <1>1, <1>4, Replies
<1> DEFINE t == [source |-> SourceOf(r), seq |-> r.seq, effect |-> r.effect,
                 target |-> r.target, to |-> r.to, state |-> "pending"]
<1>5. CASE txs' = Append(txs, t)
  <2>1. t \in Transaction
    BY <1>3 DEF Transaction, Request, Underway, SourceOf
  <2>2. /\ txs' \in Seq(Transaction) /\ DOMAIN txs = 1..Len(txs) /\ DOMAIN txs' = 1..(Len(txs) + 1)
        /\ \A i \in DOMAIN txs : txs'[i] = txs[i]
        /\ txs'[Len(txs) + 1] = t /\ Len(txs) \in Nat
    BY <1>1, <1>5, <2>1
  <2>3. Gains
    BY <1>1, <2>2 DEF Gains
  <2>4. (\A i \in DOMAIN txs : Applied(txs[i]))'
    <3> SUFFICES ASSUME NEW i \in DOMAIN txs' PROVE Applied(txs[i])'
      OBVIOUS
    <3>1. CASE i \in DOMAIN txs
      BY <1>1, <2>2, <3>1 DEF GatewayInv, Applied
    <3>2. CASE i = Len(txs) + 1
      BY <2>2, <3>2 DEF Applied
    <3> QED
      BY <2>2, <3>1, <3>2
  <2>5. ledger' \in [Account -> States] /\ sequence' \in [Account \cup {Sponsor} -> Nat]
    BY <1>1 DEF GatewayInv
  <2>6. ASSUME NEW q, Sound(q)', req' = [req EXCEPT ![s] = q],
               q.op = r.op, q.from = r.from, q.to = r.to
        PROVE  GatewayInv' /\ Keeps
    <3>1. GatewayInv'
      BY <2>2, <2>3, <2>4, <2>5, <2>6, ChainMoves
    <3>2. Keeps
      BY <1>1, <1>2, <2>6 DEF Keeps
    <3> QED
      BY <3>1, <3>2
  <2>7. CASE Reply(s, "error")
    <3>1. PICK q : q = Answered(r, "error")
      OBVIOUS
    <3>2. Sound(q) /\ q.op = r.op /\ q.from = r.from /\ q.to = r.to
      BY <1>3, <3>1, AnsweredSound
    <3>3. Sound(q)'
      BY <2>3, <3>2, SoundStays
    <3>4. req' = [req EXCEPT ![s] = q]
      BY <1>2, <2>7, <3>1 DEF Reply
    <3> QED
      BY <2>3, <2>6, <3>2, <3>3, <3>4
  <2>8. CASE req' = [req EXCEPT ![s].pc = "poll", ![s].tx = Len(txs) + 1]
    <3>1. PICK n \in Nat : n = Len(txs) + 1
      BY <2>2
    <3>2. PICK q : q = [r EXCEPT !.pc = "poll", !.tx = n]
      OBVIOUS
    <3>3. /\ q \in Request /\ q.op = r.op /\ q.target = r.target /\ q.to = r.to /\ q.from = r.from
          /\ q.pc = "poll" /\ q.effect = r.effect /\ q.reply = r.reply /\ q.tx = n
      BY <1>3, <3>2 DEF Request, Place
    <3>4. Awaits(q)'
      BY <2>2, <3>1, <3>3 DEF Awaits, SourceOf
    <3>5. Underway(q)'
      BY <1>1, <1>3, <3>3, <3>4 DEF Underway
    <3>6. Sound(q)'
      BY <1>3, <3>3, <3>5 DEF Sound, Underway
    <3>7. req' = [req EXCEPT ![s] = q]
      BY <1>1, <1>2, <2>8, <3>1, <3>2
    <3> QED
      BY <2>3, <2>6, <3>3, <3>6, <3>7
  <2>9. Reply(s, "error") \/ req' = [req EXCEPT ![s].pc = "poll", ![s].tx = Len(txs) + 1]
    <3>1. txs' # txs
      BY <2>2
    <3> QED
      BY <3>1 DEF Submit
  <2> QED
    BY <2>3, <2>7, <2>8, <2>9
<1>6. (UNCHANGED txs /\ Reply(s, "error")) \/ txs' = Append(txs, t)
  BY <1>2 DEF Submit
<1> QED
  BY <1>4, <1>5, <1>6

LEMMA PollKeeps ==
    ASSUME GatewayInv, NEW s \in Slot, PollStatus(s)
    PROVE  GatewayInv' /\ Gains /\ Keeps
<1>1. Sound(req[s]) /\ UNCHANGED <<ledger, sequence, txs>> /\ req[s].pc = "poll" /\ DOMAIN req = Slot
  BY DEF GatewayInv, PollStatus
<1>2. PICK r : r = req[s]
  OBVIOUS
<1>3. Underway(r) /\ r \in Request /\ Awaits(r) /\ r.effect \in EffectsOf(r.op)
      /\ r.op \in Operation /\ r.op # "none" /\ r.target \in Account /\ r.to \in Somebody
      /\ (r.op \in Transfers => r.to \in Account)
  BY <1>1, <1>2 DEF Sound, Underway, Request
<1>4. CASE Reply(s, "error")
  BY <1>1, <1>4, Replies
<1>5. CASE txs[r.tx].state = "success" /\ req' = [req EXCEPT ![s] = AfterSuccess(@)]
  <2>1. Applied(txs[r.tx])
    BY <1>3 DEF GatewayInv, Awaits
  <2>2. PICK q : q = AfterSuccess(r)
    OBVIOUS
  <2>3. req' = [req EXCEPT ![s] = q]
    BY <1>1, <1>2, <1>5, <2>2
  <2>4. SUFFICES Sound(q) /\ q.op = r.op /\ q.from = r.from /\ q.to = r.to
    BY <1>1, <1>2, <2>3, HandlerGoesOn
  <2>5. CASE q = [r EXCEPT !.pc = "build", !.restored = TRUE] /\ r.effect = "restore"
    <3>1. /\ q \in Request /\ q.op = r.op /\ q.target = r.target /\ q.to = r.to /\ q.from = r.from
          /\ q.pc = "build" /\ q.effect = "restore" /\ q.reply = r.reply
      BY <1>3, <2>5 DEF Request, Place
    <3>2. r.op \in Transfers
      BY <1>3, <2>5 DEF EffectsOf, Transfers, Operation
    <3> QED
      BY <1>3, <3>1, <3>2 DEF Sound, Underway
  <2>6. CASE q = [r EXCEPT !.pc = "build"] /\ r.effect = "create" /\ r.op = "execute"
    <3>1. /\ q \in Request /\ q.op = r.op /\ q.target = r.target /\ q.to = r.to /\ q.from = r.from
          /\ q.pc = "build" /\ q.effect = "create" /\ q.reply = r.reply
      BY <1>3, <2>6 DEF Request, Place
    <3> QED
      BY <1>3, <2>6, <3>1 DEF Sound, Underway, Transfers
  <2>7. CASE q = Answered(r, "ok") /\ r.effect # "restore" /\ ~(r.effect = "create" /\ r.op = "execute")
    <3>1. CASE r.op = "ensure"
      BY <1>3, <1>5, <2>1, <2>7, <3>1, AnsweredSound DEF Ready, EffectsOf, Awaits, Applied, Transfers
    <3>2. CASE r.op = "bootstrap"
      BY <1>3, <1>5, <2>1, <2>7, <3>2, AnsweredSound DEF Ready, EffectsOf, Awaits, Applied, Transfers
    <3>3. CASE r.op \in Transfers
      <4>1. r.effect = "call"
        BY <1>3, <2>7, <3>3 DEF EffectsOf, Transfers
      <4>2. Called(r)
        BY <1>3, <1>5, <4>1 DEF Called, Awaits, Underway, SourceOf
      <4>3. Ready(r)
        BY <3>3, <4>2 DEF Ready, Transfers
      <4> QED
        BY <1>3, <2>7, <4>3, AnsweredSound
    <3> QED
      BY <1>3, <3>1, <3>2, <3>3 DEF Operation, Transfers
  <2> QED
    BY <2>2, <2>5, <2>6, <2>7 DEF AfterSuccess
<1> QED
  BY <1>2, <1>4, <1>5 DEF PollStatus

LEMMA GiveUpKeeps ==
    ASSUME GatewayInv, NEW s \in Slot, GiveUp(s) \/ Fault(s)
    PROVE  GatewayInv' /\ Gains /\ Keeps
<1>1. UNCHANGED <<ledger, sequence, txs>> /\ Reply(s, "error")
  BY DEF GiveUp, Fault, TimedOut, Reply
<1> QED
  BY <1>1, Replies

\* The network moves; the handlers stay where they are.
LEMMA NetworkMoves ==
    ASSUME GatewayInv, Gains, UNCHANGED req,
           (ledger \in [Account -> States])', (sequence \in [Account \cup {Sponsor} -> Nat])',
           (txs \in Seq(Transaction))', (\A i \in DOMAIN txs : Applied(txs[i]))'
    PROVE  GatewayInv' /\ Keeps
<1>1. ASSUME NEW x \in Slot PROVE Sound(req[x])'
  <2>1. PICK w : w = req[x]
    OBVIOUS
  <2>2. Sound(w) /\ req'[x] = w
    BY <2>1 DEF GatewayInv
  <2>3. Sound(w)'
    BY <2>2, SoundStays
  <2> QED
    BY <2>2, <2>3 DEF Sound
<1>2. Keeps
  BY DEF Keeps
<1> QED
  BY <1>1, <1>2 DEF GatewayInv

\* A transaction gets another state; what else it says stays.
LEMMA Settled ==
    ASSUME txs \in Seq(Transaction), NEW i \in DOMAIN txs,
           NEW state \in {"success", "failed", "gone"}, txs' = [txs EXCEPT ![i].state = state]
    PROVE  /\ txs' \in Seq(Transaction) /\ DOMAIN txs' = DOMAIN txs
           /\ \A j \in DOMAIN txs : j # i => txs'[j] = txs[j]
           /\ txs'[i].effect = txs[i].effect /\ txs'[i].target = txs[i].target
           /\ txs'[i].to = txs[i].to /\ txs'[i].source = txs[i].source
           /\ txs'[i].state = state
<1>1. PICK t : t = txs[i]
  OBVIOUS
<1>2. PICK u : u = [t EXCEPT !.state = state]
  OBVIOUS
<1>3. t \in Transaction
  BY <1>1
<1>4. /\ u \in Transaction /\ u.effect = t.effect /\ u.target = t.target /\ u.to = t.to
      /\ u.source = t.source /\ u.state = state
  BY <1>2, <1>3 DEF Transaction
<1>5. txs' = [txs EXCEPT ![i] = u]
  BY <1>1, <1>2
<1> QED
  BY <1>1, <1>4, <1>5

LEMMA ExpireKeeps ==
    ASSUME GatewayInv, NEW i \in DOMAIN txs, Expire(i)
    PROVE  GatewayInv' /\ Gains /\ Keeps
<1>1. /\ txs \in Seq(Transaction) /\ UNCHANGED <<ledger, sequence, req>> /\ txs[i].state = "pending"
      /\ txs' = [txs EXCEPT ![i].state = "gone"]
  BY DEF GatewayInv, Expire
<1>2. /\ txs' \in Seq(Transaction) /\ DOMAIN txs' = DOMAIN txs
      /\ \A j \in DOMAIN txs : j # i => txs'[j] = txs[j]
      /\ txs'[i].effect = txs[i].effect /\ txs'[i].target = txs[i].target
      /\ txs'[i].to = txs[i].to /\ txs'[i].source = txs[i].source
      /\ txs'[i].state = "gone"
  BY <1>1, Settled
<1>3. Gains
  BY <1>1, <1>2 DEF Gains
<1>4. (\A j \in DOMAIN txs : Applied(txs[j]))'
  BY <1>1, <1>2 DEF Applied, GatewayInv
<1>5. ledger' \in [Account -> States] /\ sequence' \in [Account \cup {Sponsor} -> Nat]
  BY <1>1 DEF GatewayInv
<1> QED
  BY <1>1, <1>2, <1>3, <1>4, <1>5, NetworkMoves

LEMMA IncludeKeeps ==
    ASSUME GatewayInv, NEW i \in DOMAIN txs, Include(i)
    PROVE  GatewayInv' /\ Gains /\ Keeps
<1>1. txs \in Seq(Transaction) /\ ledger \in [Account -> States] /\ Applied(txs[i])
      /\ sequence \in [Account \cup {Sponsor} -> Nat]
  BY DEF GatewayInv
<1>2. PICK t : t = txs[i]
  OBVIOUS
<1>0. \A j \in DOMAIN txs : txs[j] \in Transaction
  BY <1>1
<1>3. t \in Transaction /\ t.target \in Account /\ t.source \in Account \cup {Sponsor}
  BY <1>0, <1>2 DEF Transaction
<1>4. t.state = "pending" /\ sequence' = [sequence EXCEPT ![t.source] = @ + 1] /\ UNCHANGED req
  BY <1>2 DEF Include
<1>5. sequence' \in [Account \cup {Sponsor} -> Nat]
  BY <1>1, <1>3, <1>4
<1>6. ASSUME NEW state \in {"success", "failed"}, txs' = [txs EXCEPT ![i].state = state],
             ledger' \in [Account -> States],
             \A a \in Account : /\ ledger[a] # "none" => ledger'[a] # "none"
                                /\ ledger[a] = "trusting" => ledger'[a] = "trusting",
             state = "success" =>
                /\ t.effect \in {"create+trust", "trust"} => ledger'[t.target] = "trusting"
                /\ t.effect = "create" => ledger'[t.target] # "none"
      PROVE  GatewayInv' /\ Gains /\ Keeps
  <2>1. /\ txs' \in Seq(Transaction) /\ DOMAIN txs' = DOMAIN txs
        /\ \A j \in DOMAIN txs : j # i => txs'[j] = txs[j]
        /\ txs'[i].effect = t.effect /\ txs'[i].target = t.target
        /\ txs'[i].to = t.to /\ txs'[i].source = t.source
        /\ txs'[i].state = state
    BY <1>1, <1>2, <1>6, Settled
  <2>2. Gains
    BY <1>2, <1>4, <1>6, <2>1 DEF Gains
  <2>3. (\A j \in DOMAIN txs : Applied(txs[j]))'
    <3> SUFFICES ASSUME NEW j \in DOMAIN txs' PROVE Applied(txs[j])'
      OBVIOUS
    <3>1. CASE j = i
      BY <1>6, <2>1, <3>1 DEF Applied
    <3>2. CASE j # i
      <4>1. txs'[j] = txs[j] /\ j \in DOMAIN txs
        BY <2>1, <3>2
      <4>2. txs[j].target \in Account
        BY <1>0, <4>1 DEF Transaction
      <4>3. Applied(txs[j])
        BY <4>1 DEF GatewayInv
      <4> QED
        BY <1>6, <4>1, <4>2, <4>3 DEF Applied
    <3> QED
      BY <3>1, <3>2
  <2> QED
    BY <1>4, <1>5, <1>6, <2>1, <2>2, <2>3, NetworkMoves
<1>7. CASE Applies(t) /\ txs' = [txs EXCEPT ![i].state = "success"]
           /\ ledger' = CASE t.effect = "create" -> [ledger EXCEPT ![t.target] = "bare"]
                          [] t.effect \in {"create+trust", "trust"} -> [ledger EXCEPT ![t.target] = "trusting"]
                          [] OTHER -> ledger
  <2>1. CASE t.effect = "create"
    <3>1. ledger' = [ledger EXCEPT ![t.target] = "bare"] /\ ledger[t.target] = "none"
      BY <1>7, <2>1 DEF Applies
    <3> QED
      BY <1>1, <1>3, <1>6, <1>7, <2>1, <3>1 DEF States
  <2>2. CASE t.effect \in {"create+trust", "trust"}
    <3>1. ledger' = [ledger EXCEPT ![t.target] = "trusting"]
      BY <1>7, <2>2
    <3> QED
      BY <1>1, <1>3, <1>6, <1>7, <2>2, <3>1 DEF States
  <2>3. CASE t.effect \notin {"create", "create+trust", "trust"}
    <3>1. ledger' = ledger
      BY <1>7, <2>3
    <3> QED
      BY <1>1, <1>6, <1>7, <2>3, <3>1
  <2> QED
    BY <2>1, <2>2, <2>3
<1>8. CASE txs' = [txs EXCEPT ![i].state = "failed"] /\ UNCHANGED ledger
  BY <1>1, <1>6, <1>8
<1> QED
  BY <1>2, <1>7, <1>8 DEF Include

LEMMA GatewayKeeps ==
    ASSUME GatewayInv, GatewayStep
    PROVE  GatewayInv' /\ Gains /\ Keeps
BY TrustlineKeeps, BootstrapKeeps, LoadKeeps, PrepareKeeps, SubmitKeeps, PollKeeps, GiveUpKeeps,
   IncludeKeeps, ExpireKeeps DEF GatewayStep

LEMMA GatewayStarts ==
    ASSUME GatewayInit
    PROVE  GatewayInv
<1>1. ledger \in [Account -> States]
  BY GatewayAssumption DEF GatewayInit, States
<1>2. Sound(Idle)
  BY DEF Sound, Idle, Request, Operation, Somebody, Place, Effect
<1>3. \A s \in Slot : req[s] = Idle
  BY DEF GatewayInit
<1>4. /\ sequence \in [Account \cup {Sponsor} -> Nat] /\ txs \in Seq(Transaction)
      /\ DOMAIN txs = {} /\ DOMAIN req = Slot
  BY DEF GatewayInit
<1> QED
  BY <1>1, <1>2, <1>3, <1>4 DEF GatewayInv

\* An answer of success leaves what its caller relies on, as OkMeansReady says.
LEMMA GatewayReady ==
    ASSUME GatewayInv
    PROVE  OkMeansReady
<1>1. SUFFICES ASSUME NEW s \in Slot, req[s].reply = "ok"
               PROVE  CASE req[s].op = "ensure"    -> ledger[req[s].target] = "trusting"
                        [] req[s].op = "bootstrap" -> ledger[req[s].target] # "none"
                        [] OTHER                   -> /\ txs[req[s].tx].effect = "call"
                                                      /\ txs[req[s].tx].state = "success"
  BY DEF OkMeansReady
<1>2. Ready(req[s])
  BY <1>1 DEF GatewayInv, Sound
<1> QED
  BY <1>2 DEF Ready, Called

\* A transfer to an account is on the ledger.
OnLedger(i, to) ==
    /\ i \in DOMAIN txs
    /\ txs[i].state = "success" /\ txs[i].effect = "call"
    /\ txs[i].to = to /\ ledger[to] # "none"

Connections == {Disconnected, ByWallet} \cup {ByEmail(e) : e \in Emails}

Reported == {"notifying", "success"}

\* The press and its request agree, and what was reported has landed.
PanelInv ==
    /\ connection \in Connections /\ cookie \in Emails \cup {NoAccount}
    /\ panel \in [state : {"idle", "resolving", "sending", "error"} \cup Reported, by : Connections,
                  email : Emails \cup {NoAccount}, to : Somebody, tx : Nat]
    /\ panel.state # "idle" => /\ panel.to \in Account /\ panel.by.how # "none"
                               /\ panel.email # NoAccount => panel.to = Derived(panel.email)
    /\ panel.state = "sending" =>
          /\ req[PanelSlot].op \in Transfers
          /\ req[PanelSlot].to = panel.to /\ req[PanelSlot].from = panel.by.key
    /\ panel.state = "notifying" => panel.email # NoAccount
    /\ panel.state \in Reported =>
          OnLedger(panel.tx, panel.to) /\ txs[panel.tx].source = panel.by.key
    /\ \A m \in mails : m.email \in Emails /\ OnLedger(m.tx, Derived(m.email))

LEMMA LandedStays ==
    ASSUME Gains, NEW to \in Account, NEW i, OnLedger(i, to)
    PROVE  OnLedger(i, to)' /\ txs'[i].source = txs[i].source
BY DEF Gains, OnLedger

LEMMA MailsStay ==
    ASSUME Gains, PanelInv, UNCHANGED mails
    PROVE  \A m \in mails' : m.email \in Emails /\ OnLedger(m.tx, Derived(m.email))'
<1>1. SUFFICES ASSUME NEW m \in mails PROVE m.email \in Emails /\ OnLedger(m.tx, Derived(m.email))'
  OBVIOUS
<1>2. m.email \in Emails /\ OnLedger(m.tx, Derived(m.email))
  BY DEF PanelInv
<1>3. PICK i, to : i = m.tx /\ to = Derived(m.email)
  OBVIOUS
<1>4. to \in Account
  BY <1>2, <1>3, SendAssumption
<1>5. OnLedger(i, to)'
  BY <1>2, <1>3, <1>4, LandedStays
<1> QED
  BY <1>2, <1>3, <1>5 DEF OnLedger

\* The report of a press stays true when the gateway moves on.
LEMMA ReportStays ==
    ASSUME Gains, PanelInv, panel.state \in Reported, panel' = panel
    PROVE  OnLedger(panel.tx, panel.to)' /\ txs'[panel.tx].source = panel.by.key
<1>1. OnLedger(panel.tx, panel.to) /\ txs[panel.tx].source = panel.by.key /\ panel.to \in Account
  BY DEF PanelInv, Reported
<1>2. PICK i, to : i = panel.tx /\ to = panel.to
  OBVIOUS
<1>3. OnLedger(i, to)' /\ txs'[i].source = txs[i].source
  BY <1>1, <1>2, LandedStays
<1> QED
  BY <1>1, <1>2, <1>3 DEF OnLedger

\* The panel and the connection stay, and so does what was asked of the gateway.
LEMMA PanelStays ==
    ASSUME Gains, PanelInv, UNCHANGED sendVars,
           req'[PanelSlot].op = req[PanelSlot].op,
           req'[PanelSlot].from = req[PanelSlot].from, req'[PanelSlot].to = req[PanelSlot].to
    PROVE  PanelInv'
<1>1. UNCHANGED <<connection, cookie, panel, mails>>
  BY DEF sendVars
<1>2. (\A m \in mails : m.email \in Emails /\ OnLedger(m.tx, Derived(m.email)))'
  BY <1>1, MailsStay
<1>3. panel.state \in Reported => OnLedger(panel.tx, panel.to)' /\ txs'[panel.tx].source = panel.by.key
  BY <1>1, ReportStays
<1> QED
  BY <1>1, <1>2, <1>3 DEF PanelInv

LEMMA GatewayStepKeepsPanel ==
    ASSUME GatewayInv, PanelInv, GatewayStep, UNCHANGED sendVars
    PROVE  GatewayInv' /\ PanelInv'
<1>1. GatewayInv' /\ Gains /\ Keeps
  BY GatewayKeeps
<1>2. PanelSlot \in Slot
  BY SendAssumption
<1> QED
  BY <1>1, <1>2, PanelStays DEF Keeps

LEMMA WalletKeeps ==
    ASSUME GatewayInv, PanelInv, NEW approved \in BOOLEAN, WalletSigns(approved)
    PROVE  GatewayInv' /\ PanelInv'
<1>1. /\ PanelSlot \in Slot /\ Sound(req[PanelSlot]) /\ UNCHANGED <<ledger, sequence, txs>>
      /\ UNCHANGED sendVars /\ req[PanelSlot].pc = "sign" /\ DOMAIN req = Slot
  BY SendAssumption DEF GatewayInv, WalletSigns
<1>2. CASE Reply(PanelSlot, "error")
  <2>1. GatewayInv' /\ Gains /\ Keeps
    BY <1>1, <1>2, Replies
  <2> QED
    BY <1>1, <2>1, PanelStays DEF Keeps
<1>3. CASE req' = [req EXCEPT ![PanelSlot].pc = "send"]
  <2>1. PICK r : r = req[PanelSlot]
    OBVIOUS
  <2>2. PICK q : q = [r EXCEPT !.pc = "send"]
    OBVIOUS
  <2>3. r \in Request /\ Underway(r) /\ r.pc = "sign"
    BY <1>1, <2>1 DEF Sound
  <2>4. /\ q \in Request /\ q.op = r.op /\ q.target = r.target /\ q.to = r.to /\ q.from = r.from
        /\ q.pc = "send" /\ q.effect = r.effect /\ q.reply = r.reply
    BY <2>2, <2>3 DEF Request, Place
  <2>5. Sound(q)
    BY <2>3, <2>4 DEF Sound, Underway
  <2>6. req' = [req EXCEPT ![PanelSlot] = q]
    BY <1>1, <1>3, <2>1, <2>2
  <2>7. GatewayInv' /\ Gains /\ Keeps
    BY <1>1, <2>1, <2>4, <2>5, <2>6, HandlerGoesOn
  <2> QED
    BY <1>1, <2>7, PanelStays DEF Keeps
<1> QED
  BY <1>2, <1>3 DEF WalletSigns

\* A request for one account.
LEMMA AcceptedSound ==
    ASSUME NEW op \in {"ensure", "bootstrap"}, NEW a \in Account
    PROVE  Sound([Idle EXCEPT !.op = op, !.target = a, !.pc = "read"])
<1>1. PICK q : q = [Idle EXCEPT !.op = op, !.target = a, !.pc = "read"]
  OBVIOUS
<1>2. /\ q \in Request /\ q.op = op /\ q.target = a /\ q.pc = "read" /\ q.effect = "none"
      /\ q.reply = "none"
  BY <1>1 DEF Idle, Request, Operation, Somebody, Place, Effect
<1> QED
  BY <1>1, <1>2 DEF Sound, Underway, Transfers

LEMMA VisitKeeps ==
    ASSUME GatewayInv, PanelInv, NEW s \in Slot, NEW op \in {"ensure", "bootstrap"},
           NEW a \in Account, Visit(s, op, a)
    PROVE  GatewayInv' /\ PanelInv'
<1>1. /\ UNCHANGED <<ledger, sequence, txs>> /\ UNCHANGED sendVars /\ s # PanelSlot
      /\ DOMAIN req = Slot /\ PanelSlot \in Slot
  BY SendAssumption DEF Visit, GatewayInv
<1>2. PICK q : q = [Idle EXCEPT !.op = op, !.target = a, !.pc = "read"]
  OBVIOUS
<1>3. Sound(q) /\ req' = [req EXCEPT ![s] = q]
  BY <1>2, AcceptedSound DEF Visit, AcceptFor
<1>4. GatewayInv' /\ Gains
  BY <1>1, <1>3, HandlerMoves
<1>5. req'[PanelSlot] = req[PanelSlot]
  BY <1>1, <1>3
<1> QED
  BY <1>1, <1>4, <1>5, PanelStays

\* Who is connected is an account, unless nobody is.
LEMMA ConnectedKey ==
    ASSUME NEW c \in Connections
    PROVE  /\ c.key \in Somebody
           /\ c.how # "none" => c.key \in Account
           /\ c.how \in {"none", "wallet", "email"}
BY SendAssumption DEF Connections, Disconnected, ByWallet, ByEmail, Somebody

\* The panel moves on; the gateway may accept a request for it.
LEMMA PanelMoves ==
    ASSUME GatewayInv, PanelInv, Gains, UNCHANGED <<connection, cookie, mails>>,
           NEW p, panel' = p,
           p \in [state : {"idle", "resolving", "sending", "error"} \cup Reported, by : Connections,
                  email : Emails \cup {NoAccount}, to : Somebody, tx : Nat],
           p.state # "idle" => /\ p.to \in Account /\ p.by.how # "none"
                               /\ p.email # NoAccount => p.to = Derived(p.email),
           p.state = "notifying" => p.email # NoAccount,
           p.state \in Reported => OnLedger(p.tx, p.to)' /\ txs'[p.tx].source = p.by.key,
           p.state = "sending" =>
              /\ req'[PanelSlot].op \in Transfers
              /\ req'[PanelSlot].to = p.to /\ req'[PanelSlot].from = p.by.key
    PROVE  PanelInv'
<1>1. (\A m \in mails : m.email \in Emails /\ OnLedger(m.tx, Derived(m.email)))'
  BY MailsStay
<1>2. connection' \in Connections /\ cookie' \in Emails \cup {NoAccount}
  BY DEF PanelInv
<1> QED
  BY <1>1, <1>2 DEF PanelInv, OnLedger

LEMMA PressKeeps ==
    ASSUME GatewayInv, PanelInv, NEW email \in Emails \cup {NoAccount}, NEW address \in Account,
           email # NoAccount => address = Derived(email), Press(email, address)
    PROVE  GatewayInv' /\ PanelInv'
<1>1. /\ UNCHANGED <<ledger, sequence, txs>> /\ UNCHANGED <<connection, cookie, mails>>
      /\ PanelSlot \in Slot /\ connection \in Connections
  BY SendAssumption DEF Press, PanelInv
<1>2. PICK op \in {"ensure", "bootstrap"} : op = IF email = NoAccount THEN "bootstrap" ELSE "ensure"
  OBVIOUS
<1>3. PICK q : q = [Idle EXCEPT !.op = op, !.target = address, !.pc = "read"]
  OBVIOUS
<1>4. Sound(q) /\ req' = [req EXCEPT ![PanelSlot] = q]
  BY <1>2, <1>3, AcceptedSound DEF Press, AcceptFor
<1>5. GatewayInv' /\ Gains
  BY <1>1, <1>4, HandlerMoves
<1>6. PICK p : p = [state |-> "resolving", by |-> connection, email |-> email, to |-> address, tx |-> 0]
  OBVIOUS
<1>7. panel' = p
  BY <1>6 DEF Press
<1>8. p \in [state : {"idle", "resolving", "sending", "error"} \cup Reported, by : Connections,
             email : Emails \cup {NoAccount}, to : Somebody, tx : Nat]
      /\ p.state = "resolving" /\ p.to = address /\ p.email = email /\ p.by = connection
  BY <1>1, <1>6 DEF Somebody
<1>9. connection.how # "none"
  BY <1>1 DEF Press, Connections, Disconnected, ByWallet, ByEmail
<1> QED
  BY <1>1, <1>5, <1>7, <1>8, <1>9, PanelMoves DEF Reported

\* The press ends in an error, or another part of the page fails it.
LEMMA FailKeeps ==
    ASSUME GatewayInv, PanelInv, Fail, panel.state # "idle",
           UNCHANGED <<ledger, sequence, txs, req>>, UNCHANGED <<connection, cookie, mails>>
    PROVE  GatewayInv' /\ PanelInv'
<1>1. Gains
  BY SameGains
<1>2. GatewayInv'
  BY <1>1, NetworkMoves DEF GatewayInv, Applied
<1>3. PICK r : r = panel
  OBVIOUS
<1>4. PICK p : p = [r EXCEPT !.state = "error"]
  OBVIOUS
<1>5. panel' = p
  BY <1>3, <1>4 DEF Fail
<1>6. p \in [state : {"idle", "resolving", "sending", "error"} \cup Reported, by : Connections,
             email : Emails \cup {NoAccount}, to : Somebody, tx : Nat]
      /\ p.state = "error" /\ p.to = r.to /\ p.email = r.email /\ p.by = r.by
  BY <1>3, <1>4 DEF PanelInv
<1>7. /\ p.to \in Account /\ p.by.how # "none"
      /\ p.email # NoAccount => p.to = Derived(p.email)
  BY <1>3, <1>6 DEF PanelInv
<1> QED
  BY <1>1, <1>2, <1>5, <1>6, <1>7, PanelMoves DEF Reported

\* The transfer that callContract asks for is the one of the press.
LEMMA CallIsPress ==
    ASSUME GatewayInv, PanelInv, panel.state = "resolving", CallContract
    PROVE  \E q : /\ Sound(q) /\ req' = [req EXCEPT ![PanelSlot] = q]
                  /\ q.op \in Transfers /\ q.to = panel.to /\ q.from = panel.by.key
<1>1. PICK from, to : from = panel.by.key /\ to = panel.to
  OBVIOUS
<1>2. panel.by \in Connections /\ to \in Account
  BY <1>1 DEF PanelInv
<1>3. from \in Somebody
  BY <1>1, <1>2, ConnectedKey
<1>4. CASE panel.by.how = "email"
  <2>1. PICK target : target = IF cookie = NoAccount THEN NoAccount ELSE Derived(cookie)
    OBVIOUS
  <2>2. target \in Somebody
    BY <2>1, SendAssumption DEF PanelInv, Somebody
  <2>3. PICK q : q = [Idle EXCEPT !.op = "execute", !.target = target, !.from = from, !.to = to]
    OBVIOUS
  <2>4. /\ q \in Request /\ q.op = "execute" /\ q.target = target /\ q.from = from /\ q.to = to
        /\ q.effect = "none" /\ q.reply = "none"
    BY <1>2, <1>3, <2>2, <2>3 DEF Idle, Request, Operation, Somebody, Place, Effect
  <2>5. req' = [req EXCEPT ![PanelSlot] =
                   IF target = NoAccount THEN Answered(q, "error") ELSE [q EXCEPT !.pc = "read"]]
    BY <1>1, <1>4, <2>1, <2>3 DEF CallContract, AcceptExecute
  <2>6. CASE target = NoAccount
    <3>1. Sound(Answered(q, "error")) /\ Answered(q, "error").op = q.op
          /\ Answered(q, "error").from = q.from /\ Answered(q, "error").to = q.to
      BY <2>4, AnsweredSound
    <3> QED
      BY <1>1, <2>4, <2>5, <2>6, <3>1 DEF Transfers
  <2>7. CASE target # NoAccount
    <3>1. PICK w : w = [q EXCEPT !.pc = "read"]
      OBVIOUS
    <3>2. /\ w \in Request /\ w.op = "execute" /\ w.target = target /\ w.from = from /\ w.to = to
          /\ w.effect = "none" /\ w.reply = "none" /\ w.pc = "read"
      BY <2>4, <3>1 DEF Request, Place
    <3>3. target \in Account
      BY <2>2, <2>7 DEF Somebody
    <3>4. Sound(w)
      BY <1>2, <3>2, <3>3 DEF Sound, Underway
    <3> QED
      BY <1>1, <2>5, <2>7, <3>1, <3>2, <3>4 DEF Transfers
  <2> QED
    BY <2>6, <2>7
<1>5. CASE panel.by.how # "email"
  <2>1. PICK q : q = [Idle EXCEPT !.op = "wallet", !.target = from, !.from = from, !.to = to,
                                  !.pc = "build"]
    OBVIOUS
  <2>2. /\ q \in Request /\ q.op = "wallet" /\ q.target = from /\ q.from = from /\ q.to = to
        /\ q.effect = "none" /\ q.reply = "none" /\ q.pc = "build"
    BY <1>2, <1>3, <2>1 DEF Idle, Request, Operation, Somebody, Place, Effect
  <2>3. from \in Account
    <3>1. panel.by.how # "none"
      BY DEF PanelInv
    <3> QED
      BY <1>1, <1>2, <3>1, ConnectedKey
  <2>4. Sound(q)
    BY <1>2, <2>2, <2>3 DEF Sound, Underway, Transfers
  <2>5. req' = [req EXCEPT ![PanelSlot] = q]
    BY <1>1, <1>5, <2>1 DEF CallContract
  <2> QED
    BY <1>1, <2>2, <2>4, <2>5 DEF Transfers
<1> QED
  BY <1>4, <1>5

LEMMA ResolvedKeeps ==
    ASSUME GatewayInv, PanelInv, Resolved
    PROVE  GatewayInv' /\ PanelInv'
<1>1. /\ UNCHANGED <<ledger, sequence, txs>> /\ UNCHANGED <<connection, cookie, mails>>
      /\ panel.state = "resolving" /\ PanelSlot \in Slot
  BY SendAssumption DEF Resolved
<1>2. CASE Fail /\ UNCHANGED req
  BY <1>1, <1>2, FailKeeps
<1>3. CASE CallContract /\ panel' = [panel EXCEPT !.state = "sending"]
  <2>1. PICK q : /\ Sound(q) /\ req' = [req EXCEPT ![PanelSlot] = q]
                 /\ q.op \in Transfers /\ q.to = panel.to /\ q.from = panel.by.key
    BY <1>1, <1>3, CallIsPress
  <2>2. GatewayInv' /\ Gains
    BY <1>1, <2>1, HandlerMoves
  <2>3. req'[PanelSlot] = q
    BY <1>1, <2>1 DEF GatewayInv
  <2>4. PICK r : r = panel
    OBVIOUS
  <2>5. PICK p : p = [r EXCEPT !.state = "sending"]
    OBVIOUS
  <2>6. p \in [state : {"idle", "resolving", "sending", "error"} \cup Reported, by : Connections,
               email : Emails \cup {NoAccount}, to : Somebody, tx : Nat]
        /\ p.state = "sending" /\ p.to = r.to /\ p.email = r.email /\ p.by = r.by
    BY <2>4, <2>5 DEF PanelInv
  <2>7. /\ p.to \in Account /\ p.by.how # "none"
        /\ p.email # NoAccount => p.to = Derived(p.email)
    BY <1>1, <2>4, <2>6 DEF PanelInv
  <2>8. panel' = p /\ q.to = p.to /\ q.from = p.by.key
    BY <1>3, <2>1, <2>4, <2>5, <2>6
  <2> QED
    BY <1>1, <2>1, <2>2, <2>3, <2>6, <2>7, <2>8, PanelMoves DEF Reported
<1> QED
  BY <1>2, <1>3 DEF Resolved

LEMMA LoseKeeps ==
    ASSUME GatewayInv, PanelInv, LoseAnswer
    PROVE  GatewayInv' /\ PanelInv'
<1>1. /\ UNCHANGED <<ledger, sequence, txs, req>> /\ UNCHANGED <<connection, cookie, mails>>
      /\ Fail /\ panel.state # "idle"
  BY DEF LoseAnswer, gatewayVars
<1> QED
  BY <1>1, FailKeeps

\* A transfer that is answered with success and a hash has landed.
LEMMA SucceededLanded ==
    ASSUME GatewayInv, PanelInv, panel.state = "sending", Succeeded(req[PanelSlot])
    PROVE  OnLedger(req[PanelSlot].tx, panel.to) /\ txs[req[PanelSlot].tx].source = panel.by.key
<1>1. PICK q : q = req[PanelSlot]
  OBVIOUS
<1>2. Sound(q)
  BY <1>1, SendAssumption DEF GatewayInv
<1>3. q.op \in Transfers /\ q.to = panel.to /\ q.from = panel.by.key
  BY <1>1 DEF PanelInv
<1>4. q.reply = "ok"
  BY <1>1 DEF Succeeded
<1>5. Called(q)
  BY <1>2, <1>3, <1>4 DEF Sound, Ready, Transfers
<1> QED
  BY <1>1, <1>3, <1>5 DEF Called, OnLedger

LEMMA ExecutedKeeps ==
    ASSUME GatewayInv, PanelInv, Executed
    PROVE  GatewayInv' /\ PanelInv'
<1>1. /\ UNCHANGED <<ledger, sequence, txs, req>> /\ UNCHANGED <<connection, cookie, mails>>
      /\ panel.state = "sending"
  BY DEF Executed, gatewayVars
<1>2. CASE Fail
  BY <1>1, <1>2, FailKeeps
<1>3. CASE Succeeded(req[PanelSlot]) /\
           panel' = [panel EXCEPT !.state = IF panel.email = NoAccount THEN "success" ELSE "notifying",
                                  !.tx = req[PanelSlot].tx]
  <2>1. Gains
    BY <1>1, SameGains
  <2>2. GatewayInv'
    BY <1>1, <2>1, NetworkMoves DEF GatewayInv, Applied
  <2>3. PICK r : r = panel
    OBVIOUS
  <2>4. PICK n : n = req[PanelSlot].tx
    OBVIOUS
  <2>5. n \in Nat
    BY <2>4, SendAssumption DEF GatewayInv, Sound, Request
  <2>6. PICK state \in Reported : state = IF r.email = NoAccount THEN "success" ELSE "notifying"
    BY DEF Reported
  <2>7. PICK p : p = [r EXCEPT !.state = state, !.tx = n]
    OBVIOUS
  <2>8. p \in [state : {"idle", "resolving", "sending", "error"} \cup Reported, by : Connections,
               email : Emails \cup {NoAccount}, to : Somebody, tx : Nat]
        /\ p.state = state /\ p.to = r.to /\ p.email = r.email /\ p.by = r.by /\ p.tx = n
    BY <2>3, <2>5, <2>6, <2>7 DEF PanelInv
  <2>9. /\ p.to \in Account /\ p.by.how # "none"
        /\ p.email # NoAccount => p.to = Derived(p.email)
    BY <1>1, <2>3, <2>8 DEF PanelInv
  <2>10. OnLedger(p.tx, p.to) /\ txs[p.tx].source = p.by.key
    BY <1>1, <1>3, <2>3, <2>4, <2>8, SucceededLanded
  <2>11. OnLedger(p.tx, p.to)' /\ txs'[p.tx].source = p.by.key
    BY <1>1, <2>10 DEF OnLedger
  <2>12. panel' = p
    BY <1>3, <2>3, <2>4, <2>6, <2>7
  <2>13. p.state # "sending" /\ (p.state = "notifying" => p.email # NoAccount)
    BY <2>6, <2>8 DEF Reported
  <2> QED
    BY <1>1, <2>1, <2>2, <2>8, <2>9, <2>11, <2>12, <2>13, PanelMoves
<1> QED
  BY <1>2, <1>3 DEF Executed

LEMMA NotifyKeeps ==
    ASSUME GatewayInv, PanelInv, Notify
    PROVE  GatewayInv' /\ PanelInv'
<1>1. /\ UNCHANGED <<ledger, sequence, txs, req>> /\ UNCHANGED <<connection, cookie>>
      /\ panel.state = "notifying"
  BY DEF Notify, gatewayVars
<1>2. Gains
  BY <1>1, SameGains
<1>3. GatewayInv'
  BY <1>1, <1>2, NetworkMoves DEF GatewayInv, Applied
<1>4. PICK r : r = panel
  OBVIOUS
<1>5. PICK p : p = [r EXCEPT !.state = "success"]
  OBVIOUS
<1>6. p \in [state : {"idle", "resolving", "sending", "error"} \cup Reported, by : Connections,
             email : Emails \cup {NoAccount}, to : Somebody, tx : Nat]
      /\ p.state = "success" /\ p.to = r.to /\ p.email = r.email /\ p.by = r.by /\ p.tx = r.tx
  BY <1>4, <1>5 DEF PanelInv, Reported
<1>7. /\ p.to \in Account /\ p.by.how # "none"
      /\ p.email # NoAccount /\ p.email \in Emails /\ p.to = Derived(p.email)
  BY <1>1, <1>4, <1>6 DEF PanelInv
<1>8. OnLedger(p.tx, p.to) /\ txs[p.tx].source = p.by.key
  BY <1>1, <1>4, <1>6 DEF PanelInv, Reported
<1>9. mails' \subseteq mails \cup {[email |-> p.email, tx |-> p.tx]}
  BY <1>4, <1>6 DEF Notify
<1>10. \A m \in mails : m.email \in Emails /\ OnLedger(m.tx, Derived(m.email))
  BY DEF PanelInv
<1>11. \A m \in mails' : m.email \in Emails /\ OnLedger(m.tx, Derived(m.email))
  BY <1>7, <1>8, <1>9, <1>10
<1>12. panel' = p /\ connection' \in Connections /\ cookie' \in Emails \cup {NoAccount}
  BY <1>1, <1>4, <1>5 DEF Notify, PanelInv
<1> QED
  BY <1>1, <1>3, <1>6, <1>7, <1>8, <1>11, <1>12 DEF PanelInv, OnLedger, Reported

LEMMA SwitchKeeps ==
    ASSUME GatewayInv, PanelInv, Switch
    PROVE  GatewayInv' /\ PanelInv'
<1>1. UNCHANGED <<ledger, sequence, txs, req>> /\ UNCHANGED <<panel, mails>>
  BY DEF Switch, gatewayVars
<1>2. Gains
  BY <1>1, SameGains
<1>3. GatewayInv'
  BY <1>1, <1>2, NetworkMoves DEF GatewayInv, Applied
<1>4. connection' \in Connections /\ cookie' \in Emails \cup {NoAccount}
  BY DEF Switch, PanelInv, Connections
<1> QED
  BY <1>1, <1>3, <1>4 DEF PanelInv, OnLedger

LEMMA SendStarts ==
    ASSUME SendInit
    PROVE  GatewayInv /\ PanelInv
<1>1. GatewayInv
  BY GatewayStarts DEF SendInit
<1>2. PanelInv
  BY DEF SendInit, PanelInv, Connections, NoPress, Reported, Somebody
<1> QED
  BY <1>1, <1>2

LEMMA SendStepKeeps ==
    ASSUME GatewayInv, PanelInv, [SendNext]_<<gatewayVars, sendVars>>
    PROVE  GatewayInv' /\ PanelInv'
<1>1. CASE GatewayStep /\ UNCHANGED sendVars
  BY <1>1, GatewayStepKeepsPanel
<1>2. ASSUME NEW e \in Emails, Press(e, Derived(e)) PROVE GatewayInv' /\ PanelInv'
  <2>1. PICK address \in Account : address = Derived(e)
    BY SendAssumption
  <2> QED
    BY <1>2, <2>1, PressKeeps
<1>3. ASSUME NEW a \in Typed, Press(NoAccount, a) PROVE GatewayInv' /\ PanelInv'
  BY <1>3, PressKeeps, SendAssumption
<1>4. CASE Resolved \/ Executed \/ LoseAnswer \/ Notify \/ Switch
  BY <1>4, ResolvedKeeps, ExecutedKeeps, LoseKeeps, NotifyKeeps, SwitchKeeps
<1>5. ASSUME NEW approved \in BOOLEAN, WalletSigns(approved) PROVE GatewayInv' /\ PanelInv'
  BY <1>5, WalletKeeps
<1>6. ASSUME NEW s \in Slot, NEW op \in {"ensure", "bootstrap"}, NEW a \in Account, Visit(s, op, a)
      PROVE  GatewayInv' /\ PanelInv'
  BY <1>6, VisitKeeps
<1>7. CASE UNCHANGED <<gatewayVars, sendVars>>
  <2>1. UNCHANGED <<ledger, sequence, txs, req>> /\ UNCHANGED sendVars
    BY <1>7 DEF gatewayVars
  <2>2. Gains
    BY <2>1, SameGains
  <2>3. GatewayInv'
    BY <2>1, <2>2, NetworkMoves DEF GatewayInv, Applied
  <2> QED
    BY <2>1, <2>2, <2>3, PanelStays
<1> QED
  BY <1>1, <1>2, <1>3, <1>4, <1>5, <1>6, <1>7 DEF SendNext

LEMMA SendInvariance == SendSpec => [](GatewayInv /\ PanelInv)
<1>1. SendInit => GatewayInv /\ PanelInv
  BY SendStarts
<1>2. GatewayInv /\ PanelInv /\ [SendNext]_<<gatewayVars, sendVars>> => (GatewayInv /\ PanelInv)'
  BY SendStepKeeps
<1> QED
  BY <1>1, <1>2, PTL DEF SendSpec

\* functions/_lib/stellar.ts: whatever handlers, ledgers, faults and other
\* visitors do in between, a handler that answers success leaves the trustline,
\* the account or the applied call that its caller relies on.
THEOREM SuccessMeansReady == SendSpec => []OkMeansReady
<1>1. GatewayInv => OkMeansReady
  BY GatewayReady
<1> QED
  BY <1>1, SendInvariance, PTL

\* components/SendToEmail.tsx: what the panel reports as sent, and every claim
\* mail, is a transfer on the ledger, from the account of the press to the
\* account of the recipient that was asked for.
THEOREM ReportsAreTrue == SendSpec => []ReportedTransfersLanded
<1>1. PanelInv => ReportedTransfersLanded
  BY DEF PanelInv, ReportedTransfersLanded, OnLedger, Reported
<1> QED
  BY <1>1, SendInvariance, PTL

-----------------------------------------------------------------------------
(***************************************************************************)
(* The proofs about HolderEcosystem, for any addresses, any number of      *)
(* polls and any lifetimes of the two caches.                              *)
(***************************************************************************)

Snapshot ==
    [held : UNION {[D -> Nat] : D \in SUBSET Address}, pools : SUBSET Address,
     routers : SUBSET Address, active : [Address -> Nat]]

Hook ==
    [step : {"idle", "index", "states"}, index : [Address -> Nat], indexAge : Nat,
     indexError : BOOLEAN, pools : SUBSET Address, routers : SUBSET Address,
     labelled : SUBSET Address, naming : SUBSET SUBSET Address, labels : SUBSET Address,
     activity : [Address -> [ledger : Nat, at : Nat]], frame : Snapshot,
     hasData : BOOLEAN, sync : {"loading", "live", "error"}, clean : BOOLEAN]

EcosystemTyped ==
    /\ poll \in Nat \ {0}
    /\ entries \in [Address -> [held : Nat, written : Nat]]
    /\ expert \in [Address -> Nat] /\ waited \in [Address -> Nat]
    /\ edgeCache \in [index : [Address -> Nat], age : Nat]
    /\ page \in Hook

\* Nothing was written in the future, and what is shown is what is remembered.
Dated(a) ==
    /\ entries[a].written <= poll /\ expert[a] <= poll
    /\ edgeCache.index[a] <= poll /\ page.index[a] <= poll
    /\ page.activity[a].at <= poll /\ page.frame.active[a] <= page.activity[a].at

\* What the indexer knows has an entry; nothing waits before it is known.
KnownHasEntry(a) ==
    /\ expert[a] > 0 => entries[a].written > 0
    /\ waited[a] > 0 => expert[a] > 0

\* The edge's answer lacks an address only as long as it is young; a tick that
\* ends well counts once for each poll.
EdgeLag(a) ==
    expert[a] > 0 /\ edgeCache.index[a] = 0 =>
        waited[a] <= edgeCache.age + (IF page.step = "idle" THEN 1 ELSE 0)

AtMostOld == IF page.indexAge < IndexRefresh THEN page.indexAge ELSE IndexRefresh

\* So does the page's index, which was at most an edge's life old when it came.
PageLag(a) ==
    expert[a] > 0 /\ page.index[a] = 0 =>
        /\ waited[a] <= Patience
        /\ page.step = "states" /\ page.clean => waited[a] <= EdgeLife + AtMostOld
        /\ page.step = "idle" => waited[a] <= EdgeLife + AtMostOld + 1

\* An index that is fetched, or could not be, is past its time.
Overdue ==
    /\ page.step = "index" \/ (page.step = "states" /\ ~page.clean) => page.indexAge > IndexRefresh
    /\ page.step = "idle" => page.clean

OnStage(a) == waited[a] > Patience => a \in DOMAIN page.frame.held

EcosystemInv ==
    /\ EcosystemTyped /\ Overdue
    /\ \A a \in Address : Dated(a) /\ KnownHasEntry(a) /\ EdgeLag(a) /\ PageLag(a) /\ OnStage(a)

LEMMA EcosystemStarts ==
    ASSUME EcosystemInit
    PROVE  EcosystemInv
<1> USE EcosystemAssumption
<1>1. entries \in [Address -> [held : Nat, written : Nat]]
      /\ \A a \in Address : entries[a].written <= 1
  <2>1. ASSUME NEW e \in {NoEntry} \cup [held : Held, written : {1}]
        PROVE  e \in [held : Nat, written : Nat] /\ e.written <= 1
    <3>1. CASE e \in [held : Held, written : {1}]
      <4>1. PICK h \in Held : e = [held |-> h, written |-> 1]
        BY <3>1
      <4>2. h \in Nat
        BY <4>1
      <4> QED
        BY <4>1, <4>2
    <3> QED
      BY <3>1 DEF NoEntry
  <2> QED
    BY <2>1 DEF EcosystemInit
<1>2. NoIndex \in [Address -> Nat] /\ \A a \in Address : NoIndex[a] = 0
  BY DEF NoIndex
<1>3. expert \in [Address -> Nat] /\ \A a \in Address : expert[a] = entries[a].written
  BY <1>1 DEF EcosystemInit
<1>4. edgeCache \in [index : [Address -> Nat], age : Nat] /\ edgeCache.index = NoIndex
  BY <1>2 DEF EcosystemInit
<1>5. NoFrame \in Snapshot /\ NoFrame.active = NoIndex
  <2>1. [a \in {} |-> 0] \in UNION {[D -> Nat] : D \in SUBSET Address}
    <3>1. [a \in {} |-> 0] \in [{} -> Nat]
      OBVIOUS
    <3> QED
      BY <3>1
  <2> QED
    BY <1>2, <2>1 DEF NoFrame, Snapshot
<1>6. /\ page \in Hook /\ page.index = NoIndex /\ page.step = "index"
      /\ page.indexAge = IndexRefresh + 1 /\ page.frame.active = NoIndex
      /\ \A a \in Address : page.activity[a].at = 0
  BY <1>2, <1>5 DEF EcosystemInit, Hook, Untold
<1>7. EcosystemTyped
  BY <1>1, <1>2, <1>3, <1>4, <1>6 DEF EcosystemInit, EcosystemTyped
<1>8. poll = 1 /\ waited = NoIndex
  BY DEF EcosystemInit
<1>9. ASSUME NEW a \in Address
      PROVE  Dated(a) /\ KnownHasEntry(a) /\ EdgeLag(a) /\ PageLag(a) /\ OnStage(a)
  <2>1. Dated(a)
    BY <1>1, <1>2, <1>3, <1>4, <1>6, <1>8 DEF Dated
  <2>2. waited[a] = 0 /\ Patience \in Nat
    BY <1>2, <1>8 DEF Patience
  <2>3. KnownHasEntry(a)
    BY <1>1, <1>3, <2>2 DEF KnownHasEntry
  <2>4. EdgeLag(a) /\ OnStage(a)
    BY <1>4, <2>2 DEF EdgeLag, OnStage
  <2>5. PageLag(a)
    BY <1>6, <2>2 DEF PageLag
  <2> QED
    BY <2>1, <2>3, <2>4, <2>5
<1>10. Overdue
  BY <1>6 DEF Overdue
<1> QED
  BY <1>7, <1>9, <1>10 DEF EcosystemInv

\* The ledger moves on, or the indexer catches up.
LEMMA LedgerKeepsEcosystem ==
    ASSUME EcosystemInv,
           \/ \E a \in Address : \/ \E held \in Held : MoveBalance(a, held)
                                 \/ ExpertCatchesUp(a)
                                 \/ \E kind \in {"no", "pool", "router"} : Register(a, kind)
    PROVE  EcosystemInv' /\ page' = page
<1>1. UNCHANGED <<edgeCache, poll, page, waited>> /\ page \in Hook /\ poll \in Nat \ {0}
  BY DEF MoveBalance, ExpertCatchesUp, Register, ledgerVars, EcosystemInv, EcosystemTyped
<1> DEFINE Kept ==
              /\ entries' \in [Address -> [held : Nat, written : Nat]]
              /\ expert' \in [Address -> Nat]
              /\ \A a \in Address : /\ entries'[a].written <= poll /\ expert'[a] <= poll
                                    /\ expert'[a] > 0 => entries'[a].written > 0
                                    /\ expert[a] > 0 => expert'[a] > 0
<1>2. Kept
  <2>1. /\ entries \in [Address -> [held : Nat, written : Nat]] /\ expert \in [Address -> Nat]
        /\ \A a \in Address : /\ entries[a].written <= poll /\ expert[a] <= poll
                              /\ expert[a] > 0 => entries[a].written > 0
    BY DEF EcosystemInv, EcosystemTyped, Dated, KnownHasEntry
  <2>2. ASSUME NEW b \in Address, NEW held \in Held, MoveBalance(b, held) PROVE Kept
    <3>1. [held |-> held, written |-> poll] \in [held : Nat, written : Nat]
      BY <1>1, EcosystemAssumption
    <3>2. entries' = [entries EXCEPT ![b] = [held |-> held, written |-> poll]] /\ expert' = expert
      BY <2>2 DEF MoveBalance
    <3> QED
      BY <1>1, <2>1, <3>1, <3>2
  <2>3. ASSUME NEW b \in Address, ExpertCatchesUp(b) PROVE Kept
    <3>1. expert' = [expert EXCEPT ![b] = entries[b].written] /\ entries' = entries
      BY <2>3 DEF ExpertCatchesUp, ledgerVars
    <3> QED
      BY <1>1, <2>1, <3>1
  <2>4. ASSUME NEW b \in Address, NEW kind, Register(b, kind) PROVE Kept
    BY <1>1, <2>1, <2>4 DEF Register
  <2> QED
    BY <2>2, <2>3, <2>4
<1>3. EcosystemTyped' /\ Overdue'
  BY <1>1, <1>2 DEF EcosystemInv, EcosystemTyped, Overdue
<1>4. ASSUME NEW a \in Address
      PROVE  (Dated(a) /\ KnownHasEntry(a) /\ EdgeLag(a) /\ PageLag(a) /\ OnStage(a))'
  <2>1. Dated(a)' /\ KnownHasEntry(a)' /\ OnStage(a)'
    BY <1>1, <1>2 DEF EcosystemInv, Dated, KnownHasEntry, OnStage
  <2>2. waited[a] = 0 \/ expert[a] > 0
    BY DEF EcosystemInv, EcosystemTyped, KnownHasEntry
  <2>3. EdgeLag(a)' /\ PageLag(a)'
    <3>1. waited[a] \in Nat /\ edgeCache.age \in Nat /\ Patience \in Nat
          /\ EdgeLife \in Nat /\ AtMostOld \in Nat
      BY <1>1, EcosystemAssumption DEF EcosystemInv, EcosystemTyped, Patience, AtMostOld, Hook
    <3>2. EdgeLag(a) /\ PageLag(a)
      BY DEF EcosystemInv
    <3> QED
      BY <1>1, <2>2, <3>1, <3>2 DEF EdgeLag, PageLag, AtMostOld
  <2> QED
    BY <2>1, <2>3
<1> QED
  BY <1>1, <1>3, <1>4 DEF EcosystemInv

\* The edge asks the indexer, or its answer serves on.
LEMMA EdgeAnswers ==
    ASSUME EcosystemInv, NEW edge, edge = EdgeAfterGet
    PROVE  /\ edge \in [index : [Address -> Nat], age : Nat]
           /\ (edge = edgeCache /\ edge.age <= EdgeLife) \/ edge.index = expert
BY DEF EcosystemInv, EcosystemTyped, EdgeAfterGet, EdgeFresh, ContractDataIndex

LEMMA VisitorKeepsEcosystem ==
    ASSUME EcosystemInv, OtherVisitor
    PROVE  EcosystemInv' /\ page' = page
<1>1. UNCHANGED <<entries, expert, poll, page, waited>>
  BY DEF OtherVisitor, ledgerVars
<1>2. /\ edgeCache' \in [index : [Address -> Nat], age : Nat]
      /\ edgeCache' = edgeCache \/ edgeCache'.index = expert
  <2>1. PICK edge : edge = EdgeAfterGet
    OBVIOUS
  <2>2. edgeCache' = edge
    BY <2>1 DEF OtherVisitor
  <2> QED
    BY <2>1, <2>2, EdgeAnswers
<1>3. EcosystemTyped' /\ Overdue'
  BY <1>1, <1>2 DEF EcosystemInv, EcosystemTyped, Overdue
<1>4. ASSUME NEW a \in Address
      PROVE  (Dated(a) /\ KnownHasEntry(a) /\ EdgeLag(a) /\ PageLag(a) /\ OnStage(a))'
  <2>1. Dated(a) /\ KnownHasEntry(a) /\ EdgeLag(a) /\ PageLag(a) /\ OnStage(a)
    BY DEF EcosystemInv
  <2>2. KnownHasEntry(a)' /\ PageLag(a)' /\ OnStage(a)'
    BY <1>1, <2>1 DEF KnownHasEntry, PageLag, AtMostOld, OnStage
  <2>3. Dated(a)'
    BY <1>1, <1>2, <2>1 DEF Dated
  <2>4. EdgeLag(a)'
    BY <1>1, <1>2, <2>1 DEF EdgeLag
  <2> QED
    BY <2>2, <2>3, <2>4
<1> QED
  BY <1>1, <1>3, <1>4 DEF EcosystemInv

LEMMA PollKeepsEcosystem ==
    ASSUME EcosystemInv, Poll
    PROVE  EcosystemInv' /\ page'.frame = page.frame
<1>1. UNCHANGED <<entries, expert, waited>> /\ poll' = poll + 1 /\ page \in Hook
      /\ poll \in Nat \ {0} /\ waited \in [Address -> Nat]
      /\ edgeCache \in [index : [Address -> Nat], age : Nat]
  BY DEF Poll, ledgerVars, EcosystemInv, EcosystemTyped
<1>2. edgeCache' \in [index : [Address -> Nat], age : Nat] /\ edgeCache'.age = edgeCache.age + 1
      /\ edgeCache'.index = edgeCache.index
  BY <1>1 DEF Poll
<1>3. PICK p : p = page
  OBVIOUS
<1>4. PICK step \in {"idle", "index", "states"} :
         step = IF p.step # "idle" THEN p.step
                ELSE IF p.indexAge + 1 > IndexRefresh THEN "index" ELSE "states"
  BY <1>1, <1>3 DEF Hook
<1>5. PICK age : age = p.indexAge + 1
  OBVIOUS
<1>6. PICK q : q = [p EXCEPT !.indexAge = age, !.step = step]
  OBVIOUS
<1>7. age \in Nat /\ p \in Hook
  BY <1>1, <1>3, <1>5 DEF Hook
<1>8. /\ q \in Hook /\ q.step = step /\ q.indexAge = age /\ q.index = p.index
       /\ q.clean = p.clean /\ q.frame = p.frame /\ q.activity = p.activity
  BY <1>6, <1>7 DEF Hook
<1>9. /\ q \in Hook /\ q.step = step /\ q.indexAge = p.indexAge + 1 /\ q.index = p.index
      /\ q.clean = p.clean /\ q.frame = p.frame /\ q.activity = p.activity /\ page' = q
  BY <1>3, <1>4, <1>5, <1>6, <1>8 DEF Poll
<1>10. p.indexAge \in Nat /\ IndexRefresh \in Nat /\ EdgeLife \in Nat /\ Patience = IndexRefresh + EdgeLife + 1
  BY <1>1, <1>3, EcosystemAssumption DEF Hook, Patience
<1>11. EcosystemTyped'
  BY <1>1, <1>2, <1>9 DEF EcosystemInv, EcosystemTyped
<1>12. Overdue'
  BY <1>1, <1>3, <1>4, <1>9, <1>10 DEF EcosystemInv, Overdue
<1>13. ASSUME NEW a \in Address
       PROVE  (Dated(a) /\ KnownHasEntry(a) /\ EdgeLag(a) /\ PageLag(a) /\ OnStage(a))'
  <2>1. Dated(a) /\ KnownHasEntry(a) /\ EdgeLag(a) /\ PageLag(a) /\ OnStage(a)
    BY DEF EcosystemInv
  <2>2. KnownHasEntry(a)' /\ OnStage(a)'
    BY <1>1, <1>3, <1>9, <2>1 DEF KnownHasEntry, OnStage
  <2>3. Dated(a)'
    <3>1. /\ entries[a].written \in Nat /\ expert[a] \in Nat /\ edgeCache.index[a] \in Nat
          /\ page.index[a] \in Nat /\ page.activity[a].at \in Nat
      BY <1>1 DEF EcosystemInv, EcosystemTyped, Hook
    <3> QED
      BY <1>1, <1>2, <1>3, <1>9, <2>1, <3>1 DEF Dated
  <2>4. EdgeLag(a)'
    BY <1>1, <1>2, <1>3, <1>4, <1>9, <2>1 DEF EdgeLag
  <2>5. PageLag(a)'
    BY <1>1, <1>3, <1>4, <1>9, <1>10, <2>1 DEF PageLag, AtMostOld
  <2> QED
    BY <2>2, <2>3, <2>4, <2>5
<1> QED
  BY <1>3, <1>9, <1>11, <1>12, <1>13 DEF EcosystemInv

\* The hook's answer p is in place of the old one; only what may differ is asked for.
LEMMA HookMoves ==
    ASSUME EcosystemInv, NEW p, page' = p, p \in Hook, poll' = poll, entries' = entries, expert' = expert,
           edgeCache' \in [index : [Address -> Nat], age : Nat],
           edgeCache' = edgeCache \/ edgeCache'.index = expert,
           waited' \in [Address -> Nat],
           (p.step = "states" /\ ~p.clean) \/ p.step = "index" => p.indexAge > IndexRefresh,
           p.step = "idle" => p.clean,
           \A a \in Address : /\ p.index[a] <= poll /\ p.activity[a].at <= poll
                              /\ p.frame.active[a] <= p.activity[a].at
                              /\ waited'[a] > 0 => expert[a] > 0
                              /\ EdgeLag(a)' /\ PageLag(a)' /\ OnStage(a)'
    PROVE  EcosystemInv'
<1>1. EcosystemTyped'
  BY DEF EcosystemInv, EcosystemTyped
<1>2. Overdue'
  BY DEF Overdue
<1>3. ASSUME NEW a \in Address PROVE Dated(a)' /\ KnownHasEntry(a)'
  <2>1. Dated(a) /\ KnownHasEntry(a)
    BY DEF EcosystemInv
  <2> QED
    BY <2>1 DEF Dated, KnownHasEntry
<1> QED
  BY <1>1, <1>2, <1>3 DEF EcosystemInv

\* What the registry says; the lists differ, what the hook knows of holders does not.
LEMMA RegistryTyped ==
    ASSUME NEW h \in Hook
    PROVE  LET p == WithRegistry(h) IN
           /\ p \in Hook /\ p.step = "states" /\ p.index = h.index /\ p.indexAge = h.indexAge
           /\ p.clean = h.clean /\ p.activity = h.activity /\ p.frame = h.frame
<1>1. PICK pools, routers : pools = Listed("pool") /\ routers = Listed("router")
  OBVIOUS
<1>2. pools \in SUBSET Address /\ routers \in SUBSET Address
  BY <1>1 DEF Listed
<1>3. PICK naming : naming = IF pools = h.labelled THEN h.naming ELSE h.naming \cup {pools}
  OBVIOUS
<1>4. naming \in SUBSET SUBSET Address
  BY <1>2, <1>3 DEF Hook
<1>5. PICK p : p = [h EXCEPT !.pools = pools, !.routers = routers, !.step = "states",
                            !.labelled = pools, !.naming = naming]
  OBVIOUS
<1>6. /\ p \in Hook /\ p.step = "states" /\ p.index = h.index /\ p.indexAge = h.indexAge
      /\ p.clean = h.clean /\ p.activity = h.activity /\ p.frame = h.frame
  BY <1>2, <1>4, <1>5 DEF Hook
<1>7. p = WithRegistry(h)
  BY <1>1, <1>3, <1>5 DEF WithRegistry
<1> QED
  BY <1>6, <1>7

\* An index that arrives tells of moves the page has not read of itself.
LEMMA ActivityGrows ==
    ASSUME EcosystemInv, NEW index \in [Address -> Nat], \A a \in Address : index[a] <= poll
    PROVE  /\ ActivityOfIndex(index) \in [Address -> [ledger : Nat, at : Nat]]
           /\ \A a \in Address : /\ ActivityOfIndex(index)[a].at <= poll
                                 /\ page.activity[a].at <= ActivityOfIndex(index)[a].at
<1>1. page.activity \in [Address -> [ledger : Nat, at : Nat]] /\ poll \in Nat
      /\ \A a \in Address : page.activity[a].at <= poll
  BY DEF EcosystemInv, EcosystemTyped, Dated, Hook
<1>2. PICK activity : activity = page.activity
  OBVIOUS
<1>3. ASSUME NEW a \in Address, NEW x,
             x = IF index[a] > 0 /\ activity[a] = Untold THEN [ledger |-> 0, at |-> index[a]]
                 ELSE activity[a]
      PROVE  x \in [ledger : Nat, at : Nat] /\ x.at <= poll /\ activity[a].at <= x.at
  <2>1. activity[a] \in [ledger : Nat, at : Nat] /\ activity[a].at <= poll /\ index[a] \in Nat
    BY <1>1, <1>2
  <2>2. CASE index[a] > 0 /\ activity[a] = Untold
    <3>1. x.at = index[a] /\ x = [ledger |-> 0, at |-> index[a]] /\ activity[a].at = 0
      BY <1>3, <2>2 DEF Untold
    <3> QED
      BY <2>1, <2>2, <3>1
  <2>3. CASE ~(index[a] > 0 /\ activity[a] = Untold)
    BY <1>3, <2>1, <2>3
  <2> QED
    BY <2>2, <2>3
<1> QED
  BY <1>2, <1>3 DEF ActivityOfIndex

LEMMA IndexArrivesKeeps ==
    ASSUME EcosystemInv, IndexArrives
    PROVE  EcosystemInv' /\ page'.frame = page.frame
<1>1. /\ UNCHANGED <<entries, expert, poll, waited>> /\ page \in Hook /\ page.step = "index"
      /\ expert \in [Address -> Nat] /\ waited \in [Address -> Nat] /\ poll \in Nat
      /\ edgeCache \in [index : [Address -> Nat], age : Nat]
  BY DEF IndexArrives, ledgerVars, EcosystemInv, EcosystemTyped
<1>2. PICK edge, index :
         /\ edgeCache' = edge
         /\ page' = WithRegistry([page EXCEPT !.index = index, !.indexAge = 0,
                                              !.indexError = FALSE, !.clean = TRUE,
                                              !.activity = ActivityOfIndex(index)])
         /\ \/ edge = EdgeAfterGet /\ index = edge.index
            \/ edge = edgeCache /\ index = expert
  <2>1. PICK answer \in {[index |-> IndexViaWorker, edgeCache |-> EdgeAfterGet],
                         [index |-> IndexDirect, edgeCache |-> edgeCache]} :
           /\ edgeCache' = answer.edgeCache
           /\ page' = WithRegistry([page EXCEPT !.index = answer.index, !.indexAge = 0,
                                                !.indexError = FALSE, !.clean = TRUE,
                                                !.activity = ActivityOfIndex(answer.index)])
    BY DEF IndexArrives
  <2>2. PICK edge, index : edge = answer.edgeCache /\ index = answer.index
    OBVIOUS
  <2>3. (edge = EdgeAfterGet /\ index = edge.index) \/ (edge = edgeCache /\ index = expert)
    BY <2>2 DEF IndexViaWorker, IndexDirect
  <2> QED
    BY <2>1, <2>2, <2>3
<1>3. /\ edge \in [index : [Address -> Nat], age : Nat]
      /\ edge = edgeCache \/ edge.index = expert
      /\ (edge = edgeCache /\ edge.age <= EdgeLife /\ index = edge.index) \/ index = expert
  BY <1>1, <1>2, EdgeAnswers
<1>4. index \in [Address -> Nat] /\ \A a \in Address : index[a] <= poll
  BY <1>1, <1>3 DEF EcosystemInv, Dated
<1>5. PICK activity : activity = ActivityOfIndex(index)
  OBVIOUS
<1>6. /\ activity \in [Address -> [ledger : Nat, at : Nat]]
      /\ \A a \in Address : activity[a].at <= poll /\ page.activity[a].at <= activity[a].at
  BY <1>4, <1>5, ActivityGrows
<1>7. PICK old : old = page
  OBVIOUS
<1>8. PICK clean \in BOOLEAN, error \in BOOLEAN : clean /\ ~error
  OBVIOUS
<1>9. PICK h : h = [old EXCEPT !.index = index, !.indexAge = 0, !.indexError = error,
                               !.clean = clean, !.activity = activity]
  OBVIOUS
<1>10. /\ h \in Hook /\ h.index = index /\ h.indexAge = 0 /\ h.clean = clean
       /\ h.activity = activity /\ h.frame = old.frame
  BY <1>1, <1>4, <1>6, <1>7, <1>9 DEF Hook
<1>11. PICK p : p = WithRegistry(h)
  OBVIOUS
<1>12. /\ p \in Hook /\ p.step = "states" /\ p.index = index /\ p.indexAge = 0
       /\ p.clean /\ p.activity = activity /\ p.frame = old.frame
  BY <1>8, <1>10, <1>11, RegistryTyped
<1>13. page' = p
  BY <1>2, <1>5, <1>7, <1>8, <1>9, <1>11
<1>14. ASSUME NEW a \in Address PROVE EdgeLag(a)' /\ PageLag(a)' /\ OnStage(a)'
  <2>1. EdgeLag(a) /\ PageLag(a) /\ OnStage(a) /\ waited[a] \in Nat /\ expert[a] \in Nat
    BY <1>1 DEF EcosystemInv
  <2>2. EdgeLag(a)'
    BY <1>1, <1>2, <1>3, <1>12, <1>13, <2>1 DEF EdgeLag
  <2>3. EdgeLife \in Nat /\ IndexRefresh \in Nat /\ Patience = IndexRefresh + EdgeLife + 1
        /\ edgeCache.age \in Nat
    BY <1>1, EcosystemAssumption DEF Patience
  <2>4. expert[a] > 0 /\ index[a] = 0 => waited[a] <= EdgeLife
    BY <1>1, <1>3, <2>1, <2>3 DEF EdgeLag
  <2>5. PageLag(a)'
    BY <1>1, <1>12, <1>13, <2>1, <2>3, <2>4 DEF PageLag, AtMostOld
  <2>6. OnStage(a)'
    BY <1>1, <1>7, <1>12, <1>13, <2>1 DEF OnStage
  <2> QED
    BY <2>2, <2>5, <2>6
<1>15. ASSUME NEW a \in Address
       PROVE  /\ p.index[a] <= poll /\ p.activity[a].at <= poll
              /\ p.frame.active[a] <= p.activity[a].at /\ (waited'[a] > 0 => expert[a] > 0)
  <2>1. /\ page.frame.active[a] <= page.activity[a].at /\ page.frame.active[a] \in Nat
        /\ page.activity[a].at \in Nat /\ (waited[a] > 0 => expert[a] > 0)
    BY <1>1 DEF EcosystemInv, Dated, KnownHasEntry, Hook, Snapshot
  <2> QED
    BY <1>1, <1>4, <1>6, <1>7, <1>12, <2>1
<1> QED
  BY <1>1, <1>2, <1>3, <1>7, <1>12, <1>13, <1>14, <1>15, HookMoves

\* A tick goes on without an index, or ends without the states.
LEMMA FailureKeeps ==
    ASSUME EcosystemInv, IndexFails \/ TickFails
    PROVE  EcosystemInv' /\ page'.frame = page.frame
<1>1. /\ UNCHANGED <<entries, expert, edgeCache, poll, waited>> /\ page \in Hook
      /\ waited \in [Address -> Nat] /\ edgeCache \in [index : [Address -> Nat], age : Nat]
  BY DEF IndexFails, TickFails, ledgerVars, EcosystemInv, EcosystemTyped
<1>2. PICK old : old = page
  OBVIOUS
<1>3. \E p : /\ page' = p /\ p \in Hook /\ p.index = old.index /\ p.indexAge = old.indexAge
             /\ p.activity = old.activity /\ p.frame = old.frame
             /\ \/ p.step = "states" /\ ~p.clean /\ old.step = "index"
                \/ p.step = "idle" /\ p.clean /\ old.step # "idle"
  <2>1. CASE IndexFails
    <3>1. PICK error \in BOOLEAN, clean \in BOOLEAN : error /\ ~clean
      OBVIOUS
    <3>2. PICK h : h = [old EXCEPT !.indexError = error, !.clean = clean]
      OBVIOUS
    <3>3. /\ h \in Hook /\ h.index = old.index /\ h.indexAge = old.indexAge
          /\ h.activity = old.activity /\ h.frame = old.frame /\ h.clean = clean
      BY <1>1, <1>2, <3>2 DEF Hook
    <3>4. PICK p : p = WithRegistry(h)
      OBVIOUS
    <3>5. page' = p
      BY <1>2, <2>1, <3>1, <3>2, <3>4 DEF IndexFails
    <3>6. old.step = "index"
      BY <1>2, <2>1 DEF IndexFails
    <3> QED
      BY <3>1, <3>3, <3>4, <3>5, <3>6, RegistryTyped
  <2>2. CASE TickFails
    <3>1. PICK alsoIndex \in BOOLEAN :
             page' = [page EXCEPT !.step = "idle", !.clean = TRUE,
                                  !.indexError = @ \/ alsoIndex,
                                  !.sync = IF page.hasData THEN @ ELSE "error"]
      BY <2>2 DEF TickFails
    <3>2. PICK error \in BOOLEAN, clean \in BOOLEAN : error = (old.indexError \/ alsoIndex) /\ clean
      OBVIOUS
    <3>3. PICK sync \in {"loading", "live", "error"} : sync = IF old.hasData THEN old.sync ELSE "error"
      BY <1>1, <1>2 DEF Hook
    <3>4. PICK p : p = [old EXCEPT !.step = "idle", !.clean = clean, !.indexError = error, !.sync = sync]
      OBVIOUS
    <3>5. /\ p \in Hook /\ p.index = old.index /\ p.indexAge = old.indexAge
          /\ p.activity = old.activity /\ p.frame = old.frame /\ p.clean = clean /\ p.step = "idle"
      BY <1>1, <1>2, <3>4 DEF Hook
    <3>6. page' = p
      BY <1>2, <3>1, <3>2, <3>3, <3>4
    <3>7. old.step # "idle"
      BY <1>2, <2>2 DEF TickFails
    <3> QED
      BY <3>2, <3>5, <3>6, <3>7
  <2> QED
    BY <2>1, <2>2
<1>4. PICK p : /\ page' = p /\ p \in Hook /\ p.index = old.index /\ p.indexAge = old.indexAge
               /\ p.activity = old.activity /\ p.frame = old.frame
               /\ \/ p.step = "states" /\ ~p.clean /\ old.step = "index"
                  \/ p.step = "idle" /\ p.clean /\ old.step # "idle"
  BY <1>3
<1>5. p.step \in {"states", "idle"} /\ (p.step = "states" => ~p.clean /\ p.indexAge > IndexRefresh)
      /\ (p.step = "idle" => p.clean)
  BY <1>2, <1>4 DEF EcosystemInv, Overdue
<1>6. ASSUME NEW a \in Address
      PROVE  /\ p.index[a] <= poll /\ p.activity[a].at <= poll
             /\ p.frame.active[a] <= p.activity[a].at /\ (waited'[a] > 0 => expert[a] > 0)
             /\ EdgeLag(a)' /\ PageLag(a)' /\ OnStage(a)'
  <2>1. Dated(a) /\ KnownHasEntry(a) /\ EdgeLag(a) /\ PageLag(a) /\ OnStage(a)
    BY DEF EcosystemInv
  <2>2. /\ p.index[a] <= poll /\ p.activity[a].at <= poll
        /\ p.frame.active[a] <= p.activity[a].at /\ (waited'[a] > 0 => expert[a] > 0)
    BY <1>1, <1>2, <1>4, <2>1 DEF Dated, KnownHasEntry
  <2>3. EdgeLag(a)' /\ OnStage(a)'
    BY <1>1, <1>2, <1>4, <2>1 DEF EdgeLag, OnStage
  <2>4. IndexRefresh \in Nat /\ EdgeLife \in Nat /\ Patience = IndexRefresh + EdgeLife + 1
        /\ old.indexAge \in Nat /\ waited[a] \in Nat
    BY <1>1, <1>2, EcosystemAssumption DEF Patience, Hook
  <2>5. old.step \in {"index", "states"} /\ old.clean \in BOOLEAN
    BY <1>1, <1>2, <1>4 DEF Hook
  <2>6. old.step = "index" \/ ~old.clean => old.indexAge > IndexRefresh
    BY <1>2, <2>5 DEF EcosystemInv, Overdue
  <2>7. PageLag(a)'
    BY <1>1, <1>2, <1>4, <1>5, <2>1, <2>4, <2>5, <2>6 DEF PageLag, AtMostOld
  <2> QED
    BY <2>2, <2>3, <2>7
<1> QED
  BY <1>1, <1>2, <1>4, <1>5, <1>6, HookMoves

\* A read of the ledger dates the moves it sees; nothing goes back.
LEMMA ReadGrows ==
    ASSUME EcosystemInv
    PROVE  /\ ActivityAfterRead \in [Address -> [ledger : Nat, at : Nat]]
           /\ \A a \in Address : /\ ActivityAfterRead[a].at <= poll
                                 /\ page.activity[a].at <= ActivityAfterRead[a].at
<1>1. page.activity \in [Address -> [ledger : Nat, at : Nat]] /\ poll \in Nat
      /\ entries \in [Address -> [held : Nat, written : Nat]]
      /\ \A a \in Address : page.activity[a].at <= poll
  BY DEF EcosystemInv, EcosystemTyped, Dated, Hook
<1>2. PICK activity : activity = page.activity
  OBVIOUS
<1>3. ASSUME NEW a \in Address
      PROVE  /\ ActivityAfterRead[a] \in [ledger : Nat, at : Nat]
             /\ ActivityAfterRead[a].at <= poll /\ activity[a].at <= ActivityAfterRead[a].at
  <2>1. activity[a] \in [ledger : Nat, at : Nat] /\ activity[a].at <= poll /\ activity[a].at \in Nat
        /\ entries[a].written \in Nat
    BY <1>1, <1>2
  <2>2. PICK n : n = IF activity[a].ledger > 0 /\ entries[a].written > activity[a].ledger
                     THEN poll ELSE activity[a].at
    OBVIOUS
  <2>3. n \in Nat /\ n <= poll /\ activity[a].at <= n
    BY <1>1, <2>1, <2>2
  <2>4. ActivityAfterRead[a] = IF a \notin Read THEN activity[a]
                               ELSE [ledger |-> entries[a].written, at |-> n]
    BY <1>2, <2>2 DEF ActivityAfterRead
  <2>5. CASE a \notin Read
    BY <2>1, <2>4, <2>5
  <2>6. CASE a \in Read
    BY <2>1, <2>3, <2>4, <2>6
  <2> QED
    BY <2>5, <2>6
<1>4. ActivityAfterRead = [a \in Address |-> ActivityAfterRead[a]]
  BY DEF ActivityAfterRead
<1> QED
  BY <1>2, <1>3, <1>4

LEMMA StatesKeep ==
    ASSUME EcosystemInv, StatesArrive
    PROVE  /\ EcosystemInv'
           /\ \A a \in Address : page.frame.active[a] <= page'.frame.active[a]
<1>1. /\ UNCHANGED <<entries, expert, edgeCache, poll>> /\ page \in Hook /\ page.step = "states"
      /\ entries \in [Address -> [held : Nat, written : Nat]] /\ poll \in Nat
      /\ waited \in [Address -> Nat] /\ edgeCache \in [index : [Address -> Nat], age : Nat]
  BY DEF StatesArrive, ledgerVars, EcosystemInv, EcosystemTyped
<1>2. PICK activity : activity = ActivityAfterRead
  OBVIOUS
<1>3. /\ activity \in [Address -> [ledger : Nat, at : Nat]]
      /\ \A a \in Address : activity[a].at <= poll /\ page.activity[a].at <= activity[a].at
  BY <1>2, ReadGrows
<1>4. PICK active : active = [a \in Address |-> activity[a].at]
  OBVIOUS
<1>5. PICK held : held = [a \in Read |-> entries[a].held]
  OBVIOUS
<1>6. PICK old : old = page
  OBVIOUS
<1>7. PICK frame : frame = [held |-> held, pools |-> old.pools, routers |-> old.routers, active |-> active]
  OBVIOUS
<1>8. frame \in Snapshot
  <2>1. active \in [Address -> Nat]
    BY <1>3, <1>4
  <2>2. Read \subseteq Address
    BY <1>1 DEF Read, Known, Hook
  <2>3. held \in [Read -> Nat]
    BY <1>1, <1>5, <2>2
  <2>4. held \in UNION {[D -> Nat] : D \in SUBSET Address}
    BY <2>2, <2>3
  <2>5. old.pools \in SUBSET Address /\ old.routers \in SUBSET Address
    BY <1>1, <1>6 DEF Hook
  <2> QED
    BY <1>7, <2>1, <2>4, <2>5 DEF Snapshot
<1>9. PICK yes \in BOOLEAN : yes
  OBVIOUS
<1>10. PICK p : p = [old EXCEPT !.step = "idle", !.hasData = yes, !.sync = "live", !.clean = yes,
                                !.activity = activity, !.frame = frame]
  OBVIOUS
<1>11. /\ p \in Hook /\ p.step = "idle" /\ p.clean = yes /\ p.activity = activity
       /\ p.frame = frame /\ p.index = old.index /\ p.indexAge = old.indexAge
  BY <1>1, <1>3, <1>6, <1>8, <1>10 DEF Hook
<1>12. page' = p
  BY <1>2, <1>4, <1>5, <1>6, <1>7, <1>9, <1>10 DEF StatesArrive
<1>13. waited' \in [Address -> Nat]
       /\ \A a \in Address : \/ waited'[a] = waited[a]
                             \/ waited'[a] = waited[a] + 1 /\ old.clean /\ expert[a] > 0
  BY <1>1, <1>6 DEF StatesArrive
<1>14. ASSUME NEW a \in Address
       PROVE  /\ p.index[a] <= poll /\ p.activity[a].at <= poll
              /\ p.frame.active[a] <= p.activity[a].at
              /\ waited'[a] > 0 => expert[a] > 0
              /\ EdgeLag(a)' /\ PageLag(a)' /\ OnStage(a)'
              /\ page.frame.active[a] <= page'.frame.active[a]
  <2>1. Dated(a) /\ KnownHasEntry(a) /\ EdgeLag(a) /\ PageLag(a) /\ OnStage(a)
    BY DEF EcosystemInv
  <2>2. /\ waited[a] \in Nat /\ waited'[a] \in Nat
        /\ \/ waited'[a] = waited[a]
           \/ waited'[a] = waited[a] + 1 /\ old.clean /\ expert[a] > 0
    BY <1>1, <1>13
  <2>3. waited'[a] > 0 => expert[a] > 0
    BY <2>1, <2>2 DEF KnownHasEntry
  <2>4. p.frame.active[a] = activity[a].at /\ activity[a].at \in Nat
    BY <1>3, <1>4, <1>7, <1>11
  <2>5. /\ page.frame.active[a] <= page.activity[a].at /\ page.activity[a].at <= activity[a].at
        /\ page.frame.active[a] \in Nat /\ page.activity[a].at \in Nat
    BY <1>1, <1>3, <2>1 DEF Dated, Hook, Snapshot
  <2>6. edgeCache.age \in Nat /\ IndexRefresh \in Nat /\ EdgeLife \in Nat
        /\ Patience = IndexRefresh + EdgeLife + 1 /\ old.indexAge \in Nat /\ old.clean \in BOOLEAN
    BY <1>1, <1>6, EcosystemAssumption DEF Patience, Hook
  <2>7. EdgeLag(a)'
    BY <1>1, <1>11, <1>12, <2>1, <2>2, <2>6 DEF EdgeLag
  <2>8. ~old.clean => old.indexAge > IndexRefresh
    BY <1>1, <1>6 DEF EcosystemInv, Overdue
  <2>9. PageLag(a)'
    BY <1>1, <1>6, <1>11, <1>12, <2>1, <2>2, <2>6, <2>8 DEF PageLag, AtMostOld
  <2>10. OnStage(a)'
    <3> SUFFICES ASSUME waited'[a] > Patience PROVE a \in DOMAIN page'.frame.held
      BY DEF OnStage, Patience
    <3>1. expert[a] > 0 /\ entries[a].written > 0
      BY <2>1, <2>2, <2>3, <2>6 DEF KnownHasEntry
    <3>2. page.index[a] # 0
      BY <1>1, <1>6, <1>11, <1>12, <2>2, <2>6, <2>9, <3>1 DEF PageLag, Patience
    <3>3. page.index[a] \in Nat
      BY <1>1 DEF Hook
    <3>4. a \in Read
      BY <3>1, <3>2, <3>3 DEF Read, Known
    <3> QED
      BY <1>5, <1>7, <1>11, <1>12, <3>4
  <2>11. p.index[a] <= poll /\ p.activity[a].at <= poll
    BY <1>3, <1>6, <1>11, <2>1 DEF Dated
  <2>12. page.frame.active[a] <= page'.frame.active[a] /\ p.frame.active[a] <= p.activity[a].at
    BY <1>11, <1>12, <2>4, <2>5
  <2> QED
    BY <2>3, <2>7, <2>9, <2>10, <2>11, <2>12
<1>15. EcosystemInv'
  BY <1>1, <1>9, <1>11, <1>12, <1>13, <1>14, HookMoves
<1> QED
  BY <1>14, <1>15

LEMMA NamesKeep ==
    ASSUME EcosystemInv, NEW pools \in page.naming, NamesArrive(pools)
    PROVE  EcosystemInv' /\ page'.frame = page.frame
<1>1. /\ UNCHANGED <<entries, expert, edgeCache, poll, waited>> /\ page \in Hook
      /\ waited \in [Address -> Nat] /\ edgeCache \in [index : [Address -> Nat], age : Nat]
  BY DEF NamesArrive, ledgerVars, EcosystemInv, EcosystemTyped
<1>2. PICK old : old = page
  OBVIOUS
<1>3. PICK naming : naming = old.naming \ {pools}
  OBVIOUS
<1>4. pools \in SUBSET Address /\ naming \in SUBSET SUBSET Address
  BY <1>1, <1>2, <1>3 DEF Hook
<1>5. PICK p : p = [old EXCEPT !.naming = naming, !.labels = pools]
  OBVIOUS
<1>6. /\ p \in Hook /\ p.step = old.step /\ p.clean = old.clean /\ p.activity = old.activity
      /\ p.frame = old.frame /\ p.index = old.index /\ p.indexAge = old.indexAge
  BY <1>1, <1>2, <1>4, <1>5 DEF Hook
<1>7. page' = p
  BY <1>2, <1>3, <1>5 DEF NamesArrive
<1>8. ASSUME NEW a \in Address
      PROVE  /\ p.index[a] <= poll /\ p.activity[a].at <= poll
             /\ p.frame.active[a] <= p.activity[a].at
             /\ waited'[a] > 0 => expert[a] > 0
             /\ EdgeLag(a)' /\ PageLag(a)' /\ OnStage(a)'
  <2>1. Dated(a) /\ KnownHasEntry(a) /\ EdgeLag(a) /\ PageLag(a) /\ OnStage(a)
    BY DEF EcosystemInv
  <2> QED
    BY <1>1, <1>2, <1>6, <1>7, <2>1 DEF Dated, KnownHasEntry, EdgeLag, PageLag, AtMostOld, OnStage
<1>9. ((p.step = "states" /\ ~p.clean) \/ p.step = "index" => p.indexAge > IndexRefresh)
      /\ (p.step = "idle" => p.clean)
  BY <1>2, <1>6 DEF EcosystemInv, Overdue
<1> QED
  BY <1>1, <1>2, <1>6, <1>7, <1>8, <1>9, HookMoves

LEMMA EcosystemStepKeeps ==
    ASSUME EcosystemInv, [EcosystemNext]_ecosystemVars
    PROVE  /\ EcosystemInv'
           /\ \A a \in Address : page.frame.active[a] <= page'.frame.active[a]
<1>1. ASSUME page'.frame = page.frame
      PROVE  \A a \in Address : page.frame.active[a] <= page'.frame.active[a]
  BY <1>1 DEF EcosystemInv, EcosystemTyped, Hook, Snapshot
<1>2. CASE UNCHANGED ecosystemVars
  BY <1>1, <1>2 DEF ecosystemVars, ledgerVars, EcosystemInv, EcosystemTyped, Overdue, Dated, KnownHasEntry,
                    EdgeLag, PageLag, AtMostOld, OnStage
<1>3. CASE \E a \in Address : \/ \E held \in Held : MoveBalance(a, held)
                              \/ \E kind \in {"no", "pool", "router"} : Register(a, kind)
                              \/ ExpertCatchesUp(a)
  BY <1>1, <1>3, LedgerKeepsEcosystem
<1>4. CASE OtherVisitor
  BY <1>1, <1>4, VisitorKeepsEcosystem
<1>5. CASE Poll
  BY <1>1, <1>5, PollKeepsEcosystem
<1>6. CASE IndexArrives
  BY <1>1, <1>6, IndexArrivesKeeps
<1>7. CASE IndexFails \/ TickFails
  BY <1>1, <1>7, FailureKeeps
<1>8. CASE StatesArrive
  BY <1>8, StatesKeep
<1>9. CASE \E pools \in page.naming : NamesArrive(pools)
  BY <1>1, <1>9, NamesKeep
<1> QED
  BY <1>2, <1>3, <1>4, <1>5, <1>6, <1>7, <1>8, <1>9 DEF EcosystemNext

LEMMA EcosystemInvariance == EcosystemSpec => []EcosystemInv
<1>1. EcosystemInit => EcosystemInv
  BY EcosystemStarts
<1>2. EcosystemInv /\ [EcosystemNext]_ecosystemVars => EcosystemInv'
  BY EcosystemStepKeeps
<1> QED
  BY <1>1, <1>2, PTL DEF EcosystemSpec

\* Every pool, and every holder of something that is no router, is drawn.
LEMMA HolderDrawn ==
    ASSUME NEW frame, NEW limit, NEW a,
           a \in frame.pools \/ (a \in DOMAIN frame.held \ (frame.pools \cup frame.routers)
                                 /\ frame.held[a] > 0)
    PROVE  \E h \in EcoHolders(frame, limit) : h.id = a
<1>1. CASE a \in frame.pools
  <2>1. PICK h : h = [id |-> a, kind |-> "pool", status |-> "pool",
                      balance |-> IF a \in DOMAIN frame.held THEN frame.held[a] ELSE 0]
    OBVIOUS
  <2>2. h \in EcoHolders(frame, limit) /\ h.id = a
    BY <1>1, <2>1 DEF EcoHolders
  <2> QED
    BY <2>2
<1>2. CASE a \in {b \in DOMAIN frame.held \ (frame.pools \cup frame.routers) : frame.held[b] > 0}
  <2>1. PICK h : h = [id |-> a, kind |-> "account", status |-> StatusFor(frame.held[a], limit),
                      balance |-> frame.held[a]]
    OBVIOUS
  <2>2. h \in EcoHolders(frame, limit) /\ h.id = a
    BY <1>2, <2>1 DEF EcoHolders
  <2> QED
    BY <2>2
<1> QED
  BY <1>1, <1>2

\* app/lib/holders.ts over api/holders.ts: whatever the lifetimes of the two
\* caches, an account whose ticks ended well for their sum, and one more, is on
\* the stage, whatever other visitors, failures and the ledger did meanwhile.
THEOREM NewcomersAlwaysAppear == EcosystemSpec => []NewcomersAppear
<1>1. EcosystemInv => NewcomersAppear
  <2> SUFFICES ASSUME EcosystemInv, NEW a \in Address, waited[a] > Patience
               PROVE  \/ \E h \in EcoHolders(page.frame, Horizon) : h.id = a
                      \/ a \in page.frame.routers
                      \/ a \in DOMAIN page.frame.held /\ page.frame.held[a] = 0
    BY DEF NewcomersAppear
  <2>1. PICK frame : frame = page.frame
    OBVIOUS
  <2>2. frame \in Snapshot /\ a \in DOMAIN frame.held
    BY <2>1 DEF EcosystemInv, EcosystemTyped, Hook, OnStage
  <2>3. frame.held[a] \in Nat
    BY <2>2 DEF Snapshot
  <2>4. CASE a \in frame.pools
    BY <2>1, <2>4, HolderDrawn
  <2>5. CASE a \notin frame.pools /\ a \notin frame.routers /\ frame.held[a] > 0
    BY <2>1, <2>2, <2>5, HolderDrawn
  <2> QED
    BY <2>1, <2>2, <2>3, <2>4, <2>5
<1> QED
  BY <1>1, EcosystemInvariance, PTL

\* useEcosystemData.ts: the time of a holder's last move that the page shows
\* never goes back, whichever index and whichever read came last.
THEOREM ActivityOnlyGrows == EcosystemSpec => ActivityNeverRewinds
<1>1. EcosystemInv /\ [EcosystemNext]_ecosystemVars =>
        [\A a \in Address : page'.frame.active[a] >= page.frame.active[a]]_page
  <2> SUFFICES ASSUME EcosystemInv, [EcosystemNext]_ecosystemVars, NEW a \in Address
               PROVE  page'.frame.active[a] >= page.frame.active[a]
    OBVIOUS
  <2>1. page.frame.active[a] <= page'.frame.active[a] /\ EcosystemInv'
    BY EcosystemStepKeeps
  <2>2. page.frame.active[a] \in Nat /\ page'.frame.active[a] \in Nat
    BY <2>1 DEF EcosystemInv, EcosystemTyped, Hook, Snapshot
  <2> QED
    BY <2>1, <2>2
<1> QED
  BY <1>1, EcosystemInvariance, PTL DEF EcosystemSpec, ActivityNeverRewinds

-----------------------------------------------------------------------------
(***************************************************************************)
(* The proofs about HolderScene: the renderer's copy of what React holds   *)
(* is never behind it, for any snapshots, limits and settings.             *)
(***************************************************************************)

\* The fields of a renderer.
IsRenderer(sc) ==
    sc = [mounted |-> sc.mounted, synced |-> sc.synced, limit |-> sc.limit, bodies |-> sc.bodies,
          hidden |-> sc.hidden, size |-> sc.size, selected |-> sc.selected,
          hovered |-> sc.hovered, ring |-> sc.ring, pings |-> sc.pings]

\* Every body has the orbit, size, colour and visibility of its node by now.
BodiesFit(sc) ==
    sc.bodies = [i \in DOMAIN sc.bodies |-> NewBody(sc.bodies[i].node, sc)]

\* The selection, the pointer, the ring and the pings are at bodies there are.
PointsAtBodies(sc) ==
    /\ sc.selected \in DOMAIN sc.bodies \cup {NoOne}
    /\ sc.pings \cup {sc.hovered} \subseteq DOMAIN sc.bodies \cup {NoOne}
    /\ sc.ring \in BOOLEAN /\ (sc.ring => sc.selected # NoOne)

WellDrawn(sc) == IsRenderer(sc) /\ BodiesFit(sc) /\ PointsAtBodies(sc)

\* The bodies are those of a snapshot that can be drawn.
Follows(sc, d) ==
    d.limit > 0 =>
        /\ sc.limit = d.limit /\ DOMAIN sc.bodies = DOMAIN Nodes(d)
        /\ \A i \in DOMAIN sc.bodies : sc.bodies[i].node = Nodes(d)[i]

StageInv ==
    /\ look = [hidden |-> look.hidden, size |-> look.size]
    /\ ~scene.mounted => scene = NoScene /\ chosen = NoOne
    /\ scene.mounted => /\ WellDrawn(scene) /\ Follows(scene, drawn)
                        /\ scene.hidden = look.hidden /\ scene.size = look.size
                        /\ scene.selected = chosen

LEMMA NodeOfBody ==
    ASSUME NEW n, NEW sc
    PROVE  NewBody(n, sc).node = n
BY DEF NewBody

LEMMA UpdatedFits ==
    ASSUME NEW old, NEW sc, NEW m, NEW n, NEW limitMoved \in BOOLEAN,
           sc.hidden = old.hidden, sc.size = old.size,
           ~limitMoved => sc.limit = old.limit
    PROVE  Updated(NewBody(m, old), n, sc, limitMoved) = NewBody(n, sc)
<1>1. PICK b : b = NewBody(m, old)
  OBVIOUS
<1>2. /\ b.node = m /\ b.orbit = OrbitOf(m, old.limit)
      /\ b.size = SizeOf(m, old.limit, old.size) /\ b.hue = m.status
      /\ b.shown = (m.status \notin old.hidden)
  BY <1>1 DEF NewBody
<1>3. (IF Refit(b, n, limitMoved) THEN OrbitOf(n, sc.limit) ELSE b.orbit) = OrbitOf(n, sc.limit)
  BY <1>2 DEF Refit
<1>4. (IF Refit(b, n, limitMoved) THEN SizeOf(n, sc.limit, sc.size) ELSE b.size)
        = SizeOf(n, sc.limit, sc.size)
  BY <1>2 DEF Refit
<1>5. (IF b.node.status # n.status THEN n.status ELSE b.hue) = n.status
  BY <1>2
<1>6. (IF b.node.status # n.status THEN n.status \notin sc.hidden ELSE b.shown)
        = (n.status \notin sc.hidden)
  BY <1>2
<1> QED
  BY <1>1, <1>3, <1>4, <1>5, <1>6 DEF Updated, NewBody

\* A snapshot that can be drawn is drawn; what pointed at a body that left lets go.
LEMMA SyncFollows ==
    ASSUME NEW old, WellDrawn(old), NEW d
    PROVE  LET sc == Sync(old, d) IN
           /\ WellDrawn(sc) /\ Follows(sc, d)
           /\ sc.mounted = old.mounted /\ sc.hidden = old.hidden /\ sc.size = old.size
           /\ sc.selected # old.selected => sc.selected = NoOne
<1>1. PICK nodes : nodes = Nodes(d)
  OBVIOUS
<1>2. nodes = [i \in DOMAIN nodes |-> nodes[i]]
  BY <1>1 DEF Nodes
<1>3. PICK limitMoved \in BOOLEAN : limitMoved = (d.limit # old.limit)
  OBVIOUS
<1>4. PICK synced \in BOOLEAN : synced
  OBVIOUS
<1>5. PICK sc : sc = [old EXCEPT !.limit = d.limit, !.synced = synced]
  OBVIOUS
<1>6. /\ sc = [mounted |-> old.mounted, synced |-> synced, limit |-> d.limit, bodies |-> old.bodies,
               hidden |-> old.hidden, size |-> old.size, selected |-> old.selected,
               hovered |-> old.hovered, ring |-> old.ring, pings |-> old.pings]
  BY <1>5 DEF WellDrawn, IsRenderer
<1>7. PICK bodies : bodies = [i \in DOMAIN nodes |->
                                IF i \in DOMAIN old.bodies
                                THEN Updated(old.bodies[i], nodes[i], sc, limitMoved)
                                ELSE NewBody(nodes[i], sc)]
  OBVIOUS
<1>8. bodies = [i \in DOMAIN nodes |-> NewBody(nodes[i], sc)]
  <2>1. SUFFICES ASSUME NEW i \in DOMAIN nodes, i \in DOMAIN old.bodies
                 PROVE  Updated(old.bodies[i], nodes[i], sc, limitMoved) = NewBody(nodes[i], sc)
    BY <1>7
  <2>2. PICK m : m = old.bodies[i].node
    OBVIOUS
  <2>3. old.bodies[i] = NewBody(m, old)
    BY <2>1, <2>2 DEF WellDrawn, BodiesFit
  <2>4. PICK n : n = nodes[i]
    OBVIOUS
  <2>5. sc.hidden = old.hidden /\ sc.size = old.size /\ (~limitMoved => sc.limit = old.limit)
    BY <1>3, <1>6
  <2>6. Updated(NewBody(m, old), n, sc, limitMoved) = NewBody(n, sc)
    BY <2>5, UpdatedFits
  <2> QED
    BY <2>3, <2>4, <2>6
<1>9. PICK pings : pings = (sc.pings \cup {i \in DOMAIN nodes :
                                             IF i \in DOMAIN old.bodies THEN old.bodies[i].node # nodes[i]
                                             ELSE old.synced}) \cap DOMAIN nodes
  OBVIOUS
<1>10. PICK hovered : hovered = IF sc.hovered \in DOMAIN nodes THEN sc.hovered ELSE NoOne
  OBVIOUS
<1>11. PICK left : left = [sc EXCEPT !.bodies = bodies, !.pings = pings, !.hovered = hovered]
  OBVIOUS
<1>12. left = [mounted |-> old.mounted, synced |-> synced, limit |-> d.limit, bodies |-> bodies,
               hidden |-> old.hidden, size |-> old.size, selected |-> old.selected,
               hovered |-> hovered, ring |-> old.ring, pings |-> pings]
  BY <1>6, <1>11
<1>13. PICK ring \in BOOLEAN : ring = FALSE
  OBVIOUS
<1>14. PICK alone : alone = [left EXCEPT !.selected = NoOne, !.ring = ring]
  OBVIOUS
<1>15. alone = [mounted |-> old.mounted, synced |-> synced, limit |-> d.limit, bodies |-> bodies,
                hidden |-> old.hidden, size |-> old.size, selected |-> NoOne,
                hovered |-> hovered, ring |-> ring, pings |-> pings]
  BY <1>12, <1>14
<1>16. PICK new : new = IF sc.selected \in DOMAIN nodes \cup {NoOne} THEN left ELSE alone
  OBVIOUS
<1>17. new = Sync(old, d)
  BY <1>1, <1>3, <1>4, <1>5, <1>7, <1>9, <1>10, <1>11, <1>13, <1>14, <1>16 DEF Sync, Selected
<1>18. /\ new.mounted = old.mounted /\ new.hidden = old.hidden /\ new.size = old.size
       /\ new.bodies = bodies /\ new.limit = d.limit /\ new.pings = pings /\ new.hovered = hovered
       /\ new.selected \in DOMAIN nodes \cup {NoOne}
       /\ new.selected # old.selected => new.selected = NoOne
       /\ new.ring \in BOOLEAN /\ (new.ring => new.selected # NoOne)
       /\ IsRenderer(new)
  BY <1>6, <1>12, <1>13, <1>15, <1>16 DEF IsRenderer, WellDrawn, PointsAtBodies
<1>19. DOMAIN bodies = DOMAIN nodes /\ \A i \in DOMAIN nodes : bodies[i].node = nodes[i]
  BY <1>8, NodeOfBody
<1>20. BodiesFit(new)
  <2>1. \A i \in DOMAIN nodes : NewBody(nodes[i], sc) = NewBody(nodes[i], new)
    BY <1>6, <1>18 DEF NewBody
  <2> QED
    BY <1>8, <1>18, <1>19, <2>1 DEF BodiesFit
<1>21. PointsAtBodies(new)
  BY <1>9, <1>10, <1>18, <1>19 DEF PointsAtBodies
<1>22. Follows(new, d)
  BY <1>1, <1>18, <1>19 DEF Follows
<1> QED
  BY <1>17, <1>18, <1>20, <1>21, <1>22 DEF WellDrawn

\* The legend and the slider reach every body there is.
LEMMA HideFits ==
    ASSUME NEW old, WellDrawn(old), NEW hidden
    PROVE  LET sc == Hide(old, hidden) IN
           /\ WellDrawn(sc) /\ sc.hidden = hidden /\ sc.size = old.size /\ sc.mounted = old.mounted
           /\ sc.selected = old.selected
           /\ \A d : Follows(old, d) => Follows(sc, d)
<1>1. PICK bodies : bodies = [i \in DOMAIN old.bodies |->
                                [old.bodies[i] EXCEPT !.shown = old.bodies[i].node.status \notin hidden]]
  OBVIOUS
<1>2. PICK new : new = [old EXCEPT !.hidden = hidden, !.bodies = bodies]
  OBVIOUS
<1>3. new = Hide(old, hidden)
  BY <1>1, <1>2 DEF Hide
<1>4. /\ new = [mounted |-> old.mounted, synced |-> old.synced, limit |-> old.limit, bodies |-> bodies,
                hidden |-> hidden, size |-> old.size, selected |-> old.selected,
                hovered |-> old.hovered, ring |-> old.ring, pings |-> old.pings]
  BY <1>2 DEF WellDrawn, IsRenderer
<1>5. ASSUME NEW i \in DOMAIN old.bodies
      PROVE  bodies[i] = NewBody(old.bodies[i].node, new)
  <2>1. PICK n : n = old.bodies[i].node
    OBVIOUS
  <2>2. old.bodies[i] = NewBody(n, old)
    BY <2>1 DEF WellDrawn, BodiesFit
  <2>3. bodies[i] = [NewBody(n, old) EXCEPT !.shown = n.status \notin hidden]
    BY <1>1, <2>1, <2>2
  <2> QED
    BY <1>4, <2>1, <2>3 DEF NewBody
<1>6. \A i \in DOMAIN bodies : bodies[i].node = old.bodies[i].node
  BY <1>1, <1>5, NodeOfBody
<1>7. BodiesFit(new) /\ DOMAIN bodies = DOMAIN old.bodies
  <2>1. DOMAIN bodies = DOMAIN old.bodies /\ bodies = [i \in DOMAIN bodies |-> bodies[i]]
    BY <1>1
  <2>2. \A i \in DOMAIN bodies : bodies[i] = NewBody(bodies[i].node, new)
    BY <1>5, <1>6, <2>1
  <2>3. new.bodies = bodies
    BY <1>4
  <2> QED
    BY <2>1, <2>2, <2>3 DEF BodiesFit
<1>8. IsRenderer(new) /\ PointsAtBodies(new)
  BY <1>4, <1>7 DEF IsRenderer, WellDrawn, PointsAtBodies
<1>9. \A d : Follows(old, d) => Follows(new, d)
  BY <1>4, <1>6, <1>7 DEF Follows
<1> QED
  BY <1>3, <1>4, <1>7, <1>8, <1>9 DEF WellDrawn

LEMMA ResizeFits ==
    ASSUME NEW old, WellDrawn(old), NEW size
    PROVE  LET sc == Resize(old, size) IN
           /\ WellDrawn(sc) /\ sc.hidden = old.hidden /\ sc.size = size /\ sc.mounted = old.mounted
           /\ sc.selected = old.selected
           /\ \A d : Follows(old, d) => Follows(sc, d)
<1>1. PICK bodies : bodies = [i \in DOMAIN old.bodies |->
                                [old.bodies[i] EXCEPT !.size = SizeOf(old.bodies[i].node, old.limit, size)]]
  OBVIOUS
<1>2. PICK new : new = [old EXCEPT !.size = size, !.bodies = bodies]
  OBVIOUS
<1>3. new = Resize(old, size)
  BY <1>1, <1>2 DEF Resize
<1>4. /\ new = [mounted |-> old.mounted, synced |-> old.synced, limit |-> old.limit, bodies |-> bodies,
                hidden |-> old.hidden, size |-> size, selected |-> old.selected,
                hovered |-> old.hovered, ring |-> old.ring, pings |-> old.pings]
  BY <1>2 DEF WellDrawn, IsRenderer
<1>5. ASSUME NEW i \in DOMAIN old.bodies
      PROVE  bodies[i] = NewBody(old.bodies[i].node, new)
  <2>1. PICK n : n = old.bodies[i].node
    OBVIOUS
  <2>2. old.bodies[i] = NewBody(n, old)
    BY <2>1 DEF WellDrawn, BodiesFit
  <2>3. bodies[i] = [NewBody(n, old) EXCEPT !.size = SizeOf(n, old.limit, size)]
    BY <1>1, <2>1, <2>2
  <2> QED
    BY <1>4, <2>1, <2>3 DEF NewBody
<1>6. \A i \in DOMAIN bodies : bodies[i].node = old.bodies[i].node
  BY <1>1, <1>5, NodeOfBody
<1>7. BodiesFit(new) /\ DOMAIN bodies = DOMAIN old.bodies
  <2>1. DOMAIN bodies = DOMAIN old.bodies /\ bodies = [i \in DOMAIN bodies |-> bodies[i]]
    BY <1>1
  <2>2. \A i \in DOMAIN bodies : bodies[i] = NewBody(bodies[i].node, new)
    BY <1>5, <1>6, <2>1
  <2>3. new.bodies = bodies
    BY <1>4
  <2> QED
    BY <2>1, <2>2, <2>3 DEF BodiesFit
<1>8. IsRenderer(new) /\ PointsAtBodies(new)
  BY <1>4, <1>7 DEF IsRenderer, WellDrawn, PointsAtBodies
<1>9. \A d : Follows(old, d) => Follows(new, d)
  BY <1>4, <1>6, <1>7 DEF Follows
<1> QED
  BY <1>3, <1>4, <1>7, <1>8, <1>9 DEF WellDrawn

LEMMA DrawKeeps ==
    ASSUME StageInv, NEW d, Draw(d)
    PROVE  StageInv'
<1>1. UNCHANGED look /\ drawn' = d /\ scene' = Synced(scene, d)
      /\ chosen' = IF scene.selected # scene'.selected THEN NoOne ELSE chosen
  BY DEF Draw
<1>2. CASE scene.mounted /\ d.limit > 0
  <2>1. PICK old, sc : old = scene /\ sc = Sync(old, d)
    OBVIOUS
  <2>2. WellDrawn(old) /\ old.hidden = look.hidden /\ old.size = look.size /\ old.selected = chosen
    BY <1>2, <2>1 DEF StageInv
  <2>3. /\ WellDrawn(sc) /\ Follows(sc, d)
        /\ sc.mounted = old.mounted /\ sc.hidden = old.hidden /\ sc.size = old.size
        /\ sc.selected # old.selected => sc.selected = NoOne
    BY <2>1, <2>2, SyncFollows
  <2>4. scene' = sc
    BY <1>1, <1>2, <2>1 DEF Synced
  <2> QED
    BY <1>1, <1>2, <2>1, <2>2, <2>3, <2>4 DEF StageInv
<1>3. CASE ~(scene.mounted /\ d.limit > 0)
  <2>1. scene' = scene
    BY <1>1, <1>3 DEF Synced
  <2>2. chosen' = chosen
    BY <1>1, <2>1
  <2>3. scene.mounted => Follows(scene, d)
    BY <1>3 DEF Follows
  <2> QED
    BY <1>1, <2>1, <2>2, <2>3 DEF StageInv
<1> QED
  BY <1>2, <1>3

LEMMA MountKeeps ==
    ASSUME StageInv, Mount
    PROVE  StageInv'
<1>1. UNCHANGED <<drawn, look, chosen>> /\ ~scene.mounted /\ chosen = NoOne
  BY DEF StageInv, Mount
<1>2. PICK yes \in BOOLEAN : yes
  OBVIOUS
<1>3. PICK bare : bare = [NoScene EXCEPT !.mounted = yes, !.size = 1]
  OBVIOUS
<1>4. /\ IsRenderer(bare) /\ bare.mounted /\ bare.selected = NoOne /\ DOMAIN bare.bodies = {}
      /\ bare.hovered = NoOne /\ bare.pings = {} /\ bare.ring = FALSE
      /\ bare.bodies = [i \in {} |-> 0]
  BY <1>2, <1>3 DEF NoScene, IsRenderer
<1>5. WellDrawn(bare)
  BY <1>4 DEF WellDrawn, BodiesFit, PointsAtBodies
<1>6. PICK d : d = drawn
  OBVIOUS
<1>7. PICK fresh : fresh = Synced(bare, d)
  OBVIOUS
<1>8. WellDrawn(fresh) /\ Follows(fresh, d) /\ fresh.mounted /\ fresh.selected = NoOne
  <2>1. CASE d.limit > 0
    <3>1. fresh = Sync(bare, d)
      BY <1>4, <1>7, <2>1 DEF Synced
    <3> QED
      BY <1>4, <1>5, <3>1, SyncFollows
  <2>2. CASE ~(d.limit > 0)
    BY <1>4, <1>5, <1>7, <2>2 DEF Synced, Follows
  <2> QED
    BY <2>1, <2>2
<1>9. PICK hiding : hiding = Hide(fresh, look.hidden)
  OBVIOUS
<1>10. /\ WellDrawn(hiding) /\ Follows(hiding, d) /\ hiding.mounted /\ hiding.selected = NoOne
       /\ hiding.hidden = look.hidden
  BY <1>8, <1>9, HideFits
<1>11. PICK sc : sc = Resize(hiding, look.size)
  OBVIOUS
<1>12. /\ WellDrawn(sc) /\ Follows(sc, d) /\ sc.mounted /\ sc.selected = NoOne
       /\ sc.hidden = look.hidden /\ sc.size = look.size
  BY <1>10, <1>11, ResizeFits
<1>13. scene' = sc
  BY <1>2, <1>3, <1>6, <1>7, <1>9, <1>11 DEF Mount
<1> QED
  BY <1>1, <1>6, <1>12, <1>13 DEF StageInv

LEMMA LooksKeep ==
    ASSUME StageInv, (\E st \in Status : ToggleStatus(st)) \/ (\E size \in Sizes : SetSize(size))
    PROVE  StageInv'
<1>1. UNCHANGED <<drawn, chosen>> /\ look' = [hidden |-> look'.hidden, size |-> look'.size]
  BY DEF StageInv, ToggleStatus, SetSize
<1>2. PICK old, d : old = scene /\ d = drawn
  OBVIOUS
<1>3. CASE \E st \in Status : ToggleStatus(st)
  <2>1. PICK hidden : hidden = look'.hidden
    OBVIOUS
  <2>2. look'.size = look.size /\ scene' = IF scene.mounted THEN Hide(old, hidden) ELSE scene
    BY <1>2, <1>3, <2>1 DEF StageInv, ToggleStatus
  <2>3. CASE ~scene.mounted
    BY <1>1, <2>2, <2>3 DEF StageInv
  <2>4. CASE scene.mounted
    <3>1. WellDrawn(old) /\ Follows(old, d) /\ old.size = look.size /\ old.selected = chosen
      BY <1>2, <2>4 DEF StageInv
    <3>2. PICK sc : sc = Hide(old, hidden)
      OBVIOUS
    <3>3. /\ WellDrawn(sc) /\ sc.hidden = hidden /\ sc.size = old.size /\ sc.mounted = old.mounted
          /\ sc.selected = old.selected /\ Follows(sc, d)
      BY <3>1, <3>2, HideFits
    <3>4. scene' = sc
      BY <2>2, <2>4, <3>2
    <3> QED
      BY <1>1, <1>2, <2>1, <2>2, <2>4, <3>1, <3>3, <3>4 DEF StageInv
  <2> QED
    BY <2>3, <2>4
<1>4. CASE \E size \in Sizes : SetSize(size)
  <2>1. PICK size : size = look'.size
    OBVIOUS
  <2>2. look'.hidden = look.hidden /\ scene' = IF scene.mounted THEN Resize(old, size) ELSE scene
    BY <1>2, <1>4, <2>1 DEF StageInv, SetSize
  <2>3. CASE ~scene.mounted
    BY <1>1, <2>2, <2>3 DEF StageInv
  <2>4. CASE scene.mounted
    <3>1. WellDrawn(old) /\ Follows(old, d) /\ old.hidden = look.hidden /\ old.selected = chosen
      BY <1>2, <2>4 DEF StageInv
    <3>2. PICK sc : sc = Resize(old, size)
      OBVIOUS
    <3>3. /\ WellDrawn(sc) /\ sc.hidden = old.hidden /\ sc.size = size /\ sc.mounted = old.mounted
          /\ sc.selected = old.selected /\ Follows(sc, d)
      BY <3>1, <3>2, ResizeFits
    <3>4. scene' = sc
      BY <2>2, <2>4, <3>2
    <3> QED
      BY <1>1, <1>2, <2>1, <2>2, <2>4, <3>1, <3>3, <3>4 DEF StageInv
  <2> QED
    BY <2>3, <2>4
<1> QED
  BY <1>3, <1>4

\* The pointer, the panel and the animation move what points at bodies alone.
LEMMA PointerKeeps ==
    ASSUME StageInv, NEW selected, NEW hovered, NEW ring \in BOOLEAN, NEW pings,
           scene.mounted, UNCHANGED <<drawn, look>>,
           scene' = [scene EXCEPT !.selected = selected, !.hovered = hovered, !.ring = ring,
                                  !.pings = pings],
           chosen' = selected,
           selected \in DOMAIN scene.bodies \cup {NoOne},
           pings \cup {hovered} \subseteq DOMAIN scene.bodies \cup {NoOne},
           ring => selected # NoOne
    PROVE  StageInv'
<1>1. PICK old, new : old = scene /\ new = scene'
  OBVIOUS
<1>2. /\ WellDrawn(old) /\ Follows(old, drawn)
      /\ old.hidden = look.hidden /\ old.size = look.size /\ old.mounted
  BY <1>1 DEF StageInv
<1>3. new = [mounted |-> old.mounted, synced |-> old.synced, limit |-> old.limit,
             bodies |-> old.bodies, hidden |-> old.hidden, size |-> old.size,
             selected |-> selected, hovered |-> hovered, ring |-> ring, pings |-> pings]
  <2>1. new = [old EXCEPT !.selected = selected, !.hovered = hovered, !.ring = ring, !.pings = pings]
    BY <1>1
  <2> QED
    BY <1>2, <2>1 DEF WellDrawn, IsRenderer
<1>4. IsRenderer(new)
  BY <1>3 DEF IsRenderer
<1>5. PointsAtBodies(new)
  BY <1>1, <1>3 DEF PointsAtBodies
<1>6. BodiesFit(new)
  BY <1>2, <1>3 DEF BodiesFit, WellDrawn, NewBody
<1>7. Follows(new, drawn)
  BY <1>2, <1>3 DEF Follows
<1>8. new.mounted /\ new.hidden = look.hidden /\ new.size = look.size /\ new.selected = chosen'
  BY <1>2, <1>3
<1> QED
  BY <1>1, <1>4, <1>5, <1>6, <1>7, <1>8 DEF StageInv, WellDrawn

LEMMA ClickKeeps ==
    ASSUME StageInv, scene.mounted, NEW i \in DOMAIN scene.bodies \cup {NoOne}, Click(i)
    PROVE  StageInv'
<1>1. IsRenderer(scene) /\ PointsAtBodies(scene)
  BY DEF StageInv, WellDrawn
<1>2. PICK ring \in BOOLEAN : ring = (i # NoOne /\ scene.ring)
  BY <1>1 DEF PointsAtBodies
<1>3. PICK hovered, pings : hovered = scene.hovered /\ pings = scene.pings
  OBVIOUS
<1>4. scene' = [scene EXCEPT !.selected = i, !.hovered = hovered, !.ring = ring, !.pings = pings]
  BY <1>3, <1>1, <1>2 DEF Click, Selected, IsRenderer
<1>5. UNCHANGED <<drawn, look>> /\ chosen' = i
  BY DEF Click
<1>6. pings \cup {hovered} \subseteq DOMAIN scene.bodies \cup {NoOne}
  BY <1>3, <1>1 DEF PointsAtBodies
<1>7. ring => i # NoOne
  BY <1>2
<1> QED
  BY <1>4, <1>5, <1>6, <1>7, PointerKeeps

LEMMA PointKeeps ==
    ASSUME StageInv, scene.mounted, NEW i \in DOMAIN scene.bodies \cup {NoOne}, PointerMove(i)
    PROVE  StageInv'
<1>1. IsRenderer(scene) /\ PointsAtBodies(scene) /\ scene.selected = chosen
  BY DEF StageInv, WellDrawn
<1>2. PICK ring \in BOOLEAN : ring = scene.ring
  BY <1>1 DEF PointsAtBodies
<1>3. scene' = [scene EXCEPT !.selected = chosen, !.hovered = i, !.ring = ring,
                             !.pings = scene.pings]
  BY <1>1, <1>2 DEF PointerMove, IsRenderer
<1>4. UNCHANGED <<drawn, look>> /\ chosen' = chosen
  BY DEF PointerMove
<1>5. scene.pings \cup {i} \subseteq DOMAIN scene.bodies \cup {NoOne}
      /\ chosen \in DOMAIN scene.bodies \cup {NoOne} /\ (ring => chosen # NoOne)
  BY <1>1, <1>2 DEF PointsAtBodies
<1> QED
  BY <1>3, <1>4, <1>5, PointerKeeps

LEMMA AnimateKeeps ==
    ASSUME StageInv, Animate
    PROVE  StageInv'
<1>1. IsRenderer(scene) /\ PointsAtBodies(scene) /\ BodiesFit(scene) /\ scene.selected = chosen
      /\ scene.mounted /\ UNCHANGED <<drawn, look, chosen>>
  BY DEF StageInv, WellDrawn, Animate
<1>2. PICK ended \in SUBSET scene.pings :
         scene' = [scene EXCEPT !.pings = @ \ ended,
                                !.ring = IF scene.selected = NoOne THEN @
                                         ELSE scene.bodies[scene.selected].shown]
  BY DEF Animate
<1>3. chosen # NoOne => scene.bodies[chosen].shown \in BOOLEAN
  <2>1. SUFFICES ASSUME chosen # NoOne PROVE scene.bodies[chosen].shown \in BOOLEAN
    OBVIOUS
  <2>2. chosen \in DOMAIN scene.bodies
    BY <1>1, <2>1 DEF PointsAtBodies
  <2>3. PICK n : scene.bodies[chosen] = NewBody(n, scene)
    BY <1>1, <2>2 DEF BodiesFit
  <2> QED
    BY <2>3 DEF NewBody
<1>4. PICK ring \in BOOLEAN : ring = IF chosen = NoOne THEN scene.ring ELSE scene.bodies[chosen].shown
  BY <1>1, <1>3 DEF PointsAtBodies
<1>5. PICK pings, hovered : pings = scene.pings \ ended /\ hovered = scene.hovered
  OBVIOUS
<1>6. PICK selected : selected = chosen
  OBVIOUS
<1>7. scene' = [scene EXCEPT !.selected = selected, !.hovered = hovered, !.ring = ring,
                             !.pings = pings]
  BY <1>1, <1>2, <1>4, <1>5, <1>6 DEF IsRenderer
<1>8. selected \in DOMAIN scene.bodies \cup {NoOne}
      /\ pings \cup {hovered} \subseteq DOMAIN scene.bodies \cup {NoOne}
  BY <1>1, <1>5, <1>6 DEF PointsAtBodies
<1>9. ring => selected # NoOne
  BY <1>1, <1>4, <1>6 DEF PointsAtBodies
<1>10. scene.mounted /\ UNCHANGED <<drawn, look>> /\ chosen' = selected
  BY <1>1, <1>6
<1> QED
  BY <1>7, <1>8, <1>9, <1>10, PointerKeeps

LEMMA StageStepKeeps ==
    ASSUME StageInv, [StageNext]_stageVars
    PROVE  StageInv'
<1>1. ASSUME NEW f \in Frames, NEW l \in Limits, NEW m \in Masses,
             Draw([holders |-> EcoHolders(f, l), limit |-> l, mass |-> m])
      PROVE  StageInv'
  BY <1>1, DrawKeeps
<1>2. CASE Mount
  BY <1>2, MountKeeps
<1>3. CASE Close
  <2>1. scene.mounted
    BY <1>3 DEF Close, StageInv
  <2> QED
    BY <1>3, <2>1, ClickKeeps DEF Close
<1>4. CASE Animate
  BY <1>4, AnimateKeeps
<1>5. CASE (\E st \in Status : ToggleStatus(st)) \/ (\E size \in Sizes : SetSize(size))
  BY <1>5, LooksKeep
<1>6. ASSUME scene.mounted, NEW i \in Hits, PointerMove(i) \/ Click(i)
      PROVE  StageInv'
  <2>1. i \in DOMAIN scene.bodies \cup {NoOne}
    BY <1>6 DEF Hits
  <2> QED
    BY <1>6, <2>1, PointKeeps, ClickKeeps
<1>7. CASE UNCHANGED stageVars
  BY <1>7 DEF stageVars, StageInv
<1> QED
  BY <1>1, <1>2, <1>3, <1>4, <1>5, <1>6, <1>7 DEF StageNext

LEMMA StageInvariance == StageSpec => []StageInv
<1>1. StageInit => StageInv
  BY DEF StageInit, StageInv, NoScene
<1>2. StageInv /\ [StageNext]_stageVars => StageInv'
  BY StageStepKeeps
<1> QED
  BY <1>1, <1>2, PTL DEF StageSpec

\* components/ecosystem/scene.ts: what the renderer shows is what React holds,
\* for any snapshots, limits, settings and orders of the events that carry them.
THEOREM SceneShowsPage == StageSpec => []SceneMatchesPage
<1>1. StageInv => SceneMatchesPage
  <2> SUFFICES ASSUME StageInv, scene.mounted PROVE SceneMatchesPage
    BY DEF SceneMatchesPage
  <2>1. PICK sc, nodes : sc = scene /\ nodes = Nodes(drawn)
    OBVIOUS
  <2>2. /\ BodiesFit(sc) /\ PointsAtBodies(sc) /\ Follows(sc, drawn)
        /\ sc.hidden = look.hidden /\ sc.size = look.size /\ sc.selected = chosen
    BY <2>1 DEF StageInv, WellDrawn
  <2>3. PICK s : s = [limit |-> drawn.limit, size |-> look.size, hidden |-> look.hidden]
    OBVIOUS
  <2>4. drawn.limit > 0 => sc.bodies = [i \in DOMAIN nodes |-> NewBody(nodes[i], s)]
    <3> SUFFICES ASSUME drawn.limit > 0 PROVE sc.bodies = [i \in DOMAIN nodes |-> NewBody(nodes[i], s)]
      OBVIOUS
    <3>1. sc.limit = drawn.limit /\ DOMAIN sc.bodies = DOMAIN nodes
          /\ \A i \in DOMAIN nodes : sc.bodies[i].node = nodes[i]
      BY <2>1, <2>2 DEF Follows
    <3>2. \A i \in DOMAIN nodes : NewBody(sc.bodies[i].node, sc) = NewBody(nodes[i], s)
      BY <2>2, <2>3, <3>1 DEF NewBody
    <3> QED
      BY <2>2, <3>1, <3>2 DEF BodiesFit
  <2>5. sc.selected = chosen /\ chosen \in DOMAIN sc.bodies \cup {NoOne} /\ (sc.ring => chosen # NoOne)
        /\ sc.pings \cup {sc.hovered} \subseteq DOMAIN sc.bodies \cup {NoOne}
    BY <2>2 DEF PointsAtBodies
  <2> QED
    BY <2>1, <2>3, <2>4, <2>5 DEF SceneMatchesPage
<1> QED
  BY <1>1, StageInvariance, PTL

-----------------------------------------------------------------------------
(***************************************************************************)
(* The proofs about AdminTools: what a button shows of its press is so,    *)
(* for any cards, presses and sequence numbers.                            *)
(***************************************************************************)

Sent   == [press : Nat, tx : {"call", "restore"}, seq : Nat]
Result == {"none", "success", "refused", "failed", "threw"}
Calls  == [button : Button, mount : Nat, press : Nat, step : {"build", "sign", "send", "poll"},
           tx : {"call", "restore"}, restored : BOOLEAN, seq : Nat]

Wire == [presses : Nat, seq : Nat, archived : BOOLEAN, pending : SUBSET Sent,
         landed : SUBSET Sent, failed : SUBSET Sent]

OnWire == chain.pending \cup chain.landed \cup chain.failed

\* The calls, not the restores, of a press.
CallsOf(set, press) == {tx \in set : tx.press = press /\ tx.tx = "call"}

ToolsTyped ==
    /\ card.mount \in Nat /\ chain \in Wire /\ toolCalls \subseteq Calls
    /\ buttons \in [Button -> [loading : BOOLEAN, result : Result, press : Nat]]

\* Each press is one call at most, and nothing is of a press to come.
PressesCount ==
    /\ \A c \in toolCalls : c.press <= chain.presses
    /\ \A c, d \in toolCalls : c.press = d.press => c = d
    /\ \A tx \in OnWire : tx.press <= chain.presses
    /\ \A b \in Button : buttons[b].press <= chain.presses

\* A call is on the wire only while its press polls for it.
OnceOnWire ==
    /\ \A c \in toolCalls : \A tx \in CallsOf(OnWire, c.press) :
          c.step = "poll" /\ c.tx = "call" /\ tx = Tx(c)
    /\ \A tx \in chain.pending : tx.tx = "call" => tx \notin chain.landed \cup chain.failed

\* What a button shows of its press.
ShownIsTrue(b) ==
    LET press == buttons[b].press IN
    /\ buttons[b].result = "success" => CallsOf(chain.landed, press) # {}
    /\ buttons[b].result \in {"refused", "failed"} =>
          /\ CallsOf(chain.landed, press) = {} /\ CallsOf(chain.pending, press) = {}
          /\ \A c \in toolCalls : c.press # press

ToolsInv ==
    ToolsTyped /\ PressesCount /\ OnceOnWire /\ \A b \in Button : ShownIsTrue(b)

LEMMA ToolsStart ==
    ASSUME ToolsInit
    PROVE  ToolsInv
<1>1. chain \in Wire /\ chain.presses = 0 /\ OnWire = {}
  BY DEF ToolsInit, Wire, OnWire
<1>2. Unpressed \in [loading : BOOLEAN, result : Result, press : Nat]
      /\ Unpressed.press = 0 /\ Unpressed.result = "none"
  BY DEF Unpressed, Result
<1>3. /\ toolCalls = {} /\ card.mount = 0 /\ buttons = [b \in Button |-> Unpressed]
  BY DEF ToolsInit, NoCard
<1>4. ToolsTyped
  BY <1>1, <1>2, <1>3 DEF ToolsTyped
<1>5. PressesCount
  BY <1>1, <1>2, <1>3 DEF PressesCount
<1>6. OnceOnWire
  BY <1>1, <1>3 DEF OnceOnWire, OnWire
<1>7. \A b \in Button : ShownIsTrue(b)
  BY <1>2, <1>3 DEF ShownIsTrue
<1> QED
  BY <1>4, <1>5, <1>6, <1>7 DEF ToolsInv

LEMMA ToggleKeeps ==
    ASSUME ToolsInv, NEW c \in Shown, Toggle(c)
    PROVE  ToolsInv'
<1>1. /\ UNCHANGED <<toolCalls, chain>> /\ card'.mount = card.mount + 1
      /\ buttons' = [b \in Button |-> Unpressed]
  BY DEF Toggle
<1>2. Unpressed \in [loading : BOOLEAN, result : Result, press : Nat]
      /\ Unpressed.press = 0 /\ Unpressed.result = "none"
  BY DEF Unpressed, Result
<1>3. ToolsTyped'
  BY <1>1, <1>2 DEF ToolsInv, ToolsTyped
<1>4. PressesCount'
  BY <1>1, <1>2 DEF ToolsInv, ToolsTyped, PressesCount, OnWire, Wire
<1>5. OnceOnWire'
  BY <1>1 DEF ToolsInv, OnceOnWire, OnWire, CallsOf, Tx
<1>6. (\A b \in Button : ShownIsTrue(b))'
  BY <1>1, <1>2 DEF ShownIsTrue
<1> QED
  BY <1>3, <1>4, <1>5, <1>6 DEF ToolsInv

\* A press is counted, and is of no call there was before.
LEMMA PressKeepsTools ==
    ASSUME ToolsInv, NEW b \in Button, NEW junk \in BOOLEAN, PressTool(b, junk)
    PROVE  ToolsInv'
<1>1. PICK press, wire : press = chain.presses + 1 /\ wire = chain
  OBVIOUS
<1>2. press \in Nat /\ press > chain.presses /\ chain.presses \in Nat /\ wire \in Wire
      /\ card.mount \in Nat
  BY <1>1 DEF ToolsInv, ToolsTyped, Wire
<1>3. PICK new : new = [wire EXCEPT !.presses = press]
  OBVIOUS
<1>4. /\ chain' = new /\ new \in Wire /\ new.presses = press /\ new.pending = chain.pending
      /\ new.landed = chain.landed /\ new.failed = chain.failed
  <2>1. chain' = new
    BY <1>1, <1>3 DEF PressTool
  <2> QED
    BY <1>1, <1>2, <1>3, <2>1 DEF Wire
<1>5. OnWire' = OnWire
  BY <1>4 DEF OnWire
<1>6. PICK face : face = Shows(IF junk THEN "threw" ELSE "none", press)
  OBVIOUS
<1>7. face \in [loading : BOOLEAN, result : Result, press : Nat] /\ face.press = press
      /\ face.result \in {"threw", "none"}
  BY <1>2, <1>6 DEF Shows, Result
<1>8. buttons' = [buttons EXCEPT ![b] = face] /\ card' = card
  BY <1>1, <1>6 DEF PressTool
<1>9. PICK call : call = [button |-> b, mount |-> card.mount, press |-> press, step |-> "build",
                          tx |-> "call", restored |-> FALSE, seq |-> 0]
  OBVIOUS
<1>10. call \in Calls /\ call.press = press /\ call.step = "build"
  BY <1>2, <1>9 DEF Calls
<1>11. toolCalls' = toolCalls \/ toolCalls' = toolCalls \cup {call}
  BY <1>1, <1>9 DEF PressTool
<1>12. ToolsTyped'
  BY <1>4, <1>7, <1>8, <1>10, <1>11 DEF ToolsInv, ToolsTyped
<1>13. PressesCount'
  <2>1. /\ \A c \in toolCalls : c.press <= chain.presses /\ c.press \in Nat
        /\ \A c, d \in toolCalls : c.press = d.press => c = d
        /\ \A tx \in OnWire : tx.press <= chain.presses /\ tx.press \in Nat
        /\ \A x \in Button : buttons[x].press <= chain.presses /\ buttons[x].press \in Nat
    BY <1>1, <1>2 DEF ToolsInv, ToolsTyped, PressesCount, Calls, OnWire, Wire, Sent
  <2>2. \A c \in toolCalls' : c.press <= press
    BY <1>2, <1>10, <1>11, <2>1
  <2>3. \A c, d \in toolCalls' : c.press = d.press => c = d
    BY <1>2, <1>10, <1>11, <2>1
  <2>4. \A tx \in OnWire' : tx.press <= press
    BY <1>2, <1>5, <2>1
  <2>5. \A x \in Button : buttons'[x].press <= press
    BY <1>2, <1>7, <1>8, <2>1 DEF ToolsInv, ToolsTyped
  <2> QED
    BY <1>4, <2>2, <2>3, <2>4, <2>5 DEF PressesCount
<1>14. OnceOnWire'
  <2>1. CallsOf(OnWire, press) = {}
    BY <1>2 DEF ToolsInv, PressesCount, CallsOf
  <2>2. \A c \in toolCalls' : \A tx \in CallsOf(OnWire, c.press) :
           c.step = "poll" /\ c.tx = "call" /\ tx = Tx(c)
    BY <1>10, <1>11, <2>1 DEF ToolsInv, OnceOnWire
  <2> QED
    BY <1>4, <1>5, <2>2 DEF ToolsInv, OnceOnWire, CallsOf, Tx
<1>15. ASSUME NEW x \in Button PROVE ShownIsTrue(x)'
  <2>1. CASE x = b
    BY <1>7, <1>8, <2>1 DEF ShownIsTrue, ToolsInv, ToolsTyped
  <2>2. CASE x # b
    <3>1. buttons'[x] = buttons[x]
      BY <1>8, <2>2
    <3>2. buttons[x].press # press
      BY <1>2 DEF ToolsInv, ToolsTyped, PressesCount
    <3>3. ShownIsTrue(x)
      BY DEF ToolsInv
    <3> QED
      BY <1>4, <1>10, <1>11, <3>1, <3>2, <3>3 DEF ShownIsTrue, CallsOf
  <2> QED
    BY <2>1, <2>2
<1> QED
  BY <1>12, <1>13, <1>14, <1>15 DEF ToolsInv

\* A call that has nothing of its own on the wire goes on.
LEMMA CallGoesOn ==
    ASSUME ToolsInv, NEW c \in toolCalls, NEW d \in Calls, d.press = c.press,
           CallsOf(OnWire, c.press) = {}, To(c, d), UNCHANGED <<card, buttons, chain>>
    PROVE  ToolsInv'
<1>1. toolCalls' = (toolCalls \ {c}) \cup {d} /\ OnWire' = OnWire
  BY DEF To, OnWire
<1>2. ToolsTyped'
  BY <1>1 DEF ToolsInv, ToolsTyped
<1>3. PressesCount'
  BY <1>1 DEF ToolsInv, PressesCount
<1>4. OnceOnWire'
  <2>1. \A x \in toolCalls' : \A tx \in CallsOf(OnWire, x.press) :
           x.step = "poll" /\ x.tx = "call" /\ tx = Tx(x)
    BY <1>1 DEF ToolsInv, OnceOnWire
  <2> QED
    BY <1>1, <2>1 DEF ToolsInv, OnceOnWire, CallsOf, Tx
<1>5. (\A b \in Button : ShownIsTrue(b))'
  BY <1>1 DEF ToolsInv, ShownIsTrue
<1> QED
  BY <1>2, <1>3, <1>4, <1>5 DEF ToolsInv

\* A call ends with what is so of it.
LEMMA CallEnds ==
    ASSUME ToolsInv, NEW c \in toolCalls, NEW result \in Result, Ends(c, result),
           result = "success" => CallsOf(chain.landed, c.press) # {},
           result \in {"refused", "failed"} =>
              CallsOf(chain.landed, c.press) = {} /\ CallsOf(chain.pending, c.press) = {},
           UNCHANGED <<card, chain>>
    PROVE  ToolsInv'
<1>1. toolCalls' = toolCalls \ {c} /\ OnWire' = OnWire /\ c \in Calls
  BY DEF Ends, OnWire, ToolsInv, ToolsTyped
<1>2. PICK press : press = c.press
  OBVIOUS
<1>3. PICK face : face = Shows(result, press)
  OBVIOUS
<1>4. face \in [loading : BOOLEAN, result : Result, press : Nat] /\ face.press = press
      /\ face.result = result
  BY <1>1, <1>2, <1>3 DEF Shows, Calls
<1>5. PICK b \in Button : b = c.button
  BY <1>1 DEF Calls
<1>6. buttons' = buttons \/ buttons' = [buttons EXCEPT ![b] = face]
  BY <1>2, <1>3, <1>5 DEF Ends
<1>7. ToolsTyped'
  BY <1>1, <1>4, <1>6 DEF ToolsInv, ToolsTyped
<1>8. press <= chain.presses /\ \A d \in toolCalls' : d.press # press
  BY <1>1, <1>2 DEF ToolsInv, PressesCount
<1>9. PressesCount'
  <2>1. \A x \in Button : buttons'[x].press <= chain.presses
    BY <1>4, <1>6, <1>8 DEF ToolsInv, PressesCount, ToolsTyped
  <2> QED
    BY <1>1, <2>1 DEF ToolsInv, PressesCount
<1>10. OnceOnWire'
  BY <1>1 DEF ToolsInv, OnceOnWire, CallsOf, Tx
<1>11. ASSUME NEW x \in Button PROVE ShownIsTrue(x)'
  <2>1. CASE buttons'[x] = buttons[x]
    BY <1>1, <2>1 DEF ToolsInv, ShownIsTrue
  <2>2. CASE buttons'[x] = face
    BY <1>2, <1>4, <1>8, <2>2 DEF ShownIsTrue
  <2> QED
    BY <1>6, <2>1, <2>2 DEF ToolsInv, ToolsTyped
<1> QED
  BY <1>7, <1>9, <1>10, <1>11 DEF ToolsInv

\* Before it polls, and while it restores, a call has nothing on the wire.
LEMMA NothingSent ==
    ASSUME ToolsInv, NEW c \in toolCalls, c.step # "poll" \/ c.tx = "restore"
    PROVE  /\ c \in Calls /\ CallsOf(OnWire, c.press) = {}
           /\ CallsOf(chain.landed, c.press) = {} /\ CallsOf(chain.pending, c.press) = {}
<1>1. CallsOf(OnWire, c.press) = {}
  BY DEF ToolsInv, OnceOnWire
<1> QED
  BY <1>1 DEF ToolsInv, ToolsTyped, CallsOf, OnWire

LEMMA BuildKeeps ==
    ASSUME ToolsInv, NEW c \in toolCalls, Simulate(c) \/ BuildRestore(c) \/ Sign(c)
    PROVE  ToolsInv'
<1>1. /\ c.step # "poll" /\ UNCHANGED <<card, chain>> /\ c \in Calls /\ chain.seq \in Nat
  BY DEF Simulate, BuildRestore, Sign, ToolsInv, ToolsTyped, Wire
<1>2. /\ c \in Calls /\ CallsOf(OnWire, c.press) = {}
      /\ CallsOf(chain.landed, c.press) = {} /\ CallsOf(chain.pending, c.press) = {}
  BY <1>1, NothingSent
<1>3. CASE Ends(c, "refused")
  BY <1>1, <1>2, <1>3, CallEnds DEF Result
<1>4. PICK seq \in Nat : seq = chain.seq + 1
  BY <1>1
<1>5. ASSUME NEW d, To(c, d), UNCHANGED buttons,
             \/ d = [c EXCEPT !.tx = "restore"]
             \/ d = [c EXCEPT !.step = "sign", !.seq = seq]
             \/ d = [c EXCEPT !.step = "send"]
      PROVE  ToolsInv'
  <2>1. d \in Calls /\ d.press = c.press
    BY <1>1, <1>5 DEF Calls
  <2> QED
    BY <1>1, <1>2, <1>5, <2>1, CallGoesOn
<1>6. CASE /\ UNCHANGED buttons
           /\ \/ To(c, [c EXCEPT !.tx = "restore"])
              \/ To(c, [c EXCEPT !.step = "sign", !.seq = chain.seq + 1])
              \/ To(c, [c EXCEPT !.step = "send"])
  BY <1>4, <1>5, <1>6
<1> QED
  BY <1>3, <1>6 DEF Simulate, BuildRestore, Sign

LEMMA SendKeepsTools ==
    ASSUME ToolsInv, NEW c \in toolCalls, SendSigned(c)
    PROVE  ToolsInv'
<1>1. c.step = "send" /\ UNCHANGED card
  BY DEF SendSigned
<1>2. /\ c \in Calls /\ CallsOf(OnWire, c.press) = {}
      /\ CallsOf(chain.landed, c.press) = {} /\ CallsOf(chain.pending, c.press) = {}
  BY <1>1, NothingSent
<1>3. CASE Ends(c, IF c.tx = "restore" THEN "threw" ELSE "refused") /\ UNCHANGED chain
  <2>1. PICK result \in {"threw", "refused"} : result = IF c.tx = "restore" THEN "threw" ELSE "refused"
    OBVIOUS
  <2>2. Ends(c, result) /\ result \in Result /\ UNCHANGED <<card, chain>>
    BY <1>1, <1>3, <2>1 DEF Result
  <2> QED
    BY <1>2, <2>2, CallEnds
<1>4. CASE /\ chain' = [chain EXCEPT !.pending = @ \cup {Tx(c)}]
           /\ To(c, [c EXCEPT !.step = "poll"]) /\ UNCHANGED buttons
  <2>1. PICK tx : tx = Tx(c)
    OBVIOUS
  <2>2. tx \in Sent /\ tx.press = c.press /\ tx.tx = c.tx
    BY <1>2, <2>1 DEF Tx, Sent, Calls
  <2>3. PICK pending : pending = chain.pending \cup {tx}
    OBVIOUS
  <2>4. PICK wire : wire = chain
    OBVIOUS
  <2>5. wire \in Wire /\ pending \subseteq Sent
    BY <2>2, <2>3, <2>4 DEF ToolsInv, ToolsTyped, Wire
  <2>6. /\ chain' \in Wire /\ chain'.pending = pending /\ chain'.presses = chain.presses
        /\ chain'.landed = chain.landed /\ chain'.failed = chain.failed
    <3>1. chain' = [wire EXCEPT !.pending = pending]
      BY <1>4, <2>1, <2>3, <2>4
    <3> QED
      BY <2>4, <2>5, <3>1 DEF Wire
  <2>7. PICK d : d = [c EXCEPT !.step = "poll"]
    OBVIOUS
  <2>8. d \in Calls /\ d.press = c.press /\ d.step = "poll" /\ d.tx = c.tx /\ d.seq = c.seq
    BY <1>2, <2>7 DEF Calls
  <2>9. toolCalls' = (toolCalls \ {c}) \cup {d} /\ buttons' = buttons
    BY <1>4, <2>7 DEF To
  <2>10. OnWire' = OnWire \cup {tx}
    BY <2>3, <2>6 DEF OnWire
  <2>11. ToolsTyped'
    BY <1>1, <2>6, <2>8, <2>9 DEF ToolsInv, ToolsTyped
  <2>12. PressesCount'
    BY <2>2, <2>6, <2>8, <2>9, <2>10 DEF ToolsInv, PressesCount
  <2>13. OnceOnWire'
    <3>1. ASSUME NEW x \in toolCalls', NEW y \in CallsOf(OnWire', x.press)
          PROVE  x.step = "poll" /\ x.tx = "call" /\ y = Tx(x)
      <4>1. CASE x = d
        <5>1. y = tx /\ tx.tx = "call"
          BY <1>2, <2>8, <2>10, <3>1, <4>1 DEF CallsOf
        <5> QED
          BY <2>1, <2>2, <2>8, <4>1, <5>1 DEF Tx
      <4>2. CASE x # d
        <5>1. x \in toolCalls /\ x.press # c.press
          BY <2>9, <4>2 DEF ToolsInv, PressesCount
        <5>2. y \in CallsOf(OnWire, x.press)
          BY <2>2, <2>10, <3>1, <5>1 DEF CallsOf
        <5> QED
          BY <5>1, <5>2 DEF ToolsInv, OnceOnWire
      <4> QED
        BY <4>1, <4>2
    <3>2. tx.tx = "call" => tx \notin chain.landed \cup chain.failed
      BY <1>2, <2>2 DEF CallsOf, OnWire
    <3>3. \A y \in chain'.pending : y.tx = "call" => y \notin chain'.landed \cup chain'.failed
      BY <2>3, <2>6, <3>2 DEF ToolsInv, OnceOnWire
    <3> QED
      BY <3>1, <3>3 DEF OnceOnWire, CallsOf, Tx
  <2>14. ASSUME NEW b \in Button PROVE ShownIsTrue(b)'
    <3>1. ShownIsTrue(b)
      BY DEF ToolsInv
    <3> QED
      BY <2>2, <2>3, <2>6, <2>8, <2>9, <3>1 DEF ShownIsTrue, CallsOf
  <2> QED
    BY <2>11, <2>12, <2>13, <2>14 DEF ToolsInv
<1> QED
  BY <1>3, <1>4 DEF SendSigned

LEMMA PollKeepsTools ==
    ASSUME ToolsInv, NEW c \in toolCalls, PollResult(c) \/ CallThrows(c)
    PROVE  ToolsInv'
<1>1. UNCHANGED <<card, chain>> /\ c \in Calls
  BY DEF PollResult, CallThrows, ToolsInv, ToolsTyped
<1>2. CASE Ends(c, "threw")
  BY <1>1, <1>2, CallEnds DEF Result
<1>3. CASE Ends(c, "failed") /\ c.tx = "call" /\ Tx(c) \notin chain.landed /\ Found(c)
  <2>1. Tx(c) \in chain.failed /\ Tx(c).tx = "call"
    BY <1>3 DEF Found, Tx
  <2>2. Tx(c) \notin chain.pending
    BY <2>1 DEF ToolsInv, OnceOnWire
  <2>3. \A tx \in CallsOf(OnWire, c.press) : tx = Tx(c)
    BY DEF ToolsInv, OnceOnWire
  <2>4. CallsOf(chain.landed, c.press) = {} /\ CallsOf(chain.pending, c.press) = {}
    BY <1>3, <2>2, <2>3 DEF CallsOf, OnWire
  <2> QED
    BY <1>1, <1>3, <2>4, CallEnds DEF Result
<1>4. CASE Ends(c, "success") /\ c.tx = "call" /\ Tx(c) \in chain.landed
  <2>1. Tx(c) \in CallsOf(chain.landed, c.press)
    BY <1>4 DEF CallsOf, Tx
  <2> QED
    BY <1>1, <1>4, <2>1, CallEnds DEF Result
<1>5. CASE /\ To(c, [c EXCEPT !.tx = "call", !.restored = TRUE, !.step = "build"])
           /\ UNCHANGED buttons /\ c.tx # "call"
  <2>1. c.tx = "restore"
    BY <1>1, <1>5 DEF Calls
  <2>2. CallsOf(OnWire, c.press) = {}
    BY <2>1, NothingSent
  <2>3. PICK yes \in BOOLEAN : yes = TRUE
    OBVIOUS
  <2>4. PICK d : d = [c EXCEPT !.tx = "call", !.restored = yes, !.step = "build"]
    OBVIOUS
  <2>5. d \in Calls /\ d.press = c.press
    BY <1>1, <2>4 DEF Calls
  <2>6. To(c, d)
    BY <1>5, <2>3, <2>4
  <2> QED
    BY <1>1, <1>5, <2>2, <2>5, <2>6, CallGoesOn
<1>6. c.tx \in {"call", "restore"}
  BY <1>1 DEF Calls
<1> QED
  BY <1>2, <1>3, <1>4, <1>5, <1>6 DEF PollResult, CallThrows

\* The network moves a transaction, and makes none.
LEMMA WireMoves ==
    ASSUME ToolsInv, UNCHANGED <<toolCalls, buttons>>, card'.mount = card.mount,
           NEW wire, chain' = wire, wire \in Wire, wire.presses = chain.presses,
           wire.pending \subseteq chain.pending,
           chain.landed \subseteq wire.landed, chain.failed \subseteq wire.failed,
           wire.landed \cup wire.failed \subseteq OnWire,
           \A tx \in wire.pending : tx \in wire.landed \cup wire.failed =>
                                       tx \in chain.landed \cup chain.failed,
           \A tx \in wire.landed : tx \in chain.landed \cup chain.pending
    PROVE  ToolsInv'
<1>1. \A tx \in OnWire' : tx \in OnWire
  BY DEF OnWire
<1>2. ToolsTyped'
  BY DEF ToolsInv, ToolsTyped
<1>3. PressesCount'
  BY <1>1 DEF ToolsInv, PressesCount
<1>4. OnceOnWire'
  <2>1. ASSUME NEW c \in toolCalls, NEW tx \in CallsOf(OnWire', c.press)
        PROVE  c.step = "poll" /\ c.tx = "call" /\ tx = Tx(c)
    <3>1. tx \in CallsOf(OnWire, c.press)
      BY <1>1, <2>1 DEF CallsOf
    <3> QED
      BY <3>1 DEF ToolsInv, OnceOnWire
  <2>2. \A tx \in wire.pending : tx.tx = "call" => tx \notin wire.landed \cup wire.failed
    BY DEF ToolsInv, OnceOnWire
  <2> QED
    BY <2>1, <2>2 DEF OnceOnWire, CallsOf, Tx
<1>5. ASSUME NEW b \in Button PROVE ShownIsTrue(b)'
  <2>1. ShownIsTrue(b)
    BY DEF ToolsInv
  <2> QED
    BY <2>1 DEF ShownIsTrue, CallsOf
<1> QED
  BY <1>2, <1>3, <1>4, <1>5 DEF ToolsInv

LEMMA NetworkKeepsTools ==
    ASSUME ToolsInv, NEW tx \in chain.pending, Drop(tx) \/ \E ok \in BOOLEAN : Land(tx, ok)
    PROVE  ToolsInv'
<1>1. PICK wire : wire = chain
  OBVIOUS
<1>2. wire \in Wire /\ tx \in Sent
  BY <1>1 DEF ToolsInv, ToolsTyped, Wire
<1>3. PICK pending : pending = wire.pending \ {tx}
  OBVIOUS
<1>4. pending \subseteq Sent
  BY <1>2, <1>3 DEF Wire
<1>5. CASE Drop(tx)
  <2>1. PICK new : new = [wire EXCEPT !.pending = pending]
    OBVIOUS
  <2>2. /\ new \in Wire /\ new.presses = wire.presses /\ new.pending = pending
        /\ new.landed = wire.landed /\ new.failed = wire.failed
    BY <1>2, <1>4, <2>1 DEF Wire
  <2>3. chain' = new /\ UNCHANGED <<toolCalls, buttons, card>>
    BY <1>1, <1>3, <1>5, <2>1 DEF Drop
  <2> QED
    BY <1>1, <1>3, <2>2, <2>3, WireMoves DEF OnWire
<1>6. ASSUME NEW ok \in BOOLEAN, Land(tx, ok) PROVE ToolsInv'
  <2>1. PICK landed, failed : /\ landed = IF ok THEN wire.landed \cup {tx} ELSE wire.landed
                              /\ failed = IF ok THEN wire.failed ELSE wire.failed \cup {tx}
    OBVIOUS
  <2>2. landed \subseteq Sent /\ failed \subseteq Sent
    BY <1>2, <2>1 DEF Wire
  <2>3. PICK expired \in BOOLEAN : expired = (wire.archived /\ ~(ok /\ tx.tx = "restore"))
    OBVIOUS
  <2>4. PICK seq \in Nat : seq = wire.seq + 1
    BY <1>2 DEF Wire
  <2>5. PICK new : new = [wire EXCEPT !.pending = pending, !.seq = seq, !.landed = landed,
                                      !.failed = failed, !.archived = expired]
    OBVIOUS
  <2>6. /\ new \in Wire /\ new.presses = wire.presses /\ new.pending = pending
        /\ new.landed = landed /\ new.failed = failed
    BY <1>2, <1>4, <2>2, <2>5 DEF Wire
  <2>7. chain' = new /\ UNCHANGED <<toolCalls, buttons, card>>
    BY <1>1, <1>3, <1>6, <2>1, <2>3, <2>4, <2>5 DEF Land
  <2>8. /\ pending \subseteq chain.pending /\ tx \notin pending
        /\ chain.landed \subseteq landed /\ chain.failed \subseteq failed
        /\ landed \subseteq chain.landed \cup {tx} /\ failed \subseteq chain.failed \cup {tx}
    BY <1>1, <1>3, <2>1
  <2>9. landed \cup failed \subseteq OnWire
    BY <2>8 DEF OnWire
  <2> QED
    BY <1>1, <2>6, <2>7, <2>8, <2>9, WireMoves
<1> QED
  BY <1>5, <1>6

LEMMA ToolsStepKeeps ==
    ASSUME ToolsInv, [ToolsNext]_toolVars
    PROVE  ToolsInv'
<1>1. CASE \E c \in Shown : Toggle(c)
  BY <1>1, ToggleKeeps
<1>2. CASE \E b \in Button, junk \in BOOLEAN : PressTool(b, junk)
  BY <1>2, PressKeepsTools
<1>3. ASSUME NEW c \in toolCalls, \/ Simulate(c) \/ BuildRestore(c) \/ Sign(c) \/ SendSigned(c)
                                  \/ PollResult(c) \/ CallThrows(c)
      PROVE  ToolsInv'
  BY <1>3, BuildKeeps, SendKeepsTools, PollKeepsTools
<1>4. ASSUME NEW tx \in chain.pending, Drop(tx) \/ \E ok \in BOOLEAN : Land(tx, ok)
      PROVE  ToolsInv'
  BY <1>4, NetworkKeepsTools
<1>5. CASE (\E r \in reads : ShowList(r)) \/ RefreshList \/ UNCHANGED toolVars
  <2>1. UNCHANGED <<card, buttons, toolCalls, chain>>
    BY <1>5 DEF ShowList, RefreshList, toolVars
  <2> QED
    BY <2>1 DEF ToolsInv, ToolsTyped, PressesCount, OnceOnWire, OnWire, ShownIsTrue, CallsOf, Tx
<1> QED
  BY <1>1, <1>2, <1>3, <1>4, <1>5 DEF ToolsNext

LEMMA ToolsInvariance == ToolsSpec => []ToolsInv
<1>1. ToolsInit => ToolsInv
  BY ToolsStart
<1>2. ToolsInv /\ [ToolsNext]_toolVars => ToolsInv'
  BY ToolsStepKeeps
<1> QED
  BY <1>1, <1>2, PTL DEF ToolsSpec

\* lib/stellar.ts under TxButton.tsx: for any cards and any number of presses,
\* a success that is shown landed, and a refusal or a failure that is shown has
\* not landed and never will.
THEOREM ToolResultsTrue == ToolsSpec => []ResultsAreTrue
<1>1. ToolsInv => ResultsAreTrue
  BY DEF ToolsInv, ShownIsTrue, CallsOf, ResultsAreTrue
<1> QED
  BY <1>1, ToolsInvariance, PTL
-----------------------------------------------------------------------------
(***************************************************************************)
(* The proofs about SacrificePanel: the suggestion is the least amount     *)
(* that frees the account, for any balance, mass and scale.                *)
(***************************************************************************)

\* isqrt returns the floor of the root.
LEMMA IsqrtIsFloor ==
    ASSUME NEW n \in Nat
    PROVE  Isqrt(n) \in Nat /\ Isqrt(n) * Isqrt(n) <= n /\ n < (Isqrt(n) + 1) * (Isqrt(n) + 1)
<1> DEFINE D    == Nat \ {0}
           y(x) == (x + n \div x) \div 2
           mu   == [x \in D |-> x]
           stop == [x \in D |-> ~(y(x) < x)]
           next == [x \in D |-> IF y(x) \in D THEN y(x) ELSE x]
           high == {x \in D : n < (x + 1) * (x + 1)}
           f    == Falls(n)
<1>1. CASE n < 2
  <2>1. Isqrt(n) = n
    BY <1>1 DEF Isqrt
  <2>2. n = 0 \/ n = 1
    BY <1>1
  <2> QED
    BY <2>1, <2>2
<1>2. CASE n >= 2
  <2>1. ASSUME NEW x \in D
        PROVE  y(x) \in D /\ n < (y(x) + 1) * (y(x) + 1) /\ (~(y(x) < x) => x * x <= n)
    <3>1. n > 1
      BY <1>2
    <3>2. (x + n \div x) \div 2 \in Nat
          /\ n < ((x + n \div x) \div 2 + 1) * ((x + n \div x) \div 2 + 1)
      BY IterateAboveRoot
    <3>3. (x + n \div x) \div 2 > 0
      BY <3>1, IteratePositive
    <3>4. ~((x + n \div x) \div 2 < x) => x * x <= n
      BY StopsAtRoot
    <3> QED
      BY <3>2, <3>3, <3>4
  <2> HIDE DEF y
  <2>2. MovesOn(D, D, mu, stop, mu, next)
    BY <2>1 DEF MovesOn
  <2>3. f = [x \in D |-> IF stop[x] THEN mu[x] ELSE f[next[x]]]
    <3> DEFINE Body(g) == [x \in D |-> IF y(x) < x THEN g[y(x)] ELSE x]
    <3>1. PICK h \in [D -> D] : h = [x \in D |-> IF stop[x] THEN mu[x] ELSE h[next[x]]]
      <4> HIDE DEF stop, mu, next, D
      <4> QED
        BY <2>2, WhileTheorem
    <3>2. h = Body(h)
      BY <2>1, <3>1
    <3>3. f = CHOOSE g : g = Body(g)
      BY DEF Falls, y
    <3> HIDE DEF f
    <3>4. f = Body(f)
      <4> HIDE DEF Body
      <4> QED
        BY <3>2, <3>3
    <3> QED
      BY <2>1, <3>4
  <2> HIDE DEF f
  <2>4. high \in SUBSET D /\ \A x \in high : ~stop[x] => next[x] \in high
    BY <2>1
  <2>5. \A x \in high : \E e \in high : stop[e] /\ f[x] = mu[e]
    <3> HIDE DEF stop, mu, next, D, high
    <3> QED
      BY <2>2, <2>3, <2>4, WhileStaysIn
  <2>6. PICK first : first = (n + 1) \div 2
    OBVIOUS
  <2>7. first \in D /\ 2 * first >= n /\ first < n
    BY <1>2, <2>6
  <2>8. n < (first + 1) * (first + 1)
    <3>1. (first + 1) * (first + 1) = first * first + 2 * first + 1 /\ first * first >= 0
      BY <2>7
    <3> QED
      BY <2>7, <3>1
  <2>9. PICK e \in high : stop[e] /\ f[first] = mu[e]
    BY <2>5, <2>7, <2>8
  <2>10. e \in D /\ n < (e + 1) * (e + 1) /\ e * e <= n /\ f[first] = e
    BY <2>1, <2>9
  <2>11. Isqrt(n) = f[first]
    BY <1>2, <2>6, <2>7 DEF Isqrt, f
  <2> QED
    BY <2>10, <2>11
<1> QED
  BY <1>1, <1>2

\* A natural number is within the floor of a root if its square is within.
LEMMA WithinRoot ==
    ASSUME NEW n \in Nat, NEW a \in Nat
    PROVE  a <= Isqrt(n) <=> a * a <= n
<1>1. PICK r \in Nat : r = Isqrt(n) /\ r * r <= n /\ n < (r + 1) * (r + 1)
  BY IsqrtIsFloor
<1>2. ASSUME a <= r PROVE a * a <= n
  <2>1. a * a <= r * r
    BY <1>2
  <2> QED
    BY <1>1, <2>1
<1>3. ASSUME ~(a <= r) PROVE ~(a * a <= n)
  <2>1. r + 1 <= a
    BY <1>3
  <2>2. (r + 1) * (r + 1) <= a * a
    BY <2>1
  <2> QED
    BY <1>1, <2>2
<1> QED
  BY <1>1, <1>2, <1>3

\* What is left after giving x is within the limit if its square is.
LEMMA FeasibleIsFree ==
    ASSUME NEW b \in Nat, NEW mass \in Nat, NEW x \in Nat
    PROVE  Feasible(b, mass, x) <=> x >= b \/ (b - x) * (b - x) <= (mass + x) * Scale
<1>1. (mass + x) * Scale \in Nat
  BY SacrificeAssumption
<1>2. PICK n \in Nat : n = (mass + x) * Scale
  BY <1>1
<1>3. Feasible(b, mass, x) <=> b - x <= Isqrt(n)
  BY <1>2 DEF Feasible, ProjectedL
<1>4. CASE x >= b
  <2>1. Isqrt(n) \in Nat
    BY IsqrtIsFloor
  <2> QED
    BY <1>3, <1>4, <2>1
<1>5. CASE ~(x >= b)
  <2>1. b - x \in Nat
    BY <1>5
  <2>2. b - x <= Isqrt(n) <=> (b - x) * (b - x) <= n
    BY <2>1, WithinRoot
  <2> QED
    BY <1>2, <1>3, <1>5, <2>2
<1> QED
  BY <1>4, <1>5

\* Giving more, owning less and more mass free no less.
LEMMA FeasibleGrows ==
    ASSUME NEW b \in Nat, NEW mass \in Nat, NEW x \in Nat, Feasible(b, mass, x),
           NEW c \in Nat, NEW more \in Nat, NEW z \in Nat, c <= b, mass <= more, x <= z
    PROVE  Feasible(c, more, z)
<1>1. CASE z >= c
  BY <1>1, FeasibleIsFree
<1>2. CASE ~(z >= c)
  <2>1. c - z \in Nat /\ b - x \in Nat /\ c - z <= b - x /\ ~(x >= b)
    BY <1>2
  <2>2. (c - z) * (c - z) <= (b - x) * (b - x)
    <3>1. PICK p \in Nat, q \in Nat : p = c - z /\ q = b - x /\ p <= q
      BY <2>1
    <3>2. p * p <= q * q
      BY <3>1
    <3> QED
      BY <3>1, <3>2
  <2>3. (b - x) * (b - x) <= (mass + x) * Scale
    BY <2>1, FeasibleIsFree
  <2>4. (mass + x) * Scale <= (more + z) * Scale
    <3>1. mass + x \in Nat /\ more + z \in Nat /\ mass + x <= more + z /\ Scale \in Nat
      BY SacrificeAssumption
    <3> QED
      BY <3>1
  <2>5. (c - z) * (c - z) <= (more + z) * Scale
    <3>1. (c - z) * (c - z) \in Int /\ (b - x) * (b - x) \in Int
          /\ (mass + x) * Scale \in Int /\ (more + z) * Scale \in Int
      BY <2>1, SacrificeAssumption
    <3> QED
      BY <2>2, <2>3, <2>4, <3>1
  <2> QED
    BY <2>5, FeasibleIsFree
<1> QED
  BY <1>1, <1>2

\* The bisection ends at two neighbours, the upper of which frees.
LEMMA BracketIsTight ==
    ASSUME NEW b \in Nat, NEW mass \in Nat, ~Feasible(b, mass, 0), Feasible(b, mass, b)
    PROVE  \E x \in Nat \ {0} : /\ Bracket(b, mass)[2] = x /\ x <= b
                                /\ Feasible(b, mass, x) /\ ~Feasible(b, mass, x - 1)
<1> DEFINE D    == Nat \X Nat
           mu   == [ends \in D |-> IF ends[1] < ends[2] THEN ends[2] - ends[1] ELSE 0]
           stop == [ends \in D |-> ends[2] - ends[1] <= 1]
           next == [ends \in D |-> Half(b, mass, ends)]
           val  == [ends \in D |-> ends]
           kept == {ends \in D : /\ ends[1] < ends[2] /\ ends[2] <= b
                                 /\ ~Feasible(b, mass, ends[1]) /\ Feasible(b, mass, ends[2])}
           f    == Narrows(b, mass)
<1>1. ASSUME NEW ends \in D
      PROVE  /\ next[ends] \in D
             /\ ~stop[ends] => mu[next[ends]] < mu[ends]
             /\ ~stop[ends] /\ ends \in kept => next[ends] \in kept
  <2>1. PICK lo \in Nat, hi \in Nat : ends = <<lo, hi>>
    OBVIOUS
  <2>2. PICK mid \in Nat : mid = (lo + hi) \div 2
    BY <2>1
  <2>3. Middle(ends) = mid
    BY <2>1, <2>2 DEF Middle
  <2>4. next[ends] = IF Feasible(b, mass, mid) THEN <<lo, mid>> ELSE <<mid, hi>>
    BY <2>1, <2>3 DEF Half
  <2>5. stop[ends] = (hi - lo <= 1) /\ mu[ends] = IF lo < hi THEN hi - lo ELSE 0
    BY <2>1
  <2>6. ~(hi - lo <= 1) => lo < mid /\ mid < hi
    BY <2>2
  <2>7. mu[<<lo, mid>>] = IF lo < mid THEN mid - lo ELSE 0
    BY <2>2
  <2>8. mu[<<mid, hi>>] = IF mid < hi THEN hi - mid ELSE 0
    BY <2>2
  <2>9. next[ends] \in D
    BY <2>4
  <2>10. ASSUME ~stop[ends] PROVE mu[next[ends]] < mu[ends]
    <3>1. ~(hi - lo <= 1) /\ lo < mid /\ mid < hi
      BY <2>5, <2>6, <2>10
    <3>2. mu[ends] = hi - lo
      BY <2>5, <3>1
    <3>3. mu[next[ends]] = mid - lo \/ mu[next[ends]] = hi - mid
      <4>1. next[ends] = <<lo, mid>> \/ next[ends] = <<mid, hi>>
        BY <2>4
      <4> HIDE DEF mu, next
      <4> QED
        BY <2>7, <2>8, <3>1, <4>1
    <3> HIDE DEF mu, next
    <3> QED
      BY <3>1, <3>2, <3>3
  <2>11. ASSUME ~stop[ends], ends \in kept PROVE next[ends] \in kept
    <3>1. lo < mid /\ mid < hi
      BY <2>5, <2>6, <2>11
    <3>2. /\ lo < hi /\ hi <= b
          /\ ~Feasible(b, mass, lo) /\ Feasible(b, mass, hi)
      BY <2>1, <2>11
    <3>3. CASE Feasible(b, mass, mid)
      <4>1. next[ends] = <<lo, mid>>
        BY <2>4, <3>3
      <4>2. <<lo, mid>> \in kept
        BY <3>1, <3>2, <3>3
      <4> QED
        BY <4>1, <4>2
    <3>4. CASE ~Feasible(b, mass, mid)
      <4>1. next[ends] = <<mid, hi>>
        BY <2>4, <3>4
      <4>2. <<mid, hi>> \in kept
        BY <3>1, <3>2, <3>4
      <4> QED
        BY <4>1, <4>2
    <3> QED
      BY <3>3, <3>4
  <2> QED
    BY <2>9, <2>10, <2>11
<1>2. MovesOn(D, D, mu, stop, val, next)
  <2>1. mu \in [D -> Nat] /\ val \in [D -> D]
    OBVIOUS
  <2>2. next \in [D -> D]
    BY <1>1
  <2> HIDE DEF mu, val, next, stop, D
  <2> QED
    BY <1>1, <2>1, <2>2 DEF MovesOn
<1>3. f = [ends \in D |-> IF stop[ends] THEN val[ends] ELSE f[next[ends]]]
  <2> DEFINE Body(g) == [ends \in D |-> IF ends[2] - ends[1] <= 1 THEN ends
                                        ELSE g[Half(b, mass, ends)]]
  <2>1. PICK h \in [D -> D] : h = [ends \in D |-> IF stop[ends] THEN val[ends] ELSE h[next[ends]]]
    <3> HIDE DEF stop, mu, val, next, D
    <3> QED
      BY <1>2, WhileTheorem
  <2>2. h = Body(h)
    BY <2>1
  <2>3. f = CHOOSE g : g = Body(g)
    BY DEF Narrows
  <2> HIDE DEF f
  <2>4. f = Body(f)
    <3> HIDE DEF Body
    <3> QED
      BY <2>2, <2>3
  <2> QED
    BY <2>4
<1> HIDE DEF f
<1>4. \A ends \in kept : \E e \in kept : stop[e] /\ f[ends] = val[e]
  <2>1. kept \in SUBSET D /\ \A ends \in kept : ~stop[ends] => next[ends] \in kept
    BY <1>1
  <2> HIDE DEF stop, mu, val, next, D, kept
  <2> QED
    BY <1>2, <1>3, <2>1, WhileStaysIn
<1>5. <<0, b>> \in kept
  <2>1. b # 0
    OBVIOUS
  <2> QED
    BY <2>1
<1>6. PICK e \in kept : stop[e] /\ f[<<0, b>>] = val[e]
  BY <1>4, <1>5
<1>7. PICK lo \in Nat, hi \in Nat : e = <<lo, hi>>
  BY <1>6
<1>8. /\ lo < hi /\ hi <= b /\ hi - lo <= 1
      /\ ~Feasible(b, mass, lo) /\ Feasible(b, mass, hi) /\ f[<<0, b>>] = <<lo, hi>>
  BY <1>6, <1>7
<1>9. lo = hi - 1 /\ hi \in Nat \ {0}
  BY <1>8
<1>10. Bracket(b, mass) = <<lo, hi>>
  BY <1>8 DEF Bracket, f
<1> QED
  BY <1>8, <1>9, <1>10

\* The suggestion: the least amount that frees, if there is one to give.
LEMMA SuggestionIsLeast ==
    ASSUME NEW b \in Nat \cup {Unread}, NEW mass \in Nat, MinimumSacrifice(b, mass) # Unread
    PROVE  /\ MinimumSacrifice(b, mass) \in Nat /\ b \in Nat
           /\ \A x \in Nat : Feasible(b, mass, x) <=> x >= MinimumSacrifice(b, mass)
<1>1. b \in Nat /\ b > 0 /\ Feasible(b, mass, b)
  BY DEF MinimumSacrifice, Unread
<1>2. CASE Feasible(b, mass, 0)
  <2>1. MinimumSacrifice(b, mass) = 0
    BY <1>1, <1>2 DEF MinimumSacrifice
  <2>2. ASSUME NEW x \in Nat PROVE Feasible(b, mass, x)
    BY <1>1, <1>2, FeasibleGrows
  <2> QED
    BY <1>1, <2>1, <2>2
<1>3. CASE ~Feasible(b, mass, 0)
  <2>1. PICK least \in Nat \ {0} : /\ Bracket(b, mass)[2] = least
                                   /\ Feasible(b, mass, least) /\ ~Feasible(b, mass, least - 1)
    BY <1>1, <1>3, BracketIsTight
  <2>2. MinimumSacrifice(b, mass) = least
    BY <1>1, <1>3, <2>1 DEF MinimumSacrifice
  <2>3. ASSUME NEW x \in Nat, x >= least PROVE Feasible(b, mass, x)
    BY <1>1, <2>1, <2>3, FeasibleGrows
  <2>4. ASSUME NEW x \in Nat, ~(x >= least) PROVE ~Feasible(b, mass, x)
    <3>1. x <= least - 1 /\ least - 1 \in Nat
      BY <2>4
    <3>2. Feasible(b, mass, x) => Feasible(b, mass, least - 1)
      BY <1>1, <3>1, FeasibleGrows
    <3> QED
      BY <2>1, <3>2
  <2> QED
    BY <1>1, <2>2, <2>3, <2>4
<1> QED
  BY <1>2, <1>3

Readings == [mass : Nat, balance : Nat \cup {Unread}]

RitualInv ==
    /\ purse \in [balance : Nat, mass : Nat, registered : BOOLEAN]
    /\ seen \in Readings /\ entered \in Nat
    /\ ritual \in [status : {"idle", "signing", "success", "error"},
                   action : {"sacrifice", "release"}, amount : Nat, read : Readings]

LEMMA RitualStepKeeps ==
    ASSUME RitualInv, [RitualNext]_ritualVars
    PROVE  RitualInv'
<1>1. ASSUME ReadMass PROVE RitualInv'
  BY <1>1 DEF RitualInv, ReadMass, Readings
<1>2. ASSUME ReadBalance PROVE RitualInv'
  BY <1>2 DEF RitualInv, ReadBalance, Readings
<1>3. ASSUME UseSuggestion PROVE RitualInv'
  <2>1. seen.mass \in Nat /\ seen.balance \in Nat \cup {Unread}
    BY DEF RitualInv, Readings
  <2>2. Suggestion \in Nat
    BY <1>3, <2>1, SuggestionIsLeast DEF UseSuggestion, Suggestion
  <2> QED
    BY <1>3, <2>2 DEF RitualInv, UseSuggestion
<1>4. ASSUME HandleSacrifice \/ HandleCheckRelease PROVE RitualInv'
  BY <1>4 DEF RitualInv, HandleSacrifice, HandleCheckRelease
<1>5. ASSUME SacrificeAnswers PROVE RitualInv'
  <2>1. ritual' \in [status : {"idle", "signing", "success", "error"},
                     action : {"sacrifice", "release"}, amount : Nat, read : Readings]
    BY <1>5 DEF RitualInv, SacrificeAnswers
  <2>2. purse' \in [balance : Nat, mass : Nat, registered : BOOLEAN]
    <3>1. CASE UNCHANGED purse
      BY <3>1 DEF RitualInv
    <3>2. CASE /\ ritual.amount <= purse.balance
               /\ purse' = [purse EXCEPT !.balance = @ - ritual.amount,
                                    !.mass = @ + IF purse.registered THEN ritual.amount ELSE 0]
      <4>1. purse.balance - ritual.amount \in Nat
            /\ purse.mass + (IF purse.registered THEN ritual.amount ELSE 0) \in Nat
        BY <3>2 DEF RitualInv
      <4> QED
        BY <3>2, <4>1 DEF RitualInv
    <3> QED
      BY <1>5, <3>1, <3>2 DEF SacrificeAnswers
  <2> QED
    BY <1>5, <2>1, <2>2 DEF RitualInv, SacrificeAnswers
<1>6. ASSUME PurseMoves PROVE RitualInv'
  <2>1. purse' \in [balance : Nat, mass : Nat, registered : BOOLEAN]
    <3>1. CASE \E d \in Drifts : purse.balance + d >= 0 /\ purse' = [purse EXCEPT !.balance = @ + d]
      <4>1. PICK d \in Int : purse.balance + d >= 0 /\ purse' = [purse EXCEPT !.balance = @ + d]
        BY <3>1, SacrificeAssumption
      <4>2. purse.balance + d \in Nat
        BY <4>1 DEF RitualInv
      <4> QED
        BY <4>1, <4>2 DEF RitualInv
    <3>2. CASE \E d \in Drifts : purse.mass + d >= 0 /\ purse' = [purse EXCEPT !.mass = @ + d]
      <4>1. PICK d \in Int : purse.mass + d >= 0 /\ purse' = [purse EXCEPT !.mass = @ + d]
        BY <3>2, SacrificeAssumption
      <4>2. purse.mass + d \in Nat
        BY <4>1 DEF RitualInv
      <4> QED
        BY <4>1, <4>2 DEF RitualInv
    <3>3. CASE purse' = [purse EXCEPT !.registered = ~@]
      BY <3>3 DEF RitualInv
    <3> QED
      BY <1>6, <3>1, <3>2, <3>3 DEF PurseMoves
  <2> QED
    BY <1>6, <2>1 DEF RitualInv, PurseMoves
<1>7. ASSUME NEW n \in TypedAmounts, TypeSacrifice(n) PROVE RitualInv'
  BY <1>7, SacrificeAssumption DEF RitualInv, TypeSacrifice
<1>8. CASE UNCHANGED ritualVars
  BY <1>8 DEF RitualInv, ritualVars
<1> QED
  BY <1>1, <1>2, <1>3, <1>4, <1>5, <1>6, <1>7, <1>8 DEF RitualNext

LEMMA RitualInvariance == RitualSpec => []RitualInv
<1>1. RitualInit => RitualInv
  BY SacrificeAssumption DEF RitualInit, RitualInv, Readings, Unread
<1>2. RitualInv /\ [RitualNext]_ritualVars => RitualInv'
  BY RitualStepKeeps
<1> QED
  BY <1>1, <1>2, PTL DEF RitualSpec

\* What is left after a sacrifice into a pool is within the limit it makes.
LEMMA GivenIsFree ==
    ASSUME NEW p \in [balance : Nat, mass : Nat, registered : BOOLEAN], p.registered,
           NEW x \in Nat, x <= p.balance,
           NEW after, after = [p EXCEPT !.balance = @ - x,
                                        !.mass = @ + IF p.registered THEN x ELSE 0]
    PROVE  Free(after) <=> Feasible(p.balance, p.mass, x)
<1>1. after.balance = p.balance - x /\ after.mass = p.mass + x
  OBVIOUS
<1>2. PICK b \in Nat, m \in Nat : b = p.balance /\ m = p.mass /\ x <= b
  OBVIOUS
<1>3. Free(after) <=> (b - x) * (b - x) <= (m + x) * Scale
  BY <1>1, <1>2 DEF Free
<1>4. Feasible(b, m, x) <=> x >= b \/ (b - x) * (b - x) <= (m + x) * Scale
  BY FeasibleIsFree
<1>5. x >= b => (b - x) * (b - x) <= (m + x) * Scale
  <2>1. x >= b => b - x = 0
    BY <1>2
  <2>2. (m + x) * Scale >= 0
    BY SacrificeAssumption
  <2>3. 0 * 0 = 0
    OBVIOUS
  <2> QED
    BY <2>1, <2>2, <2>3
<1> QED
  BY <1>2, <1>3, <1>4, <1>5

\* SacrificeRitual.tsx's minimumSacrificeToRelease under the token's rule: for
\* any balances, masses and scale, at least the suggestion frees the account
\* unless it got worse since it was read, and less does not if nothing moved.
THEOREM SuggestionsFree == RitualSpec => SuggestedSacrificeFrees
<1> DEFINE read  == ritual.read
           least == MinimumSacrifice(read.balance, read.mass)
           Frees == ritual.status = "signing" /\ ritual'.status = "success" /\ purse.registered =>
                       (least # Unread =>
                          /\ ritual.amount >= least /\ purse.balance <= read.balance
                                /\ purse.mass >= read.mass => Free(purse')
                          /\ ritual.amount < least /\ purse.balance = read.balance
                                /\ purse.mass = read.mass => ~Free(purse'))
<1>1. ASSUME RitualInv, [RitualNext]_ritualVars PROVE Frees
  <2> SUFFICES ASSUME ritual.status = "signing", ritual'.status = "success", purse.registered,
                      least # Unread
               PROVE  /\ ritual.amount >= least /\ purse.balance <= read.balance
                            /\ purse.mass >= read.mass => Free(purse')
                      /\ ritual.amount < least /\ purse.balance = read.balance
                            /\ purse.mass = read.mass => ~Free(purse')
    OBVIOUS
  <2>1. SacrificeAnswers
    BY <1>1 DEF RitualNext, ritualVars, ReadMass, ReadBalance, UseSuggestion, TypeSacrifice,
                HandleSacrifice, HandleCheckRelease, PurseMoves
  <2>2. /\ ritual.amount <= purse.balance
        /\ purse' = [purse EXCEPT !.balance = @ - ritual.amount,
                                  !.mass = @ + IF purse.registered THEN ritual.amount ELSE 0]
    BY <1>1, <2>1 DEF SacrificeAnswers, RitualInv
  <2>3. /\ purse \in [balance : Nat, mass : Nat, registered : BOOLEAN]
        /\ purse.balance \in Nat /\ purse.mass \in Nat /\ ritual.amount \in Nat
        /\ read.mass \in Nat /\ read.balance \in Nat \cup {Unread}
    BY <1>1 DEF RitualInv, Readings
  <2>4. Free(purse') <=> Feasible(purse.balance, purse.mass, ritual.amount)
    BY <2>2, <2>3, GivenIsFree
  <2>5. /\ least \in Nat /\ read.balance \in Nat
        /\ Feasible(read.balance, read.mass, ritual.amount) <=> ritual.amount >= least
    BY <2>3, SuggestionIsLeast
  <2> HIDE DEF least, read
  <2>6. ASSUME ritual.amount >= least, purse.balance <= read.balance, purse.mass >= read.mass
        PROVE  Feasible(purse.balance, purse.mass, ritual.amount)
    BY <2>3, <2>5, <2>6, FeasibleGrows
  <2>7. ASSUME ritual.amount < least, purse.balance = read.balance, purse.mass = read.mass
        PROVE  ~Feasible(purse.balance, purse.mass, ritual.amount)
    BY <2>3, <2>5, <2>7
  <2> QED
    BY <2>4, <2>6, <2>7
<1>2. RitualInv /\ [RitualNext]_ritualVars => [Frees]_ritualVars
  BY <1>1
<1>3. SuggestedSacrificeFrees <=> [][Frees]_ritualVars
  BY DEF SuggestedSacrificeFrees
<1> HIDE DEF Frees
<1> QED
  BY <1>2, <1>3, RitualInvariance, PTL DEF RitualSpec

-----------------------------------------------------------------------------
(***************************************************************************)
(* The proofs about SwapPanel and SwapRoutes: a quote on screen is one of  *)
(* the form beside it, and a sound one, for any pools, reserves, amounts   *)
(* and number of edits.  The paths are distinct and of two or three        *)
(* tokens, so two of them share no hop; a path without a quote gets no     *)
(* share; a late answer is known by its sequence number.                   *)
(***************************************************************************)

\* The pool lists the form may hold, and the tokens they trade.
PoolLists == Registries \cup {<<>>}
Tokens(pools) == UNION {pools[i].tokens : i \in DOMAIN pools}

LEMMA PoolListsAre ==
    ASSUME NEW pools \in PoolLists
    PROVE  /\ Len(pools) \in Nat /\ DOMAIN pools = 1..Len(pools)
           /\ \A i \in DOMAIN pools : \E x, y :
                 x # y /\ x # None /\ y # None /\ pools[i].tokens = {x, y}
<1>1. IsPoolList(pools)
  <2>1. CASE pools \in Registries
    BY <2>1, SwapAssumption
  <2>2. CASE pools = <<>>
    BY <2>2 DEF IsPoolList
  <2> QED
    BY <2>1, <2>2 DEF PoolLists
<1>2. pools \in Seq(Range(pools))
  BY <1>1 DEF IsPoolList
<1>3. Len(pools) \in Nat /\ DOMAIN pools = 1..Len(pools)
  <2> DEFINE S == Range(pools)
  <2> HIDE DEF S
  <2> QED
    BY <1>2 DEF S
<1> QED
  BY <1>1, <1>3 DEF IsPoolList

\* The other token of a pool is another token, and one that exists.
LEMMA PartnerIsAnother ==
    ASSUME NEW pools \in PoolLists, NEW i \in DOMAIN pools, NEW t \in pools[i].tokens
    PROVE  /\ Partner(pools[i], t) \in Tokens(pools) \ {t, None}
           /\ pools[i].tokens = {t, Partner(pools[i], t)}
<1>1. PICK x, y : x # y /\ x # None /\ y # None /\ pools[i].tokens = {x, y}
  BY PoolListsAre
<1>2. Partner(pools[i], t) \in pools[i].tokens /\ Partner(pools[i], t) # t
  BY <1>1 DEF Partner
<1> QED
  BY <1>1, <1>2 DEF Tokens

\* A sequence without repetitions.
Distinct(s) == \A i, j \in DOMAIN s : i # j => s[i] # s[j]

\* The neighbours of t in a list of pools: other tokens of it, each once.
LEMMA NeighboursAreTokens ==
    ASSUME NEW pools \in PoolLists, NEW t
    PROVE  /\ Neighbours(pools, t) \in Seq(Tokens(pools) \ {t, None})
           /\ Distinct(Neighbours(pools, t))
<1> DEFINE n == Len(pools)
           T == Tokens(pools) \ {t, None}
           V == {s \in Seq(T) : Distinct(s)}
           Step(p, acc) == IF t \notin p.tokens \/ Contains(acc, Partner(p, t)) THEN acc
                           ELSE Append(acc, Partner(p, t))
           step == [d \in (1..n) \X V |-> Step(pools[d[1]], d[2])]
           Iter(g) == g = [s \in SUBSET DOMAIN pools |->
                             IF s = {} THEN <<>> ELSE Step(pools[Max(s)], g[s \ {Max(s)}])]
           h == CHOOSE g : Iter(g)
<1>1. n \in Nat /\ DOMAIN pools = 1..n
  BY PoolListsAre
<1>2. Neighbours(pools, t) = h[1..n]
  <2>1. Neighbours(pools, t) = h[DOMAIN pools]
    BY DEF Neighbours, FoldLeft, MapThenFoldSet
  <2> QED
    BY <1>1, <2>1
<1>3. ASSUME NEW k \in 1..n, NEW acc \in V PROVE Step(pools[k], acc) \in V
  <2>1. CASE t \notin pools[k].tokens \/ Contains(acc, Partner(pools[k], t))
    BY <2>1
  <2>2. CASE t \in pools[k].tokens /\ ~Contains(acc, Partner(pools[k], t))
    <3> DEFINE x == Partner(pools[k], t)
    <3>1. x \in T
      BY <1>1, <2>2, PartnerIsAnother
    <3>2. \A i \in 1..Len(acc) : acc[i] # x
      BY <2>2 DEF Contains
    <3> HIDE DEF x, T
    <3>3. Append(acc, x) \in Seq(T) /\ Distinct(Append(acc, x))
      BY <3>1, <3>2 DEF Distinct
    <3> QED
      BY <2>2, <3>3 DEF x
  <2> QED
    BY <2>1, <2>2
<1>4. step \in [(1..n) \X V -> V]
  <2> HIDE DEF V, Step
  <2> QED
    BY <1>3
<1>5. <<>> \in V
  BY DEF Distinct
<1>6. ASSUME NEW g \in [SUBSET (1..n) -> V], Folds(g, n, <<>>, step)
      PROVE  Unfolds(h, n, V, <<>>, step)
  <2>1. Iter(g)
    <3>1. ASSUME NEW s \in SUBSET (1..n), s # {}
          PROVE step[<<Max(s), g[s \ {Max(s)}]>>] = Step(pools[Max(s)], g[s \ {Max(s)}])
      <4>1. Max(s) \in 1..n
        BY <1>1, <3>1, SubsetOfPrefix
      <4> HIDE DEF V, Step
      <4> QED
        BY <1>6, <4>1
    <3> HIDE DEF V, step, Step
    <3> QED
      BY <1>1, <1>6, <3>1 DEF Folds
  <2>2. Iter(h)
    <3> HIDE DEF Iter
    <3> QED
      BY <2>1
  <2>3. ASSUME NEW s \in SUBSET (1..n), s # {}, h[s \ {Max(s)}] \in V
        PROVE h[s] = step[<<Max(s), h[s \ {Max(s)}]>>]
    <3>1. Max(s) \in 1..n
      BY <1>1, <2>3, SubsetOfPrefix
    <3>2. h[s] = Step(pools[Max(s)], h[s \ {Max(s)}])
      <4> HIDE DEF h, Step
      <4> QED
        BY <1>1, <2>2, <2>3
    <3> HIDE DEF V, Step, h
    <3> QED
      BY <2>3, <3>1, <3>2
  <2>4. h[{}] = <<>>
    <3> HIDE DEF h, Step
    <3> QED
      BY <2>2
  <2> HIDE DEF h, step, V
  <2> QED
    BY <2>3, <2>4 DEF Unfolds
<1>7. h[1..n] \in V
  <2> DEFINE base == <<>>
  <2> HIDE DEF h, step, V, n, base
  <2>1. base \in V
    BY <1>5 DEF base
  <2>2. IsFold(h, n, V, base, step)
    BY <1>6 DEF base, IsFold
  <2>3. n \in Nat
    BY <1>1
  <2>4. HasRun(h, n, V, base, step)
    BY <1>4, <2>1, <2>2, <2>3, FoldRun
  <2> QED
    BY <2>3, <2>4 DEF HasRun
<1> QED
  BY <1>2, <1>7

\* The paths a quote considers: the direct one and the bridged ones.
PathsOf(from, to, pools) ==
    {<<from, to>>} \cup {<<from, x, to>> : x \in Tokens(pools) \ {from, to, None}}

\* Every path is generated once.
LEMMA PathsAreDistinct ==
    ASSUME NEW pools \in PoolLists, NEW from, NEW to
    PROVE  /\ GeneratePaths(from, to, pools) \in Seq(PathsOf(from, to, pools))
           /\ Distinct(GeneratePaths(from, to, pools))
           /\ from = to => GeneratePaths(from, to, pools) = <<>>
<1>a. CASE from = to
  <2>1. GeneratePaths(from, to, pools) = <<>>
    BY <1>a DEF GeneratePaths
  <2> QED
    BY <2>1 DEF Distinct
<1>b. CASE from # to
  <2> DEFINE N == Neighbours(pools, from)
             P == PathsOf(from, to, pools)
             n == Len(N)
             V == Seq(P)
             Step(k, acc) == IF N[k] = to \/ FindPool(pools, N[k], to) = 0 THEN acc
                             ELSE Append(acc, <<from, N[k], to>>)
             step == [d \in (1..n) \X V |-> Step(d[1], d[2])]
             base == IF FindPool(pools, from, to) = 0 THEN <<>> ELSE <<<<from, to>>>>
             Iter(g) == g = [s \in SUBSET DOMAIN N |->
                               IF s = {} THEN base ELSE Step(Max(s), g[s \ {Max(s)}])]
             h == CHOOSE g : Iter(g)
  <2>0. N \in Seq(Tokens(pools) \ {from, None}) /\ Distinct(N)
    BY NeighboursAreTokens
  <2>1. n \in Nat /\ DOMAIN N = 1..n
    BY <2>0
  <2>2. GeneratePaths(from, to, pools) = h[1..n]
    <3>1. GeneratePaths(from, to, pools) = h[DOMAIN N]
      BY <1>b DEF GeneratePaths, FoldLeft, MapThenFoldSet
    <3> QED
      BY <2>1, <3>1
  <2>3. ASSUME NEW k \in 1..n, NEW acc \in V PROVE Step(k, acc) \in V
    <3>1. N[k] \in Tokens(pools) \ {from, None}
      BY <2>1, <2>0
    <3>2. N[k] # to => <<from, N[k], to>> \in P
      BY <3>1 DEF PathsOf
    <3> HIDE DEF P, N
    <3> QED
      BY <3>2
  <2>4. step \in [(1..n) \X V -> V]
    <3> HIDE DEF V, Step
    <3> QED
      BY <2>3
  <2>5. base \in V
    BY DEF PathsOf
  <2>6. ASSUME NEW g \in [SUBSET (1..n) -> V], Folds(g, n, base, step)
        PROVE  Unfolds(h, n, V, base, step)
    <3>1. Iter(g)
      <4>1. ASSUME NEW s \in SUBSET (1..n), s # {}
            PROVE step[<<Max(s), g[s \ {Max(s)}]>>] = Step(Max(s), g[s \ {Max(s)}])
        <5>1. Max(s) \in 1..n
          BY <2>1, <4>1, SubsetOfPrefix
        <5> HIDE DEF V, Step
        <5> QED
          BY <2>6, <5>1
      <4> HIDE DEF V, step, Step, base
      <4> QED
        BY <2>1, <2>6, <4>1 DEF Folds
    <3>2. Iter(h)
      <4> HIDE DEF Iter
      <4> QED
        BY <3>1
    <3>3. ASSUME NEW s \in SUBSET (1..n), s # {}, h[s \ {Max(s)}] \in V
          PROVE h[s] = step[<<Max(s), h[s \ {Max(s)}]>>]
      <4>1. Max(s) \in 1..n
        BY <2>1, <3>3, SubsetOfPrefix
      <4>2. h[s] = Step(Max(s), h[s \ {Max(s)}])
        <5> HIDE DEF h, Step, base
        <5> QED
          BY <2>1, <3>2, <3>3
      <4> HIDE DEF V, Step, h
      <4> QED
        BY <3>3, <4>1, <4>2
    <3>4. h[{}] = base
      <4> HIDE DEF h, Step, base
      <4> QED
        BY <3>2
    <3> HIDE DEF h, step, V, base
    <3> QED
      BY <3>3, <3>4 DEF Unfolds
  <2>7. \E f \in [0..n -> V] : RunsFrom(f, n, base, step) /\ h[1..n] = f[n]
    <3> HIDE DEF h, step, V, n, base
    <3>1. IsFold(h, n, V, base, step)
      BY <2>6 DEF IsFold
    <3>2. n \in Nat
      BY <2>1
    <3>3. HasRun(h, n, V, base, step)
      BY <2>4, <2>5, <3>1, <3>2, FoldRun
    <3> QED
      BY <3>3 DEF HasRun
  <2>8. PICK f \in [0..n -> V] : RunsFrom(f, n, base, step) /\ h[1..n] = f[n]
    BY <2>7
  <2>9. f[0] = base /\ \A k \in 1..n : f[k - 1] \in V /\ f[k] = Step(k, f[k - 1])
    <3>1. \A k \in 1..n : k - 1 \in 0..n
      BY <2>1
    <3> HIDE DEF h, V, Step, base, n
    <3>2. \A k \in 1..n : f[k] = step[<<k, f[k - 1]>>] /\ f[k - 1] \in V
      BY <2>8, <3>1 DEF RunsFrom
    <3> QED
      BY <2>8, <3>2 DEF RunsFrom
  <2> DEFINE Met(k) == {<<from, to>>} \cup {<<from, N[j], to>> : j \in 1..k}
             good == {k \in 0..n : Distinct(f[k]) /\ \A i \in DOMAIN f[k] : f[k][i] \in Met(k)}
  <2>10. 0 \in good
    BY <2>1, <2>9 DEF Distinct
  <2>11. ASSUME NEW k \in 1..n, k - 1 \in good PROVE k \in good
    <3>1. f[k - 1] \in V /\ Distinct(f[k - 1]) /\ \A i \in DOMAIN f[k - 1] : f[k - 1][i] \in Met(k - 1)
      BY <2>9, <2>11
    <3>2. Met(k - 1) \subseteq Met(k)
      BY <2>1
    <3>3. CASE f[k] = f[k - 1]
      <4> HIDE DEF Met, n, V, Step
      <4> QED
        BY <3>1, <3>2, <3>3
    <3>4. CASE f[k] # f[k - 1]
      <4> DEFINE path == <<from, N[k], to>>
      <4>1. f[k] = Append(f[k - 1], path) /\ N[k] # to
        BY <2>9, <3>4
      <4>2. path \in Met(k)
        BY <2>1
      <4>3. path \notin Met(k - 1)
        <5>1. \A j \in 1..(k - 1) : N[j] # N[k]
          BY <2>0, <2>1 DEF Distinct
        <5>2. path # <<from, to>>
          OBVIOUS
        <5>3. \A j \in 1..(k - 1) : path # <<from, N[j], to>>
          BY <5>1
        <5> QED
          BY <5>2, <5>3
      <4> HIDE DEF path, Met, P, Step, n
      <4>4. Distinct(f[k])
        BY <3>1, <4>1, <4>3 DEF Distinct
      <4>5. \A i \in DOMAIN f[k] : f[k][i] \in Met(k)
        BY <3>1, <3>2, <4>1, <4>2
      <4> QED
        BY <4>4, <4>5
    <3> QED
      BY <3>3, <3>4
  <2>12. n \in good
    <3>1. good \in SUBSET (0..n) /\ n \in Nat /\ n \in 0..n
      BY <2>1
    <3> HIDE DEF good, n
    <3> QED
      BY <2>10, <2>11, <3>1, StepsCoverPrefix
  <2>13. GeneratePaths(from, to, pools) = f[n] /\ f[n] \in V
    <3> HIDE DEF V, h, n
    <3> QED
      BY <2>1, <2>2, <2>8
  <2> QED
    BY <1>b, <2>12, <2>13
<1> QED
  BY <1>a, <1>b

\* One hop pays a natural amount.
LEMMA HopOutNat ==
    ASSUME NEW pools \in PoolLists, NEW reserves \in Graphs, NEW x, NEW y, NEW amount \in Nat
    PROVE  HopOut(x, y, amount, pools, reserves) \in Nat
<1> DEFINE I == {i \in 1..Len(pools) : pools[i].tokens = {x, y}}
           i == FindPool(pools, x, y)
<1>1. Len(pools) \in Nat /\ DOMAIN pools = 1..Len(pools)
  BY PoolListsAre
<1>2. i # 0 => i \in I
  <2>1. I # {} => Min(I) \in I
    <3>1. IsFiniteSet(I) /\ I \in SUBSET Int
      BY <1>1, SubsetOfPrefix
    <3> HIDE DEF I
    <3> QED
      BY <3>1, MinOfFinite
  <2> QED
    BY <2>1 DEF FindPool, SelectInSeq
<1>3. CASE i = 0 \/ amount = 0 \/ ~pools[i].indexed
  BY <1>3 DEF HopOut
<1>4. CASE i # 0 /\ amount # 0 /\ pools[i].indexed
  <2> DEFINE r == reserves[pools[i].id]
  <2>1. i \in DOMAIN pools /\ pools[i].tokens = {x, y} /\ pools \in Registries
    BY <1>1, <1>2, <1>4 DEF PoolLists
  <2>2. r[x] \in Nat /\ r[y] \in Nat
    BY <1>4, <2>1, SwapAssumption
  <2>3. HopOut(x, y, amount, pools, reserves) = (r[y] * amount) \div (r[x] + amount)
    BY <1>4 DEF HopOut, EstimateSwap
  <2> HIDE DEF r, i
  <2>4. r[y] * amount \in Nat /\ r[x] + amount \in Nat \ {0}
    <3>1. \A a \in Nat, b \in Nat : a * b \in Nat
      BY SMT
    <3> QED
      BY <1>4, <2>2, <3>1
  <2> QED
    BY <2>3, <2>4, Division
<1> QED
  BY <1>3, <1>4

\* A hop is quoted at naturals, and so is a path.
LEMMA HopQuotesNat ==
    ASSUME NEW pools \in PoolLists, NEW x, NEW y, NEW amount \in Nat
    PROVE  HopQuotes(x, y, amount, pools) \subseteq Nat
BY HopOutNat DEF HopQuotes

LEMMA PathQuotesNat ==
    ASSUME NEW pools \in PoolLists, NEW path, Len(path) \in Nat \ {0}, NEW amount \in Nat
    PROVE  PathQuotes(path, amount, pools) \subseteq Nat
<1> DEFINE hops == [i \in 1..Len(path) - 1 |-> i]
           n == Len(path) - 1
           V == SUBSET Nat
           Step(k, gots) == UNION {HopQuotes(path[hops[k]], path[hops[k] + 1], got, pools) : got \in gots}
           base == {amount}
           step == [d \in (1..n) \X V |-> Step(d[1], d[2])]
           Iter(g) == g = [s \in SUBSET DOMAIN hops |->
                             IF s = {} THEN base ELSE Step(Max(s), g[s \ {Max(s)}])]
           h == CHOOSE g : Iter(g)
<1>1. n \in Nat /\ DOMAIN hops = 1..n
  OBVIOUS
<1>2. PathQuotes(path, amount, pools) = h[1..n]
  <2>1. PathQuotes(path, amount, pools) = h[DOMAIN hops]
    BY DEF PathQuotes, FoldLeft, MapThenFoldSet
  <2> HIDE DEF h, n, hops
  <2> QED
    BY <1>1, <2>1
<1>3. ASSUME NEW k \in 1..n, NEW gots \in V PROVE Step(k, gots) \in V
  <2>1. \A got \in gots : HopQuotes(path[hops[k]], path[hops[k] + 1], got, pools) \subseteq Nat
    BY HopQuotesNat
  <2> HIDE DEF hops
  <2> QED
    BY <2>1
<1>4. step \in [(1..n) \X V -> V]
  <2> HIDE DEF V, Step
  <2> QED
    BY <1>3
<1>5. base \in V
  OBVIOUS
<1>6. ASSUME NEW g \in [SUBSET (1..n) -> V], Folds(g, n, base, step)
      PROVE  Unfolds(h, n, V, base, step)
  <2>1. Iter(g)
    <3>1. ASSUME NEW s \in SUBSET (1..n), s # {}
          PROVE step[<<Max(s), g[s \ {Max(s)}]>>] = Step(Max(s), g[s \ {Max(s)}])
      <4>1. Max(s) \in 1..n
        BY <1>1, <3>1, SubsetOfPrefix
      <4> HIDE DEF V, Step
      <4> QED
        BY <1>6, <4>1
    <3> HIDE DEF V, step, Step, base
    <3> QED
      BY <1>1, <1>6, <3>1 DEF Folds
  <2>2. Iter(h)
    <3> HIDE DEF Iter
    <3> QED
      BY <2>1
  <2>3. ASSUME NEW s \in SUBSET (1..n), s # {}, h[s \ {Max(s)}] \in V
        PROVE h[s] = step[<<Max(s), h[s \ {Max(s)}]>>]
    <3>1. Max(s) \in 1..n
      <4> HIDE DEF h, n
      <4> QED
        BY <1>1, <2>3, SubsetOfPrefix
    <3>2. h[s] = Step(Max(s), h[s \ {Max(s)}])
      <4> HIDE DEF h, Step, base
      <4> QED
        BY <1>1, <2>2, <2>3
    <3> HIDE DEF V, Step, h
    <3> QED
      BY <2>3, <3>1, <3>2
  <2>4. h[{}] = base
    <3> HIDE DEF h, Step, base
    <3> QED
      BY <2>2
  <2> HIDE DEF h, step, V, base
  <2> QED
    BY <2>3, <2>4 DEF Unfolds
<1>7. h[1..n] \in V
  <2> HIDE DEF h, step, V, n, base
  <2>1. IsFold(h, n, V, base, step)
    BY <1>6 DEF IsFold
  <2>2. n \in Nat
    BY <1>1
  <2>3. HasRun(h, n, V, base, step)
    BY <1>4, <1>5, <2>1, <2>2, FoldRun
  <2> QED
    BY <2>2, <2>3 DEF HasRun
<1> QED
  <2> HIDE DEF V, h, n
  <2> QED
    BY <1>2, <1>7 DEF V

\* A search for the input of a path tries amounts.
LEMMA AmountsInNat ==
    ASSUME NEW pools \in PoolLists, NEW path, Len(path) \in Nat \ {0}, NEW target \in Nat
    PROVE  AmountsIn(path, target, pools) \subseteq Nat
<1> DEFINE tries == [k \in 1..10 |-> k]
           n == 10
           S == [guess : Nat, at : {"trying", "steady", "solved"}]
           V == SUBSET S
           Step(k, states) ==
               UNION {{IF tries[k] <= 4 THEN Corrected(s, target, got) ELSE Nudged(s, target, got) :
                          got \in PathQuotes(path, s.guess, pools)} : s \in states}
           base == {Probed(target, got) : got \in PathQuotes(path, Probe, pools)}
           step == [d \in (1..n) \X V |-> Step(d[1], d[2])]
           Iter(g) == g = [s \in SUBSET DOMAIN tries |->
                             IF s = {} THEN base ELSE Step(Max(s), g[s \ {Max(s)}])]
           h == CHOOSE g : Iter(g)
           result == FoldLeft(LAMBDA states, k :
               UNION {{IF k <= 4 THEN Corrected(s, target, got) ELSE Nudged(s, target, got) :
                          got \in PathQuotes(path, s.guess, pools)} : s \in states}, base, tries)
<1>0. \A a \in Nat, b \in Nat : a * b \in Nat
  BY SMT
<1>1. n \in Nat /\ DOMAIN tries = 1..n
  OBVIOUS
<1>2. result = h[1..n]
  <2>1. result = h[DOMAIN tries]
    BY DEF FoldLeft, MapThenFoldSet
  <2> QED
    BY <1>1, <2>1
<1>3. ASSUME NEW k \in 1..n, NEW states \in V PROVE Step(k, states) \in V
  <2>1. ASSUME NEW s \in states, NEW got \in PathQuotes(path, s.guess, pools)
        PROVE  Corrected(s, target, got) \in S /\ Nudged(s, target, got) \in S
    <3>1. s \in S /\ s.guess \in Nat
      OBVIOUS
    <3>2. got \in Nat
      BY <3>1, PathQuotesNat
    <3>3. s.guess * target \in Nat /\ s.guess + s.guess \div 500 + 1 \in Nat
      <4> DEFINE guess == s.guess
      <4>1. guess \in Nat
        BY <3>1
      <4> HIDE DEF guess
      <4>2. guess * target \in Nat /\ guess + guess \div 500 + 1 \in Nat
        BY <1>0, <4>1
      <4> QED
        BY <4>2 DEF guess
    <3>4. got # 0 => (s.guess * target) \div got \in Nat
      <4> DEFINE a == s.guess * target
      <4>1. a \in Nat
        BY <3>3
      <4> HIDE DEF a
      <4>2. got # 0 => a \div got \in Nat
        BY <3>2, <4>1, Division
      <4> QED
        BY <4>2 DEF a
    <3> DEFINE next == (s.guess * target) \div got
               more == s.guess + s.guess \div 500 + 1
    <3>5. (got # 0 => next \in Nat) /\ more \in Nat
      BY <3>3, <3>4
    <3>6. /\ Solved(0) \in S /\ Solved(s.guess) \in S /\ Steady(s.guess) \in S /\ Trying(more) \in S
          /\ got # 0 => Trying(AtLeastOne(next)) \in S
      <4> HIDE DEF next, more
      <4> QED
        BY <3>1, <3>5 DEF Solved, Steady, Trying, AtLeastOne
    <3>7. Corrected(s, target, got) = IF s.at # "trying" THEN s
                                      ELSE IF got = 0 THEN Solved(0)
                                      ELSE IF got = target THEN Solved(s.guess)
                                      ELSE IF next = s.guess THEN Steady(s.guess)
                                      ELSE Trying(AtLeastOne(next))
      BY DEF Corrected
    <3>8. Nudged(s, target, got) = IF s.at = "solved" THEN s
                                   ELSE IF got = 0 THEN Solved(0)
                                   ELSE IF got >= target THEN Solved(s.guess)
                                   ELSE Trying(more)
      BY DEF Nudged
    <3> HIDE DEF next, more, S
    <3> QED
      BY <3>1, <3>6, <3>7, <3>8
  <2> HIDE DEF tries, S
  <2> QED
    BY <2>1
<1>4. step \in [(1..n) \X V -> V]
  <2> HIDE DEF V, Step
  <2> QED
    BY <1>3
<1>5. base \in V
  <2>1. ASSUME NEW got \in PathQuotes(path, Probe, pools) PROVE Probed(target, got) \in S
    <3>1. got \in Nat /\ Probe \in Nat
      BY PathQuotesNat, SwapAssumption
    <3>2. Probe * target \in Nat
      BY <1>0, <3>1
    <3>3. got # 0 => (Probe * target) \div got \in Nat
      <4> DEFINE a == Probe * target
      <4>1. a \in Nat
        BY <3>2
      <4> HIDE DEF a
      <4>2. got # 0 => a \div got \in Nat
        BY <3>1, <4>1, Division
      <4> QED
        BY <4>2 DEF a
    <3> QED
      BY <3>3 DEF Probed, Solved, Trying, AtLeastOne
  <2> HIDE DEF S
  <2> QED
    BY <2>1
<1>6. ASSUME NEW g \in [SUBSET (1..n) -> V], Folds(g, n, base, step)
      PROVE  Unfolds(h, n, V, base, step)
  <2>1. Iter(g)
    <3>1. ASSUME NEW s \in SUBSET (1..n), s # {}
          PROVE step[<<Max(s), g[s \ {Max(s)}]>>] = Step(Max(s), g[s \ {Max(s)}])
      <4>1. Max(s) \in 1..n
        BY <1>1, <3>1, SubsetOfPrefix
      <4> HIDE DEF V, Step
      <4> QED
        BY <1>6, <4>1
    <3> HIDE DEF V, step, Step, base
    <3> QED
      BY <1>1, <1>6, <3>1 DEF Folds
  <2>2. Iter(h)
    <3> HIDE DEF Iter
    <3> QED
      BY <2>1
  <2>3. ASSUME NEW s \in SUBSET (1..n), s # {}, h[s \ {Max(s)}] \in V
        PROVE h[s] = step[<<Max(s), h[s \ {Max(s)}]>>]
    <3>1. Max(s) \in 1..n
      <4> HIDE DEF h, n
      <4> QED
        BY <1>1, <2>3, SubsetOfPrefix
    <3>2. h[s] = Step(Max(s), h[s \ {Max(s)}])
      <4> HIDE DEF h, Step, base
      <4> QED
        BY <1>1, <2>2, <2>3
    <3> HIDE DEF V, Step, h
    <3> QED
      BY <2>3, <3>1, <3>2
  <2>4. h[{}] = base
    <3> HIDE DEF h, Step, base
    <3> QED
      BY <2>2
  <2> HIDE DEF h, step, V, base
  <2> QED
    BY <2>3, <2>4 DEF Unfolds
<1>7. h[1..n] \in V
  <2> HIDE DEF h, step, V, n, base
  <2>1. IsFold(h, n, V, base, step)
    BY <1>6 DEF IsFold
  <2>2. n \in Nat
    BY <1>1
  <2>3. HasRun(h, n, V, base, step)
    BY <1>4, <1>5, <2>1, <2>2, FoldRun
  <2> QED
    BY <2>2, <2>3 DEF HasRun
<1>8. result \in SUBSET S
  <2> HIDE DEF V, h, n, result
  <2> QED
    BY <1>2, <1>7 DEF V
<1>9. AmountsIn(path, target, pools) = {s.guess : s \in result}
  BY DEF AmountsIn
<1> HIDE DEF result
<1> QED
  BY <1>8, <1>9

\* Paths have two or three tokens.
LEMMA PathLengths ==
    ASSUME NEW pools, NEW from, NEW to, NEW path \in PathsOf(from, to, pools)
    PROVE  Len(path) \in Nat \ {0}
BY DEF PathsOf

\* The cheapest input is an amount.
LEMMA CheapestInputsNat ==
    ASSUME NEW pools \in PoolLists, NEW from, NEW to, NEW target \in Nat
    PROVE  CheapestInputs(from, to, target, pools) \subseteq Nat
<1> DEFINE paths == GeneratePaths(from, to, pools)
           n == Len(paths)
           V == SUBSET Nat
           Step(k, bests) == {IF need > 0 /\ (best = 0 \/ need < best) THEN need ELSE best :
                                 best \in bests, need \in AmountsIn(paths[k], target, pools)}
           base == {0}
           step == [d \in (1..n) \X V |-> Step(d[1], d[2])]
           Iter(g) == g = [s \in SUBSET DOMAIN paths |->
                             IF s = {} THEN base ELSE Step(Max(s), g[s \ {Max(s)}])]
           h == CHOOSE g : Iter(g)
<1>0. paths \in Seq(PathsOf(from, to, pools))
  BY PathsAreDistinct
<1>1. n \in Nat /\ DOMAIN paths = 1..n
  BY <1>0
<1>2. CheapestInputs(from, to, target, pools) = h[1..n]
  <2>1. CheapestInputs(from, to, target, pools) = h[DOMAIN paths]
    BY DEF CheapestInputs, FoldLeft, MapThenFoldSet
  <2> HIDE DEF h, n, paths
  <2> QED
    BY <1>1, <2>1
<1>3. ASSUME NEW k \in 1..n, NEW bests \in V PROVE Step(k, bests) \in V
  <2>1. paths[k] \in PathsOf(from, to, pools)
    BY <1>0, <1>1
  <2>2. AmountsIn(paths[k], target, pools) \subseteq Nat
    BY <2>1, PathLengths, AmountsInNat
  <2> HIDE DEF paths
  <2> QED
    BY <2>2
<1>4. step \in [(1..n) \X V -> V]
  <2> HIDE DEF V, Step
  <2> QED
    BY <1>3
<1>5. base \in V
  OBVIOUS
<1>6. ASSUME NEW g \in [SUBSET (1..n) -> V], Folds(g, n, base, step)
      PROVE  Unfolds(h, n, V, base, step)
  <2>1. Iter(g)
    <3>1. ASSUME NEW s \in SUBSET (1..n), s # {}
          PROVE step[<<Max(s), g[s \ {Max(s)}]>>] = Step(Max(s), g[s \ {Max(s)}])
      <4>1. Max(s) \in 1..n
        BY <1>1, <3>1, SubsetOfPrefix
      <4> HIDE DEF V, Step
      <4> QED
        BY <1>6, <4>1
    <3> HIDE DEF V, step, Step, base
    <3> QED
      BY <1>1, <1>6, <3>1 DEF Folds
  <2>2. Iter(h)
    <3> HIDE DEF Iter
    <3> QED
      BY <2>1
  <2>3. ASSUME NEW s \in SUBSET (1..n), s # {}, h[s \ {Max(s)}] \in V
        PROVE h[s] = step[<<Max(s), h[s \ {Max(s)}]>>]
    <3>1. Max(s) \in 1..n
      <4> HIDE DEF h, n
      <4> QED
        BY <1>1, <2>3, SubsetOfPrefix
    <3>2. h[s] = Step(Max(s), h[s \ {Max(s)}])
      <4> HIDE DEF h, Step, base
      <4> QED
        BY <1>1, <2>2, <2>3
    <3> HIDE DEF V, Step, h
    <3> QED
      BY <2>3, <3>1, <3>2
  <2>4. h[{}] = base
    <3> HIDE DEF h, Step, base
    <3> QED
      BY <2>2
  <2> HIDE DEF h, step, V, base
  <2> QED
    BY <2>3, <2>4 DEF Unfolds
<1>7. h[1..n] \in V
  <2> HIDE DEF h, step, V, n, base
  <2>1. IsFold(h, n, V, base, step)
    BY <1>6 DEF IsFold
  <2>2. n \in Nat
    BY <1>1
  <2>3. HasRun(h, n, V, base, step)
    BY <1>4, <1>5, <2>1, <2>2, FoldRun
  <2> QED
    BY <2>2, <2>3 DEF HasRun
<1> QED
  <2> HIDE DEF V, h, n
  <2> QED
    BY <1>2, <1>7 DEF V

\* The foremost place is one of those asked about, and none of them pays more.
LEMMA ForemostIsBest ==
    ASSUME NEW out, NEW S, IsFiniteSet(S), S # {}, S \in SUBSET Nat, \A i \in S : out[i] \in Nat
    PROVE  Foremost(out, S) \in S /\ \A j \in S : out[j] <= out[Foremost(out, S)]
<1> DEFINE paid == {out[i] : i \in S}
           best == {i \in S : out[i] = Max(paid)}
           InFront(i) == \A j \in S : out[i] > out[j] \/ (out[i] = out[j] /\ i <= j)
<1>1. IsFiniteSet(paid) /\ paid # {} /\ paid \in SUBSET Int
  <2> DEFINE f == [i \in S |-> out[i]]
  <2>1. f \in Surjection(S, paid)
    BY DEF Surjection
  <2>2. IsFiniteSet(paid)
    <3> HIDE DEF f, paid
    <3> QED
      BY <2>1, FS_Surjection
  <2>3. paid # {}
    OBVIOUS
  <2>4. paid \in SUBSET Int
    OBVIOUS
  <2> QED
    BY <2>2, <2>3, <2>4
<1>2. Max(paid) \in paid /\ \A x \in paid : x <= Max(paid)
  <2> HIDE DEF paid
  <2> QED
    BY <1>1, MaxOfFinite
<1>3. best # {} /\ best \in SUBSET Nat
  BY <1>2
<1>4. PICK i \in best : \A m \in best : i <= m
  <2> HIDE DEF best
  <2> QED
    BY <1>3, LeastNatural
<1>5. ASSUME NEW j \in S PROVE out[i] > out[j] \/ (out[i] = out[j] /\ i <= j)
  <2>1. out[i] = Max(paid) /\ out[j] <= Max(paid) /\ out[i] \in Nat /\ out[j] \in Nat
    BY <1>2, <1>4
  <2>2. out[j] = Max(paid) => i <= j
    BY <1>4
  <2> HIDE DEF paid, best
  <2> QED
    BY <2>1, <2>2
<1>6. i \in S /\ InFront(i)
  BY <1>4, <1>5
<1>7. Foremost(out, S) = CHOOSE k \in S : InFront(k)
  BY DEF Foremost
<1>8. Foremost(out, S) \in S /\ InFront(Foremost(out, S))
  <2> HIDE DEF InFront
  <2> QED
    BY <1>6, <1>7
<1> QED
  <2> SUFFICES ASSUME NEW j \in S PROVE out[j] <= out[Foremost(out, S)]
    BY <1>8
  <2> DEFINE k == Foremost(out, S)
  <2>1. k \in S /\ (out[k] > out[j] \/ out[k] = out[j]) /\ out[k] \in Nat /\ out[j] \in Nat
    BY <1>8
  <2> HIDE DEF k
  <2>2. out[j] <= out[k]
    BY <2>1
  <2> QED
    BY <2>2 DEF k

\* Legs of a quote over some paths.
LegsOver(P) == [path : P, amountIn : Int, amountOut : Nat]

\* What one leg spends, and two.
LEMMA TotalInAdds ==
    ASSUME NEW P, NEW legs \in Seq(LegsOver(P))
    PROVE  /\ Len(legs) = 1 => TotalIn(legs) = legs[1].amountIn
           /\ Len(legs) = 2 => TotalIn(legs) = legs[1].amountIn + legs[2].amountIn
<1> DEFINE n == Len(legs)
           V == Int
           Step(k, acc) == acc + legs[k].amountIn
           step == [d \in (1..n) \X V |-> Step(d[1], d[2])]
           base == 0
           Iter(g) == g = [s \in SUBSET DOMAIN legs |->
                             IF s = {} THEN base ELSE Step(Max(s), g[s \ {Max(s)}])]
           h == CHOOSE g : Iter(g)
<1>1. n \in Nat /\ DOMAIN legs = 1..n
  OBVIOUS
<1>2. TotalIn(legs) = h[1..n]
  <2>1. TotalIn(legs) = h[DOMAIN legs]
    BY DEF TotalIn, FoldLeft, MapThenFoldSet
  <2> QED
    BY <1>1, <2>1
<1>3. ASSUME NEW k \in 1..n, NEW acc \in V PROVE Step(k, acc) \in V
  <2>1. legs[k] \in LegsOver(P)
    BY <1>1
  <2>2. legs[k].amountIn \in Int
    BY <2>1 DEF LegsOver
  <2> QED
    BY <2>2
<1>4. step \in [(1..n) \X V -> V]
  <2> HIDE DEF V, Step
  <2> QED
    BY <1>3
<1>5. base \in V
  OBVIOUS
<1>6. ASSUME NEW g \in [SUBSET (1..n) -> V], Folds(g, n, base, step)
      PROVE  Unfolds(h, n, V, base, step)
  <2>1. Iter(g)
    <3>1. ASSUME NEW s \in SUBSET (1..n), s # {}
          PROVE step[<<Max(s), g[s \ {Max(s)}]>>] = Step(Max(s), g[s \ {Max(s)}])
      <4>1. Max(s) \in 1..n
        BY <1>1, <3>1, SubsetOfPrefix
      <4> HIDE DEF V, Step
      <4> QED
        BY <1>6, <4>1
    <3> HIDE DEF V, step, Step, base
    <3> QED
      BY <1>1, <1>6, <3>1 DEF Folds
  <2>2. Iter(h)
    <3> HIDE DEF Iter
    <3> QED
      BY <2>1
  <2>3. ASSUME NEW s \in SUBSET (1..n), s # {}, h[s \ {Max(s)}] \in V
        PROVE h[s] = step[<<Max(s), h[s \ {Max(s)}]>>]
    <3>1. Max(s) \in 1..n
      BY <1>1, <2>3, SubsetOfPrefix
    <3>2. h[s] = Step(Max(s), h[s \ {Max(s)}])
      <4> HIDE DEF h, Step, base
      <4> QED
        BY <1>1, <2>2, <2>3
    <3> HIDE DEF V, Step, h
    <3> QED
      BY <2>3, <3>1, <3>2
  <2>4. h[{}] = base
    <3> HIDE DEF h, Step, base
    <3> QED
      BY <2>2
  <2> HIDE DEF h, step, V, base
  <2> QED
    BY <2>3, <2>4 DEF Unfolds
<1>7. \E f \in [0..n -> V] : RunsFrom(f, n, base, step) /\ h[1..n] = f[n]
  <2> HIDE DEF h, step, V, n, base
  <2>1. IsFold(h, n, V, base, step)
    BY <1>6 DEF IsFold
  <2>2. n \in Nat
    BY <1>1
  <2>3. HasRun(h, n, V, base, step)
    BY <1>4, <1>5, <2>1, <2>2, FoldRun
  <2> QED
    BY <2>3 DEF HasRun
<1>8. PICK f \in [0..n -> V] : RunsFrom(f, n, base, step) /\ h[1..n] = f[n]
  BY <1>7
<1>9. \A k \in 1..n : f[k] = f[k - 1] + legs[k].amountIn
  <2>1. \A k \in 1..n : k - 1 \in 0..n
    BY <1>1
  <2> HIDE DEF h, V, Step, n, base
  <2>2. \A k \in 1..n : f[k] = Step(k, f[k - 1])
    BY <1>8, <2>1 DEF RunsFrom
  <2> QED
    BY <2>2 DEF Step
<1>10. f[0] = 0 /\ TotalIn(legs) = f[n]
  <2> HIDE DEF h, step, V, n
  <2> QED
    BY <1>2, <1>8 DEF RunsFrom
<1>11. ASSUME NEW k \in 1..n PROVE legs[k].amountIn \in Int
  <2>1. legs[k] \in LegsOver(P)
    BY <1>1
  <2> QED
    BY <2>1 DEF LegsOver
<1> HIDE DEF V, h, step, base
<1>12. CASE n = 1
  <2>1. f[1] = f[0] + legs[1].amountIn
    BY <1>9, <1>12
  <2> QED
    BY <1>10, <1>11, <1>12, <2>1
<1>13. CASE n = 2
  <2>1. f[1] = f[0] + legs[1].amountIn /\ f[2] = f[1] + legs[2].amountIn
    <3>1. 1 \in 1..n /\ 2 \in 1..n
      BY <1>13
    <3>2. 1 - 1 = 0 /\ 2 - 1 = 1
      OBVIOUS
    <3> QED
      BY <1>9, <3>1, <3>2
  <2> QED
    BY <1>10, <1>11, <1>13, <2>1
<1> QED
  BY <1>1, <1>12, <1>13

\* What one leg pays, and two.
LEMMA TotalOutAdds ==
    ASSUME NEW P, NEW legs \in Seq(LegsOver(P))
    PROVE  /\ Len(legs) = 1 => TotalOut(legs) = legs[1].amountOut
           /\ Len(legs) = 2 => TotalOut(legs) = legs[1].amountOut + legs[2].amountOut
<1> DEFINE n == Len(legs)
           V == Int
           Step(k, acc) == acc + legs[k].amountOut
           step == [d \in (1..n) \X V |-> Step(d[1], d[2])]
           base == 0
           Iter(g) == g = [s \in SUBSET DOMAIN legs |->
                             IF s = {} THEN base ELSE Step(Max(s), g[s \ {Max(s)}])]
           h == CHOOSE g : Iter(g)
<1>1. n \in Nat /\ DOMAIN legs = 1..n
  OBVIOUS
<1>2. TotalOut(legs) = h[1..n]
  <2>1. TotalOut(legs) = h[DOMAIN legs]
    BY DEF TotalOut, FoldLeft, MapThenFoldSet
  <2> QED
    BY <1>1, <2>1
<1>3. ASSUME NEW k \in 1..n, NEW acc \in V PROVE Step(k, acc) \in V
  <2>1. legs[k] \in LegsOver(P)
    BY <1>1
  <2>2. legs[k].amountOut \in Int
    BY <2>1 DEF LegsOver
  <2> QED
    BY <2>2
<1>4. step \in [(1..n) \X V -> V]
  <2> HIDE DEF V, Step
  <2> QED
    BY <1>3
<1>5. base \in V
  OBVIOUS
<1>6. ASSUME NEW g \in [SUBSET (1..n) -> V], Folds(g, n, base, step)
      PROVE  Unfolds(h, n, V, base, step)
  <2>1. Iter(g)
    <3>1. ASSUME NEW s \in SUBSET (1..n), s # {}
          PROVE step[<<Max(s), g[s \ {Max(s)}]>>] = Step(Max(s), g[s \ {Max(s)}])
      <4>1. Max(s) \in 1..n
        BY <1>1, <3>1, SubsetOfPrefix
      <4> HIDE DEF V, Step
      <4> QED
        BY <1>6, <4>1
    <3> HIDE DEF V, step, Step, base
    <3> QED
      BY <1>1, <1>6, <3>1 DEF Folds
  <2>2. Iter(h)
    <3> HIDE DEF Iter
    <3> QED
      BY <2>1
  <2>3. ASSUME NEW s \in SUBSET (1..n), s # {}, h[s \ {Max(s)}] \in V
        PROVE h[s] = step[<<Max(s), h[s \ {Max(s)}]>>]
    <3>1. Max(s) \in 1..n
      BY <1>1, <2>3, SubsetOfPrefix
    <3>2. h[s] = Step(Max(s), h[s \ {Max(s)}])
      <4> HIDE DEF h, Step, base
      <4> QED
        BY <1>1, <2>2, <2>3
    <3> HIDE DEF V, Step, h
    <3> QED
      BY <2>3, <3>1, <3>2
  <2>4. h[{}] = base
    <3> HIDE DEF h, Step, base
    <3> QED
      BY <2>2
  <2> HIDE DEF h, step, V, base
  <2> QED
    BY <2>3, <2>4 DEF Unfolds
<1>7. \E f \in [0..n -> V] : RunsFrom(f, n, base, step) /\ h[1..n] = f[n]
  <2> HIDE DEF h, step, V, n, base
  <2>1. IsFold(h, n, V, base, step)
    BY <1>6 DEF IsFold
  <2>2. n \in Nat
    BY <1>1
  <2>3. HasRun(h, n, V, base, step)
    BY <1>4, <1>5, <2>1, <2>2, FoldRun
  <2> QED
    BY <2>3 DEF HasRun
<1>8. PICK f \in [0..n -> V] : RunsFrom(f, n, base, step) /\ h[1..n] = f[n]
  BY <1>7
<1>9. \A k \in 1..n : f[k] = f[k - 1] + legs[k].amountOut
  <2>1. \A k \in 1..n : k - 1 \in 0..n
    BY <1>1
  <2> HIDE DEF h, V, Step, n, base
  <2>2. \A k \in 1..n : f[k] = Step(k, f[k - 1])
    BY <1>8, <2>1 DEF RunsFrom
  <2> QED
    BY <2>2 DEF Step
<1>10. f[0] = 0 /\ TotalOut(legs) = f[n]
  <2> HIDE DEF h, step, V, n
  <2> QED
    BY <1>2, <1>8 DEF RunsFrom
<1>11. ASSUME NEW k \in 1..n PROVE legs[k].amountOut \in Int
  <2>1. legs[k] \in LegsOver(P)
    BY <1>1
  <2> QED
    BY <2>1 DEF LegsOver
<1> HIDE DEF V, h, step, base
<1>12. CASE n = 1
  <2>1. f[1] = f[0] + legs[1].amountOut
    BY <1>9, <1>12
  <2> QED
    BY <1>10, <1>11, <1>12, <2>1
<1>13. CASE n = 2
  <2>1. f[1] = f[0] + legs[1].amountOut /\ f[2] = f[1] + legs[2].amountOut
    <3>1. 1 \in 1..n /\ 2 \in 1..n
      BY <1>13
    <3>2. 1 - 1 = 0 /\ 2 - 1 = 1
      OBVIOUS
    <3> QED
      BY <1>9, <3>1, <3>2
  <2> QED
    BY <1>10, <1>11, <1>13, <2>1
<1> QED
  BY <1>1, <1>12, <1>13

\* What a distribution of an amount over some paths is: one path or two that
\* together take the amount, each with a share that it pays for.
IsSpread(legs, amount, paths) ==
    \/ \E i \in DOMAIN paths :
          /\ Len(legs) = 1 /\ legs[1].path = paths[i]
          /\ legs[1].amountIn = amount /\ legs[1].amountOut > 0
    \/ \E i, j \in DOMAIN paths :
          /\ i # j /\ Len(legs) = 2 /\ legs[1].path = paths[i] /\ legs[2].path = paths[j]
          /\ legs[1].amountIn + legs[2].amountIn = amount
          /\ \A k \in 1..2 : legs[k].amountIn > 0 /\ legs[k].amountOut > 0

\* A place of a sequence holds one of its elements.
LEMMA SeqElement ==
    ASSUME NEW S, NEW s \in Seq(S), NEW i \in 1..Len(s)
    PROVE  s[i] \in S
OBVIOUS

\* The search for a better split keeps to the first two paths.
LEMMA SearchSpreads ==
    ASSUME NEW pools \in PoolLists, NEW amount \in Nat \ {0},
           NEW path, Len(path) \in Nat \ {0}, NEW other, Len(other) \in Nat \ {0},
           NEW alone \in Nat \ {0}, NEW found \in Searches(amount, path, other, alone, pools)
    PROVE  /\ found \in Seq(LegsOver({path, other}))
           /\ \/ found = <<Leg(path, amount, alone)>>
              \/ /\ Len(found) = 2 /\ found[1].path = path /\ found[2].path = other
                 /\ found[1].amountIn + found[2].amountIn = amount
                 /\ \A k \in 1..2 : found[k].amountIn > 0 /\ found[k].amountOut > 0
<1> DEFINE percents == [k \in 1..(100 \div SplitStep) - 1 |-> 100 - k * SplitStep]
           L == LegsOver({path, other})
           Good(s) ==
               \/ s = <<Leg(path, amount, alone)>>
               \/ /\ Len(s) = 2 /\ s[1].path = path /\ s[2].path = other
                  /\ s[1].amountIn + s[2].amountIn = amount
                  /\ \A k \in 1..2 : s[k].amountIn > 0 /\ s[k].amountOut > 0
           Cuts(k) == Splits(amount, percents[k], path, other, pools)
           n == Len(percents)
           G == {s \in Seq(L) : Good(s)}
           V == SUBSET G
           Step(k, bests) == {Better(best, cut) : best \in bests, cut \in Cuts(k)}
           base == {<<Leg(path, amount, alone)>>}
           step == [d \in (1..n) \X V |-> Step(d[1], d[2])]
           Iter(g) == g = [s \in SUBSET DOMAIN percents |->
                             IF s = {} THEN base ELSE Step(Max(s), g[s \ {Max(s)}])]
           h == CHOOSE g : Iter(g)
<1>0. n \in Nat /\ DOMAIN percents = 1..n /\ \A k \in 1..n : percents[k] \in Int
  <2> DEFINE m == (100 \div SplitStep) - 1
  <2>1. SplitStep \in Nat \ {0}
    BY SwapAssumption
  <2>2. 100 \div SplitStep \in Nat /\ 100 < (100 \div SplitStep + 1) * SplitStep
    BY <2>1, Division
  <2>3. m \in Int /\ m >= -1
    BY <2>2
  <2> HIDE DEF m
  <2>4. \A k \in 1..m : 100 - k * SplitStep \in Int
    BY <2>1, <2>3
  <2>5. percents = [k \in 1..m |-> 100 - k * SplitStep]
    BY DEF m
  <2>6. DOMAIN percents = 1..m /\ \A k \in 1..m : percents[k] \in Int
    <3> HIDE DEF percents
    <3> QED
      BY <2>4, <2>5
  <2>7. CASE m >= 0
    <3>1. n = m
      <4> HIDE DEF percents
      <4>1. m \in Nat
        BY <2>3, <2>7
      <4>2. Len([k \in 1..m |-> 100 - k * SplitStep]) = m
        BY <4>1
      <4> QED
        BY <2>5, <4>2
    <3> HIDE DEF percents, n
    <3> QED
      BY <2>3, <2>6, <2>7, <3>1
  <2>8. CASE m = -1
    <3>1. 1..m = {} /\ 1..0 = {}
      BY <2>8
    <3>2. percents = [k \in 1..0 |-> 100 - k * SplitStep]
      BY <2>5, <3>1
    <3>3. n = 0
      <4> HIDE DEF percents
      <4>1. Len([k \in 1..0 |-> 100 - k * SplitStep]) = 0
        OBVIOUS
      <4> QED
        BY <3>2, <4>1
    <3> HIDE DEF percents, n
    <3> QED
      BY <2>6, <3>1, <3>3
  <2>9. m >= 0 \/ m = -1
    BY <2>3
  <2> HIDE DEF percents, n
  <2> QED
    BY <2>7, <2>8, <2>9
<1>1. n \in Nat /\ DOMAIN percents = 1..n
  BY <1>0
<1>2. Searches(amount, path, other, alone, pools) = h[1..n]
  <2>1. Searches(amount, path, other, alone, pools) = h[DOMAIN percents]
    BY DEF Searches, FoldLeft, MapThenFoldSet
  <2> HIDE DEF h, n, percents
  <2> QED
    BY <1>1, <2>1
<1>3. ASSUME NEW k \in 1..n, NEW bests \in V PROVE Step(k, bests) \in V
  <2> DEFINE part == (amount * percents[k]) \div 100
             rest == amount - part
  <2>1. part \in Int /\ rest \in Int /\ part + rest = amount
    <3>1. percents[k] \in Int
      BY <1>0
    <3> HIDE DEF percents, n
    <3>2. amount * percents[k] \in Int
      BY <3>1
    <3>3. part \in Int
      BY <3>2
    <3> HIDE DEF part
    <3> QED
      BY <3>3
  <2>2. ASSUME NEW cut \in Cuts(k), \A i \in 1..2 : cut[i].amountIn > 0 /\ cut[i].amountOut > 0
        PROVE  cut \in G
    <3>1. PICK x \in PathQuotes(path, part, pools), y \in PathQuotes(other, rest, pools) :
             cut = <<Leg(path, part, x), Leg(other, rest, y)>>
      <4>1. Cuts(k) = {<<Leg(path, part, x), Leg(other, rest, y)>> :
                          x \in PathQuotes(path, part, pools), y \in PathQuotes(other, rest, pools)}
        BY DEF Splits
      <4> HIDE DEF part, rest, Cuts, n
      <4> QED
        BY <4>1
    <3> HIDE DEF part, rest, n
    <3>2. cut[1].amountIn = part /\ cut[2].amountIn = rest /\ cut[1].path = path
          /\ cut[2].path = other /\ Len(cut) = 2
      BY <3>1 DEF Leg
    <3>3. part \in Nat /\ rest \in Nat
      BY <2>1, <2>2, <3>2
    <3>4. x \in Nat /\ y \in Nat
      BY <3>3, PathQuotesNat
    <3>5. Leg(path, part, x) \in L /\ Leg(other, rest, y) \in L
      BY <3>3, <3>4 DEF Leg, LegsOver
    <3>6. cut \in Seq(L)
      <4> HIDE DEF L
      <4> QED
        BY <3>1, <3>5
    <3>7. Good(cut)
      BY <2>1, <2>2, <3>2
    <3> HIDE DEF Good, L
    <3> QED
      BY <3>6, <3>7
  <2>3. ASSUME NEW best \in bests, NEW cut \in Cuts(k) PROVE Better(best, cut) \in G
    <3>1. best \in G
      OBVIOUS
    <3>2. Better(best, cut) = best \/ (/\ Better(best, cut) = cut
                                      /\ \A i \in 1..2 : cut[i].amountIn > 0 /\ cut[i].amountOut > 0)
      BY DEF Better
    <3> HIDE DEF G, Cuts
    <3> QED
      BY <2>2, <3>1, <3>2
  <2> HIDE DEF G, Cuts
  <2> QED
    BY <2>3
<1>4. step \in [(1..n) \X V -> V]
  <2> HIDE DEF V, Step
  <2> QED
    BY <1>3
<1>5. base \in V
  <2>1. Leg(path, amount, alone) \in L
    BY DEF Leg, LegsOver
  <2> HIDE DEF L
  <2> QED
    BY <2>1
<1>6. ASSUME NEW g \in [SUBSET (1..n) -> V], Folds(g, n, base, step)
      PROVE  Unfolds(h, n, V, base, step)
  <2>1. Iter(g)
    <3>1. ASSUME NEW s \in SUBSET (1..n), s # {}
          PROVE step[<<Max(s), g[s \ {Max(s)}]>>] = Step(Max(s), g[s \ {Max(s)}])
      <4>1. Max(s) \in 1..n
        BY <1>1, <3>1, SubsetOfPrefix
      <4> HIDE DEF V, Step
      <4> QED
        BY <1>6, <4>1
    <3> HIDE DEF V, step, Step, base
    <3> QED
      BY <1>1, <1>6, <3>1 DEF Folds
  <2>2. Iter(h)
    <3> HIDE DEF Iter
    <3> QED
      BY <2>1
  <2>3. ASSUME NEW s \in SUBSET (1..n), s # {}, h[s \ {Max(s)}] \in V
        PROVE h[s] = step[<<Max(s), h[s \ {Max(s)}]>>]
    <3>1. Max(s) \in 1..n
      <4> HIDE DEF h, n
      <4> QED
        BY <1>1, <2>3, SubsetOfPrefix
    <3>2. h[s] = Step(Max(s), h[s \ {Max(s)}])
      <4> HIDE DEF h, Step, base
      <4> QED
        BY <1>1, <2>2, <2>3
    <3> HIDE DEF V, Step, h
    <3> QED
      BY <2>3, <3>1, <3>2
  <2>4. h[{}] = base
    <3> HIDE DEF h, Step, base
    <3> QED
      BY <2>2
  <2> HIDE DEF h, step, V, base
  <2> QED
    BY <2>3, <2>4 DEF Unfolds
<1>7. h[1..n] \in V
  <2> HIDE DEF h, step, V, n, base
  <2>1. IsFold(h, n, V, base, step)
    BY <1>6 DEF IsFold
  <2>2. n \in Nat
    BY <1>1
  <2>3. HasRun(h, n, V, base, step)
    BY <1>4, <1>5, <2>1, <2>2, FoldRun
  <2> QED
    BY <2>2, <2>3 DEF HasRun
<1>8. found \in G
  <2> HIDE DEF G, h, n
  <2> QED
    BY <1>2, <1>7
<1> HIDE DEF L
<1> QED
  BY <1>8 DEF L

\* A distribution spreads the amount over at most two of the paths.
LEMMA DistributionSpreads ==
    ASSUME NEW pools \in PoolLists, NEW amount \in Nat \ {0},
           NEW P, NEW paths \in Seq(P), \A p \in P : Len(p) \in Nat \ {0},
           NEW out \in Rounds(amount, paths, pools),
           NEW legs \in Distributions(amount, paths, out, pools), legs # <<>>
    PROVE  legs \in Seq(LegsOver(P)) /\ IsSpread(legs, amount, paths)
<1> DEFINE live == {i \in DOMAIN paths : out[i] > 0}
           first == Foremost(out, live)
           second == Foremost(out, live \ {first})
<1>1. Len(paths) \in Nat /\ DOMAIN paths = 1..Len(paths) /\ \A i \in DOMAIN paths : paths[i] \in P
  OBVIOUS
<1>2. ASSUME NEW i \in DOMAIN paths PROVE out[i] \in Nat
  <2>1. out[i] \in PathQuotes(paths[i], amount, pools)
    BY DEF Rounds
  <2>2. paths[i] \in P
    BY <1>1
  <2> QED
    BY <2>1, <2>2, PathQuotesNat
<1>3. live \in SUBSET (1..Len(paths)) /\ IsFiniteSet(live) /\ IsFiniteSet(live \ {first})
  <2>1. live \in SUBSET (1..Len(paths))
    BY <1>1
  <2>2. IsFiniteSet(live)
    <3> HIDE DEF live
    <3> QED
      BY <1>1, <2>1, SubsetOfPrefix
  <2>3. IsFiniteSet(live \ {first})
    <3> HIDE DEF live, first
    <3> QED
      BY <2>2, FS_Subset
  <2> QED
    BY <2>1, <2>2, <2>3
<1>4. live # {}
  BY DEF Distributions
<1>5. first \in live
  <2>1. live \in SUBSET Nat /\ \A i \in live : out[i] \in Nat
    BY <1>1, <1>2, <1>3
  <2> HIDE DEF live
  <2> QED
    BY <1>3, <1>4, <2>1, ForemostIsBest
<1>6. first \in DOMAIN paths /\ out[first] \in Nat \ {0} /\ paths[first] \in P
  <2>1. first \in DOMAIN paths /\ out[first] > 0
    BY <1>5
  <2> HIDE DEF first, live
  <2> QED
    BY <1>1, <1>2, <2>1
<1>7. CASE live = {first}
  <2>1. legs = <<Leg(paths[first], amount, out[first])>>
    BY <1>4, <1>7 DEF Distributions
  <2> HIDE DEF live, first
  <2>2. Leg(paths[first], amount, out[first]) \in LegsOver(P)
    BY <1>6 DEF Leg, LegsOver
  <2>3. legs \in Seq(LegsOver(P))
    BY <2>1, <2>2
  <2>4. IsSpread(legs, amount, paths)
    BY <1>6, <2>1 DEF IsSpread, Leg
  <2> QED
    BY <2>3, <2>4
<1>8. CASE live # {first}
  <2>1. legs \in Searches(amount, paths[first], paths[second], out[first], pools)
    BY <1>4, <1>8 DEF Distributions
  <2>2. second \in live \ {first}
    <3> DEFINE rest == live \ {first}
    <3>1. rest # {} /\ rest \in SUBSET Nat /\ IsFiniteSet(rest)
      <4> HIDE DEF live, first
      <4> QED
        BY <1>3, <1>5, <1>8
    <3>2. \A i \in rest : out[i] \in Nat
      BY <1>2
    <3> HIDE DEF rest
    <3>3. Foremost(out, rest) \in rest
      BY <3>1, <3>2, ForemostIsBest
    <3> QED
      BY <3>3 DEF rest
  <2>3. second \in DOMAIN paths /\ second # first
    BY <2>2
  <2> DEFINE path == paths[first]
             other == paths[second]
             alone == out[first]
  <2>4. /\ path \in P /\ other \in P /\ Len(path) \in Nat \ {0} /\ Len(other) \in Nat \ {0}
        /\ alone \in Nat \ {0} /\ path = paths[first] /\ other = paths[second]
        /\ legs \in Searches(amount, path, other, alone, pools)
    BY <1>1, <1>6, <2>1, <2>3
  <2> HIDE DEF path, other, alone, live, first, second
  <2>5. /\ legs \in Seq(LegsOver({path, other}))
        /\ \/ legs = <<Leg(path, amount, alone)>>
           \/ /\ Len(legs) = 2 /\ legs[1].path = path /\ legs[2].path = other
              /\ legs[1].amountIn + legs[2].amountIn = amount
              /\ \A k \in 1..2 : legs[k].amountIn > 0 /\ legs[k].amountOut > 0
    BY <2>4, SearchSpreads
  <2>6. legs \in Seq(LegsOver(P))
    <3> DEFINE few == LegsOver({path, other})
               all == LegsOver(P)
    <3>1. legs \in Seq(few) /\ few \subseteq all
      BY <2>4, <2>5 DEF LegsOver
    <3> HIDE DEF few, all
    <3>2. legs \in Seq(all)
      BY <3>1
    <3> QED
      BY <3>2 DEF all
  <2>7. IsSpread(legs, amount, paths)
    <3>1. CASE legs = <<Leg(path, amount, alone)>>
      BY <1>6, <2>4, <3>1 DEF IsSpread, Leg
    <3>2. CASE legs # <<Leg(path, amount, alone)>>
      BY <1>6, <2>3, <2>4, <2>5, <3>2 DEF IsSpread
    <3> QED
      BY <3>1, <3>2
  <2> QED
    BY <2>6, <2>7
<1> QED
  BY <1>7, <1>8

\* Two different paths between the same tokens share no pool.
LEMMA PathsShareNoHop ==
    ASSUME NEW pools, NEW from, NEW to, from # to,
           NEW p \in PathsOf(from, to, pools), NEW q \in PathsOf(from, to, pools), p # q
    PROVE  HopsOf(p) \cap HopsOf(q) = {}
<1>1. HopsOf(<<from, to>>) = {{from, to}}
  BY DEF HopsOf
<1>2. ASSUME NEW x PROVE HopsOf(<<from, x, to>>) = {{from, x}, {x, to}}
  <2> DEFINE r == <<from, x, to>>
  <2>1. Len(r) - 1 = 2 /\ r[1] = from /\ r[2] = x /\ r[3] = to
    OBVIOUS
  <2>2. 1..2 = {1, 2}
    OBVIOUS
  <2>3. HopsOf(r) = {{r[i], r[i + 1]} : i \in {1, 2}}
    <3> HIDE DEF r
    <3> QED
      BY <2>1, <2>2 DEF HopsOf
  <2>4. {{r[i], r[i + 1]} : i \in {1, 2}} = {{r[1], r[2]}, {r[2], r[3]}}
    <3> HIDE DEF r
    <3> QED
      OBVIOUS
  <2> HIDE DEF r
  <2>5. HopsOf(r) = {{from, x}, {x, to}}
    BY <2>1, <2>3, <2>4
  <2> QED
    BY <2>5 DEF r
<1>3. CASE p = <<from, to>>
  <2>1. PICK x \in Tokens(pools) \ {from, to, None} : q = <<from, x, to>>
    BY <1>3 DEF PathsOf
  <2>2. HopsOf(p) = {{from, to}} /\ HopsOf(q) = {{from, x}, {x, to}}
    BY <1>1, <1>2, <1>3, <2>1
  <2>3. {from, to} # {from, x} /\ {from, to} # {x, to}
    BY <2>1
  <2> QED
    BY <2>2, <2>3
<1>4. CASE q = <<from, to>>
  <2>1. PICK x \in Tokens(pools) \ {from, to, None} : p = <<from, x, to>>
    BY <1>4 DEF PathsOf
  <2>2. HopsOf(q) = {{from, to}} /\ HopsOf(p) = {{from, x}, {x, to}}
    BY <1>1, <1>2, <1>4, <2>1
  <2>3. {from, to} # {from, x} /\ {from, to} # {x, to}
    BY <2>1
  <2> QED
    BY <2>2, <2>3
<1>5. CASE p # <<from, to>> /\ q # <<from, to>>
  <2>1. PICK x \in Tokens(pools) \ {from, to, None} : p = <<from, x, to>>
    BY <1>5 DEF PathsOf
  <2>2. PICK y \in Tokens(pools) \ {from, to, None} : q = <<from, y, to>>
    BY <1>5 DEF PathsOf
  <2>3. x # y
    BY <2>1, <2>2
  <2>4. HopsOf(p) = {{from, x}, {x, to}} /\ HopsOf(q) = {{from, y}, {y, to}}
    BY <1>2, <2>1, <2>2
  <2>5. {from, x} # {from, y} /\ {from, x} # {y, to} /\ {x, to} # {from, y} /\ {x, to} # {y, to}
    BY <2>1, <2>2, <2>3
  <2> QED
    BY <2>4, <2>5
<1> QED
  BY <1>3, <1>4, <1>5

\* What a quote says is true of its amount: its legs spend exactly that, over
\* paths without a pool in common, and each spends and pays something.
LEMMA AggregateIsSound ==
    ASSUME NEW pools \in PoolLists, NEW from, NEW to, NEW amount \in Nat \ {0},
           NEW result \in Aggregates(from, to, amount, pools), result.legs # <<>>
    PROVE  IsSound(result, amount) /\ result.totalOut \in Nat
<1> DEFINE paths == GeneratePaths(from, to, pools)
           P == PathsOf(from, to, pools)
           rounds == Rounds(amount, paths, pools)
           legs == result.legs
<1>1. /\ legs \in UNION {Distributions(amount, paths, out, pools) : out \in rounds}
      /\ result.totalOut = TotalOut(legs)
  BY DEF Aggregates
<1>2. PICK out \in rounds : legs \in Distributions(amount, paths, out, pools)
  <2> HIDE DEF rounds, paths, legs
  <2> QED
    BY <1>1
<1>3. legs # <<>>
  OBVIOUS
<1> SUFFICES /\ TotalIn(legs) = amount
             /\ \A i, j \in DOMAIN legs :
                   i # j => HopsOf(legs[i].path) \cap HopsOf(legs[j].path) = {}
             /\ \A i \in DOMAIN legs : legs[i].amountIn > 0 /\ legs[i].amountOut > 0
             /\ TotalOut(legs) \in Nat
  BY <1>1 DEF IsSound
<1>4. paths \in Seq(P) /\ Distinct(paths) /\ \A p \in P : Len(p) \in Nat \ {0}
  BY PathsAreDistinct, PathLengths
<1>5. legs \in Seq(LegsOver(P)) /\ IsSpread(legs, amount, paths)
  <2> HIDE DEF P, paths, legs
  <2> QED
    BY <1>2, <1>3, <1>4, DistributionSpreads DEF rounds
<1>6. from # to
  <2>1. ASSUME from = to PROVE FALSE
    <3>1. paths = <<>>
      BY <2>1, PathsAreDistinct
    <3> HIDE DEF paths, legs
    <3> QED
      BY <1>5, <3>1 DEF IsSpread
  <2> QED
    BY <2>1
<1> HIDE DEF legs, P, paths
<1>7. Len(legs) \in Nat /\ DOMAIN legs = 1..Len(legs)
  BY <1>5
<1>8. ASSUME NEW k \in DOMAIN legs PROVE legs[k].amountIn \in Int /\ legs[k].amountOut \in Nat
  <2>1. legs[k] \in LegsOver(P)
    BY <1>5, <1>7, SeqElement
  <2> QED
    BY <2>1 DEF LegsOver
<1>9. CASE \E i \in DOMAIN paths :
          /\ Len(legs) = 1 /\ legs[1].path = paths[i]
          /\ legs[1].amountIn = amount /\ legs[1].amountOut > 0
  <2>1. Len(legs) = 1 /\ legs[1].amountIn = amount /\ legs[1].amountOut > 0
    BY <1>9
  <2>2. TotalIn(legs) = legs[1].amountIn /\ TotalOut(legs) = legs[1].amountOut
    BY <1>5, <2>1, TotalInAdds, TotalOutAdds
  <2>3. \A i \in DOMAIN legs : i = 1
    BY <1>7, <2>1
  <2>4. TotalOut(legs) \in Nat
    BY <1>7, <1>8, <2>1, <2>2
  <2> QED
    BY <2>1, <2>2, <2>3, <2>4
<1>10. CASE \E i, j \in DOMAIN paths :
          /\ i # j /\ Len(legs) = 2 /\ legs[1].path = paths[i] /\ legs[2].path = paths[j]
          /\ legs[1].amountIn + legs[2].amountIn = amount
          /\ \A k \in 1..2 : legs[k].amountIn > 0 /\ legs[k].amountOut > 0
  <2>1. PICK i \in DOMAIN paths, j \in DOMAIN paths :
          /\ i # j /\ Len(legs) = 2 /\ legs[1].path = paths[i] /\ legs[2].path = paths[j]
          /\ legs[1].amountIn + legs[2].amountIn = amount
          /\ \A k \in 1..2 : legs[k].amountIn > 0 /\ legs[k].amountOut > 0
    BY <1>10
  <2>2. /\ TotalIn(legs) = legs[1].amountIn + legs[2].amountIn
        /\ TotalOut(legs) = legs[1].amountOut + legs[2].amountOut
    BY <1>5, <2>1, TotalInAdds, TotalOutAdds
  <2>3. paths[i] # paths[j] /\ paths[i] \in P /\ paths[j] \in P
    BY <1>4, <2>1 DEF Distinct
  <2>4. HopsOf(paths[i]) \cap HopsOf(paths[j]) = {} /\ HopsOf(paths[j]) \cap HopsOf(paths[i]) = {}
    BY <1>6, <2>3, PathsShareNoHop DEF P
  <2>5. \A k, m \in DOMAIN legs : k # m => (k = 1 /\ m = 2) \/ (k = 2 /\ m = 1)
    BY <1>7, <2>1
  <2>6. \A k, m \in DOMAIN legs : k # m => HopsOf(legs[k].path) \cap HopsOf(legs[m].path) = {}
    BY <2>1, <2>4, <2>5
  <2>7. TotalOut(legs) \in Nat
    <3>1. legs[1].amountOut \in Nat /\ legs[2].amountOut \in Nat
      BY <1>7, <1>8, <2>1
    <3> QED
      BY <2>2, <3>1
  <2>8. \A k \in DOMAIN legs : legs[k].amountIn > 0 /\ legs[k].amountOut > 0
    BY <1>7, <2>1
  <2> QED
    BY <2>1, <2>2, <2>6, <2>7, <2>8
<1> QED
  BY <1>5, <1>9, <1>10 DEF IsSpread

-----------------------------------------------------------------------------
\* A form holds amounts, a list of pools, and one direction of the two.
IsForm(f) ==
    /\ f = [mode |-> f.mode, alt |-> f.alt, pools |-> f.pools, amountIn |-> f.amountIn,
            amountOut |-> f.amountOut, direction |-> f.direction, reread |-> f.reread]
    /\ f.amountIn \in Nat /\ f.amountOut \in Nat /\ f.pools \in PoolLists
    /\ f.direction \in {"exact-in", "exact-out"}

\* The component's state and refs.
IsUiRecord(u) ==
    /\ u = [form |-> u.form, quote |-> u.quote, quoteSeq |-> u.quoteSeq, timer |-> u.timer,
            reverseSeq |-> u.reverseSeq, reverseTimer |-> u.reverseTimer,
            reverseLoading |-> u.reverseLoading, reverseError |-> u.reverseError]
    /\ u.quoteSeq \in Nat

\* The key is that of the form, as far as its amount is set and drives it.
Matches(f, key) ==
    f.amountIn > 0 =>
       /\ key.in = TokenIn(f) /\ key.out = TokenOut(f) /\ key.amount = f.amountIn
       /\ f.direction = "exact-in" => key.pools = f.pools

\* What can be asked: an amount over a list of pools.
IsKey(key) == key.amount \in Nat \ {0} /\ key.pools \in PoolLists

\* What holds of the form and the quotes under way: a quote on screen, or one
\* that would still be shown, is one of the form; without a token there is none.
PanelHolds(u, under) ==
    /\ IsUiRecord(u) /\ IsForm(u.form)
    /\ u.quote.status = "ready" => /\ Matches(u.form, u.quote.key)
                                   /\ IsSound(u.quote.result, u.quote.key.amount)
    /\ u.timer # NoTimer => /\ u.timer = ForwardKey(u.form) /\ u.form.direction = "exact-in"
                            /\ u.form.amountIn > 0
    /\ \A a \in under : /\ IsKey(a.key) /\ a.seq \in Nat /\ a.seq <= u.quoteSeq
                        /\ a.seq = u.quoteSeq => Matches(u.form, a.key)
    /\ u.form.alt = None => under = {} /\ u.timer = NoTimer /\ u.quote.status # "ready"
    /\ u.reverseTimer # NoTimer => IsKey(u.reverseTimer)

SwapInv ==
    /\ PanelHolds(ui, asks)
    /\ \A a \in reverseAsks : IsKey(a.key)
    /\ registry \in Registries /\ loads \subseteq Registries

\* The forward effect keeps what holds, when the new form either is driven by
\* its input or keeps its tokens and its input.
LEMMA ForwardEffectHolds ==
    ASSUME NEW u, NEW under, PanelHolds(u, under), NEW f, IsForm(f),
           f.alt = None => u.form.alt = None,
           \/ f.direction = "exact-in"
           \/ TokenIn(f) = TokenIn(u.form) /\ TokenOut(f) = TokenOut(u.form)
              /\ f.amountIn = u.form.amountIn
    PROVE  LET next == ForwardEffect([u EXCEPT !.form = f], u.form) IN
           /\ PanelHolds(next, under)
           /\ next.form = f \/ (f.amountIn = 0 /\ next.form = [f EXCEPT !.amountOut = 0])
<1> DEFINE v == [u EXCEPT !.form = f]
           next == ForwardEffect(v, u.form)
           before == u.form
           runs == Dependencies(ForwardKey(f), f) # Dependencies(ForwardKey(before), before)
           asking == f.amountIn > 0 /\ f.alt # None
<1> SUFFICES /\ PanelHolds(next, under)
             /\ next.form = f \/ (f.amountIn = 0 /\ next.form = [f EXCEPT !.amountOut = 0])
  OBVIOUS
<1>0. IsUiRecord(u) /\ IsForm(u.form)
  BY DEF PanelHolds
<1>1. /\ v.form = f /\ v.quote = u.quote /\ v.quoteSeq = u.quoteSeq /\ v.timer = u.timer
      /\ v.reverseTimer = u.reverseTimer
      /\ IsUiRecord(v)
  BY <1>0 DEF IsUiRecord
<1>2. CASE ~runs
  <2>1. next = v
    BY <1>1, <1>2 DEF ForwardEffect
  <2>2. TokenIn(f) = TokenIn(before) /\ TokenOut(f) = TokenOut(before) /\ f.pools = before.pools
        /\ f.amountIn = before.amountIn /\ f.direction = before.direction
        /\ ForwardKey(f) = ForwardKey(before)
    BY <1>2 DEF ForwardKey, Dependencies
  <2>3. \A key : Matches(before, key) => Matches(f, key)
    BY <2>2 DEF Matches
  <2> HIDE DEF v
  <2>4. PanelHolds(v, under)
    BY <1>1, <2>2, <2>3 DEF PanelHolds
  <2> QED
    BY <1>1, <2>1, <2>4
<1>3. CASE runs /\ f.direction # "exact-in"
  <2>1. next = [v EXCEPT !.timer = NoTimer]
    BY <1>1, <1>3 DEF ForwardEffect
  <2>2. /\ next.form = f /\ next.quote = u.quote /\ next.quoteSeq = u.quoteSeq
        /\ next.timer = NoTimer /\ next.reverseTimer = u.reverseTimer /\ IsUiRecord(next)
    <3> HIDE DEF v, next
    <3> QED
      BY <1>1, <2>1 DEF IsUiRecord
  <2>3. \A key : Matches(before, key) => Matches(f, key)
    BY <1>3 DEF Matches
  <2> HIDE DEF next
  <2>4. PanelHolds(next, under)
    BY <2>2, <2>3 DEF PanelHolds
  <2> QED
    BY <2>2, <2>4
<1>4. CASE runs /\ f.direction = "exact-in" /\ ~asking
  <2> DEFINE g == [f EXCEPT !.amountOut = IF f.amountIn = 0 THEN 0 ELSE @]
  <2>1. next = [v EXCEPT !.timer = NoTimer, !.quote = NoQuote,
                         !.form.amountOut = IF f.amountIn = 0 THEN 0 ELSE @]
    BY <1>1, <1>4 DEF ForwardEffect
  <2>2. /\ next.form = g /\ next.quote = NoQuote /\ next.quoteSeq = u.quoteSeq
        /\ next.timer = NoTimer /\ next.reverseTimer = u.reverseTimer /\ IsUiRecord(next)
    <3> HIDE DEF v, next
    <3> QED
      BY <1>1, <2>1 DEF IsUiRecord
  <2>3. /\ g.alt = f.alt /\ g.amountIn = f.amountIn /\ IsForm(g)
        /\ g = f \/ (f.amountIn = 0 /\ g = [f EXCEPT !.amountOut = 0])
    BY DEF IsForm
  <2>4. \A a \in under : Matches(g, a.key)
    <3>1. CASE f.amountIn > 0
      <4>1. under = {}
        BY <1>4, <3>1 DEF PanelHolds
      <4> QED
        BY <4>1
    <3>2. CASE ~(f.amountIn > 0)
      BY <2>3, <3>2 DEF Matches
    <3> QED
      BY <3>1, <3>2
  <2>5. NoQuote.status # "ready"
    BY DEF NoQuote
  <2> HIDE DEF next, g
  <2>6. PanelHolds(next, under)
    BY <2>2, <2>3, <2>4, <2>5 DEF PanelHolds
  <2> QED
    BY <2>2, <2>3, <2>6
<1>5. CASE runs /\ f.direction = "exact-in" /\ asking
  <2>1. next = [v EXCEPT !.quoteSeq = u.quoteSeq + 1, !.quote = Waiting, !.timer = ForwardKey(f)]
    BY <1>1, <1>5 DEF ForwardEffect, NextSeq
  <2>2. /\ next.form = f /\ next.quote = Waiting /\ next.quoteSeq = u.quoteSeq + 1
        /\ next.timer = ForwardKey(f) /\ next.reverseTimer = u.reverseTimer /\ IsUiRecord(next)
    <3>1. u.quoteSeq + 1 \in Nat
      BY <1>0 DEF IsUiRecord
    <3> HIDE DEF v, next
    <3> QED
      BY <1>1, <2>1, <3>1 DEF IsUiRecord
  <2>3. Waiting.status # "ready"
    BY DEF Waiting
  <2>4. \A a \in under : a.seq \in Nat /\ a.seq <= u.quoteSeq + 1 /\ a.seq # u.quoteSeq + 1
    BY <1>0 DEF PanelHolds, IsUiRecord
  <2> HIDE DEF next
  <2>5. PanelHolds(next, under)
    BY <1>5, <2>2, <2>3, <2>4 DEF PanelHolds
  <2> QED
    BY <2>2, <2>5
<1> QED
  BY <1>2, <1>3, <1>4, <1>5

\* So does the reverse effect, which only empties an input that has no output.
LEMMA ReverseEffectHolds ==
    ASSUME NEW u, NEW under, PanelHolds(u, under), NEW before
    PROVE  LET next == ReverseEffect(u, before) IN
           PanelHolds(next, under) /\ next.form.alt = u.form.alt
<1> DEFINE f == u.form
           next == ReverseEffect(u, before)
           runs == Dependencies(ReverseKey(f), f) # Dependencies(ReverseKey(before), before)
           asking == f.amountOut > 0 /\ f.alt # None
<1> SUFFICES PanelHolds(next, under) /\ next.form.alt = f.alt
  OBVIOUS
<1>0. IsUiRecord(u) /\ IsForm(f)
  BY DEF PanelHolds
<1>1. CASE ~runs
  <2>1. next = u
    BY <1>1 DEF ReverseEffect
  <2> QED
    BY <2>1
<1>2. CASE runs /\ f.direction # "exact-out"
  <2>1. next = [u EXCEPT !.reverseTimer = NoTimer]
    BY <1>2 DEF ReverseEffect
  <2>2. /\ next.form = f /\ next.quote = u.quote /\ next.quoteSeq = u.quoteSeq
        /\ next.timer = u.timer /\ next.reverseTimer = NoTimer /\ IsUiRecord(next)
    <3> HIDE DEF next
    <3> QED
      BY <1>0, <2>1 DEF IsUiRecord
  <2> HIDE DEF next
  <2> QED
    BY <2>2 DEF PanelHolds
<1>3. CASE runs /\ f.direction = "exact-out" /\ ~asking
  <2> DEFINE g == [f EXCEPT !.amountIn = IF f.amountOut = 0 THEN 0 ELSE @]
  <2>1. next = [u EXCEPT !.reverseTimer = NoTimer, !.quote = NoQuote, !.reverseLoading = FALSE,
                         !.reverseError = FALSE, !.form.amountIn = IF f.amountOut = 0 THEN 0 ELSE @]
    BY <1>3 DEF ReverseEffect
  <2>2. /\ next.form = g /\ next.quote = NoQuote /\ next.quoteSeq = u.quoteSeq
        /\ next.timer = u.timer /\ next.reverseTimer = NoTimer /\ IsUiRecord(next)
    <3> HIDE DEF next
    <3> QED
      BY <1>0, <2>1 DEF IsUiRecord
  <2>3. /\ g.alt = f.alt /\ g.direction = f.direction /\ IsForm(g)
        /\ g.mode = f.mode /\ g.pools = f.pools
        /\ g.amountIn = f.amountIn \/ g.amountIn = 0
    BY <1>0 DEF IsForm
  <2>4. \A key : Matches(f, key) => Matches(g, key)
    BY <2>3 DEF Matches, TokenIn, TokenOut
  <2>5. NoQuote.status # "ready" /\ u.timer = NoTimer
    BY <1>3 DEF NoQuote, PanelHolds
  <2> HIDE DEF next, g
  <2> QED
    BY <2>2, <2>3, <2>4, <2>5 DEF PanelHolds
<1>4. CASE runs /\ f.direction = "exact-out" /\ asking
  <2>1. next = [u EXCEPT !.reverseSeq = @ + 1, !.reverseLoading = TRUE, !.reverseError = FALSE,
                         !.reverseTimer = ReverseKey(f)]
    BY <1>4 DEF ReverseEffect
  <2>2. /\ next.form = f /\ next.quote = u.quote /\ next.quoteSeq = u.quoteSeq
        /\ next.timer = u.timer /\ next.reverseTimer = ReverseKey(f) /\ IsUiRecord(next)
    <3> HIDE DEF next
    <3> QED
      BY <1>0, <2>1 DEF IsUiRecord
  <2>3. IsKey(ReverseKey(f))
    BY <1>0, <1>4 DEF IsKey, ReverseKey, IsForm
  <2> HIDE DEF next
  <2> QED
    BY <2>2, <2>3 DEF PanelHolds
<1> QED
  BY <1>1, <1>2, <1>3, <1>4

\* So does a state update with its effects.
LEMMA RenderHolds ==
    ASSUME NEW u, NEW under, PanelHolds(u, under), NEW f, IsForm(f),
           f.alt = None => u.form.alt = None,
           \/ f.direction = "exact-in"
           \/ TokenIn(f) = TokenIn(u.form) /\ TokenOut(f) = TokenOut(u.form)
              /\ f.amountIn = u.form.amountIn
    PROVE  PanelHolds(Render(u, f), under) /\ Render(u, f).form.alt = f.alt
<1> DEFINE mid == ForwardEffect([u EXCEPT !.form = f], u.form)
<1>1. PanelHolds(mid, under)
      /\ (mid.form = f \/ (f.amountIn = 0 /\ mid.form = [f EXCEPT !.amountOut = 0]))
  BY ForwardEffectHolds
<1>2. mid.form.alt = f.alt
  BY <1>1 DEF IsForm
<1>3. Render(u, f) = ReverseEffect(mid, u.form)
  BY DEF Render
<1> HIDE DEF mid
<1> QED
  BY <1>1, <1>2, <1>3, ReverseEffectHolds

\* What each change of a form leaves of it.
LEMMA FormAltDriven ==
    ASSUME NEW f, IsForm(f), NEW t
    PROVE  /\ IsForm([f EXCEPT !.alt = t, !.direction = "exact-in"])
           /\ [f EXCEPT !.alt = t, !.direction = "exact-in"].alt = t
           /\ [f EXCEPT !.alt = t, !.direction = "exact-in"].direction = "exact-in"
<1> DEFINE g == [f EXCEPT !.alt = t, !.direction = "exact-in"]
<1>1. g = [f EXCEPT !.alt = t, !.direction = "exact-in"]
  OBVIOUS
<1>2. /\ IsForm(g)
      /\ g.alt = t
      /\ g.direction = "exact-in"
  <2> HIDE DEF g
  <2> QED
    BY <1>1 DEF IsForm
<1> QED
  BY <1>2

LEMMA FormAmountIn ==
    ASSUME NEW f, IsForm(f), NEW n \in Nat
    PROVE  /\ IsForm([f EXCEPT !.amountIn = n, !.direction = "exact-in"])
           /\ [f EXCEPT !.amountIn = n, !.direction = "exact-in"].alt = f.alt
           /\ [f EXCEPT !.amountIn = n, !.direction = "exact-in"].direction = "exact-in"
<1> DEFINE g == [f EXCEPT !.amountIn = n, !.direction = "exact-in"]
<1>1. g = [f EXCEPT !.amountIn = n, !.direction = "exact-in"]
  OBVIOUS
<1>2. /\ IsForm(g)
      /\ g.alt = f.alt
      /\ g.direction = "exact-in"
  <2> HIDE DEF g
  <2> QED
    BY <1>1 DEF IsForm
<1> QED
  BY <1>2

LEMMA FormTarget ==
    ASSUME NEW f, IsForm(f), NEW n \in Nat
    PROVE  /\ IsForm([f EXCEPT !.amountOut = n, !.direction = "exact-out"])
           /\ [f EXCEPT !.amountOut = n, !.direction = "exact-out"].alt = f.alt
           /\ [f EXCEPT !.amountOut = n, !.direction = "exact-out"].mode = f.mode
           /\ [f EXCEPT !.amountOut = n, !.direction = "exact-out"].amountIn = f.amountIn
<1> DEFINE g == [f EXCEPT !.amountOut = n, !.direction = "exact-out"]
<1>1. g = [f EXCEPT !.amountOut = n, !.direction = "exact-out"]
  OBVIOUS
<1>2. /\ IsForm(g)
      /\ g.alt = f.alt
      /\ g.mode = f.mode
      /\ g.amountIn = f.amountIn
  <2> HIDE DEF g
  <2> QED
    BY <1>1 DEF IsForm
<1> QED
  BY <1>2

LEMMA FormAmountOut ==
    ASSUME NEW f, IsForm(f), NEW n \in Nat
    PROVE  /\ IsForm([f EXCEPT !.amountOut = n])
           /\ [f EXCEPT !.amountOut = n].alt = f.alt
           /\ [f EXCEPT !.amountOut = n].mode = f.mode
           /\ [f EXCEPT !.amountOut = n].amountIn = f.amountIn
  BY DEF IsForm

LEMMA FormPools ==
    ASSUME NEW f, IsForm(f), NEW list \in PoolLists
    PROVE  /\ IsForm([f EXCEPT !.pools = list, !.reread = ~@])
           /\ [f EXCEPT !.pools = list, !.reread = ~@].alt = f.alt
           /\ [f EXCEPT !.pools = list, !.reread = ~@].mode = f.mode
           /\ [f EXCEPT !.pools = list, !.reread = ~@].amountIn = f.amountIn
<1> DEFINE again == ~f.reread
           g == [f EXCEPT !.pools = list, !.reread = again]
<1>1. g = [f EXCEPT !.pools = list, !.reread = again]
  OBVIOUS
<1>2. /\ IsForm(g)
      /\ g.alt = f.alt
      /\ g.mode = f.mode
      /\ g.amountIn = f.amountIn
  <2> HIDE DEF again, g
  <2> QED
    BY <1>1 DEF IsForm
<1> QED
  BY <1>2

LEMMA FormAlt ==
    ASSUME NEW f, IsForm(f), NEW t
    PROVE  /\ IsForm([f EXCEPT !.alt = t])
           /\ [f EXCEPT !.alt = t].alt = t
  BY DEF IsForm

LEMMA FormMode ==
    ASSUME NEW f, IsForm(f), NEW m
    PROVE  /\ IsForm([f EXCEPT !.mode = m])
           /\ [f EXCEPT !.mode = m].alt = f.alt
  BY DEF IsForm

LEMMA FormCleared ==
    ASSUME NEW f, IsForm(f)
    PROVE  /\ IsForm(Cleared(f))
           /\ Cleared(f).alt = f.alt
           /\ Cleared(f).direction = "exact-in"
<1> DEFINE g == Cleared(f)
<1>1. g = [f EXCEPT !.amountIn = 0, !.amountOut = 0, !.direction = "exact-in"]
  BY DEF Cleared
<1>2. /\ IsForm(g)
      /\ g.alt = f.alt
      /\ g.direction = "exact-in"
  <2> HIDE DEF g
  <2> QED
    BY <1>1 DEF IsForm
<1> QED
  BY <1>2

\* What each change of the component's state leaves of it.
LEMMA UiQuote ==
    ASSUME NEW u, IsUiRecord(u), NEW q
    PROVE  /\ IsUiRecord([u EXCEPT !.quote = q])
           /\ [u EXCEPT !.quote = q].form = u.form
           /\ [u EXCEPT !.quote = q].quote = q
           /\ [u EXCEPT !.quote = q].quoteSeq = u.quoteSeq
           /\ [u EXCEPT !.quote = q].timer = u.timer
           /\ [u EXCEPT !.quote = q].reverseTimer = u.reverseTimer
  BY DEF IsUiRecord

LEMMA UiTimer ==
    ASSUME NEW u, IsUiRecord(u), NEW t
    PROVE  /\ IsUiRecord([u EXCEPT !.timer = t])
           /\ [u EXCEPT !.timer = t].form = u.form
           /\ [u EXCEPT !.timer = t].quote = u.quote
           /\ [u EXCEPT !.timer = t].quoteSeq = u.quoteSeq
           /\ [u EXCEPT !.timer = t].timer = t
           /\ [u EXCEPT !.timer = t].reverseTimer = u.reverseTimer
  BY DEF IsUiRecord

LEMMA UiReverseTimer ==
    ASSUME NEW u, IsUiRecord(u), NEW t
    PROVE  /\ IsUiRecord([u EXCEPT !.reverseTimer = t])
           /\ [u EXCEPT !.reverseTimer = t].form = u.form
           /\ [u EXCEPT !.reverseTimer = t].quote = u.quote
           /\ [u EXCEPT !.reverseTimer = t].quoteSeq = u.quoteSeq
           /\ [u EXCEPT !.reverseTimer = t].timer = u.timer
           /\ [u EXCEPT !.reverseTimer = t].reverseTimer = t
  BY DEF IsUiRecord

LEMMA UiLoading ==
    ASSUME NEW u, IsUiRecord(u), NEW b
    PROVE  /\ IsUiRecord([u EXCEPT !.reverseLoading = b])
           /\ [u EXCEPT !.reverseLoading = b].form = u.form
           /\ [u EXCEPT !.reverseLoading = b].quote = u.quote
           /\ [u EXCEPT !.reverseLoading = b].quoteSeq = u.quoteSeq
           /\ [u EXCEPT !.reverseLoading = b].timer = u.timer
           /\ [u EXCEPT !.reverseLoading = b].reverseTimer = u.reverseTimer
  BY DEF IsUiRecord

LEMMA UiError ==
    ASSUME NEW u, IsUiRecord(u), NEW b
    PROVE  /\ IsUiRecord([u EXCEPT !.reverseError = b])
           /\ [u EXCEPT !.reverseError = b].form = u.form
           /\ [u EXCEPT !.reverseError = b].quote = u.quote
           /\ [u EXCEPT !.reverseError = b].quoteSeq = u.quoteSeq
           /\ [u EXCEPT !.reverseError = b].timer = u.timer
           /\ [u EXCEPT !.reverseError = b].reverseTimer = u.reverseTimer
  BY DEF IsUiRecord

\* The mounted panel is such a one.
LEMMA FreshHolds == PanelHolds(Fresh, {})
<1>1. Fresh.form = [mode |-> "buy", alt |-> None, pools |-> <<>>, amountIn |-> 0, amountOut |-> 0,
                    direction |-> "exact-in", reread |-> FALSE]
      /\ Fresh.quote = NoQuote /\ Fresh.quoteSeq = 0 /\ Fresh.timer = NoTimer
      /\ Fresh.reverseTimer = NoTimer
  BY DEF Fresh
<1>2. IsUiRecord(Fresh)
  BY DEF Fresh, IsUiRecord
<1>3. IsForm(Fresh.form)
  BY <1>1 DEF IsForm, PoolLists
<1>4. NoQuote.status # "ready"
  BY DEF NoQuote
<1> QED
  BY <1>1, <1>2, <1>3, <1>4 DEF PanelHolds

LEMMA SwapInvInit == SwapInit => SwapInv
  BY FreshHolds DEF SwapInit, SwapInv

\* A page that is down has the form it mounts with, and nothing under way.
LEMMA DownKeepsSwapInv ==
    ASSUME SwapInv, GoesDown, UNCHANGED registry
    PROVE  SwapInv'
<1>1. /\ ui' = Fresh /\ asks' = {} /\ reverseAsks' = {} /\ loads' = {}
      /\ registry' \in Registries
  BY DEF SwapInv, GoesDown
<1>2. PanelHolds(ui', asks')
  BY <1>1, FreshHolds
<1>3. PanelHolds(ui, asks)'
  BY <1>2 DEF PanelHolds
<1> QED
  BY <1>1, <1>3 DEF SwapInv

\* The user's edits.
LEMMA EditsKeepSwapInv ==
    ASSUME SwapInv,
           \/ \E n \in Amounts : TypeAmountIn(n) \/ TypeAmountOut(n)
           \/ TypeUnreadable \/ FlipMode \/ Focus \/ RegistryChanges
           \/ \E i \in DOMAIN ui.form.pools : \E t \in ui.form.pools[i].tokens : PickAltToken(t)
    PROVE  SwapInv'
<1> DEFINE f == ui.form
<1>0. /\ PanelHolds(ui, asks) /\ IsForm(f) /\ f.pools \in PoolLists
      /\ registry \in Registries /\ loads \subseteq Registries
      /\ \A a \in reverseAsks : IsKey(a.key)
  BY DEF SwapInv, PanelHolds, IsForm
<1>1. ASSUME NEW g, IsForm(g), g.alt = None => f.alt = None,
             \/ g.direction = "exact-in"
             \/ TokenIn(g) = TokenIn(f) /\ TokenOut(g) = TokenOut(f) /\ g.amountIn = f.amountIn,
             ui' = Render(ui, g), UNCHANGED <<asks, reverseAsks, loads, registry>>
      PROVE  SwapInv'
  <2>1. PanelHolds(Render(ui, g), asks)
    BY <1>0, <1>1, RenderHolds
  <2>2. PanelHolds(ui', asks')
    BY <1>1, <2>1
  <2>3. PanelHolds(ui, asks)'
    BY <2>2 DEF PanelHolds
  <2> QED
    BY <1>0, <1>1, <2>3 DEF SwapInv
<1>2. ASSUME NEW n \in Amounts, TypeAmountIn(n) PROVE SwapInv'
  <2> DEFINE g == [f EXCEPT !.amountIn = n, !.direction = "exact-in"]
  <2>1. IsForm(g) /\ g.alt = f.alt /\ g.direction = "exact-in"
    BY <1>0, SwapAssumption, FormAmountIn
  <2>2. ui' = Render(ui, g) /\ UNCHANGED <<asks, reverseAsks, loads, registry>>
    BY <1>2 DEF TypeAmountIn, Show
  <2> HIDE DEF g
  <2> QED
    BY <1>1, <2>1, <2>2
<1>3. ASSUME NEW n \in Amounts, TypeAmountOut(n) PROVE SwapInv'
  <2> DEFINE g == [f EXCEPT !.amountOut = n, !.direction = "exact-out"]
  <2>1. IsForm(g) /\ g.alt = f.alt /\ g.mode = f.mode /\ g.amountIn = f.amountIn
    BY <1>0, SwapAssumption, FormTarget
  <2>2. ui' = Render(ui, g) /\ UNCHANGED <<asks, reverseAsks, loads, registry>>
    BY <1>3 DEF TypeAmountOut, Show
  <2>3. TokenIn(g) = TokenIn(f) /\ TokenOut(g) = TokenOut(f)
    BY <2>1 DEF TokenIn, TokenOut
  <2> HIDE DEF g
  <2> QED
    BY <1>1, <2>1, <2>2, <2>3
<1>4. ASSUME FlipMode PROVE SwapInv'
  <2> DEFINE flip == [f EXCEPT !.mode = IF @ = "buy" THEN "sell" ELSE "buy"]
             g == Cleared(flip)
  <2>1. IsForm(g) /\ g.alt = f.alt /\ g.direction = "exact-in"
    <3>1. IsForm(flip) /\ flip.alt = f.alt
      BY <1>0, FormMode
    <3> HIDE DEF flip
    <3> QED
      BY <3>1, FormCleared
  <2>2. ui' = Render(ui, g) /\ UNCHANGED <<asks, reverseAsks, loads, registry>>
    BY <1>4 DEF FlipMode, Show
  <2> HIDE DEF g
  <2> QED
    BY <1>1, <2>1, <2>2
<1>5. ASSUME NEW i \in DOMAIN f.pools, NEW t \in f.pools[i].tokens, PickAltToken(t) PROVE SwapInv'
  <2> DEFINE g == [f EXCEPT !.alt = t, !.direction = "exact-in"]
  <2>1. t # None
    BY <1>0, PoolListsAre
  <2>2. IsForm(g) /\ g.alt = t /\ g.direction = "exact-in"
    BY <1>0, FormAltDriven
  <2>3. ui' = Render(ui, g) /\ UNCHANGED <<asks, reverseAsks, loads, registry>>
    BY <1>5 DEF PickAltToken, Show
  <2> HIDE DEF g
  <2> QED
    BY <1>1, <2>1, <2>2, <2>3
<1>6. CASE Focus
  <2>1. UNCHANGED <<ui, asks, reverseAsks, registry>> /\ loads' = loads \cup {registry}
    BY <1>6 DEF Focus
  <2>2. PanelHolds(ui, asks)'
    BY <1>0, <2>1 DEF PanelHolds
  <2> QED
    BY <1>0, <2>1, <2>2 DEF SwapInv
<1>7. CASE RegistryChanges
  <2>1. UNCHANGED <<ui, asks, reverseAsks, loads>> /\ registry' \in Registries
    BY <1>0, <1>7 DEF RegistryChanges
  <2>2. PanelHolds(ui, asks)'
    BY <1>0, <2>1 DEF PanelHolds
  <2> QED
    BY <1>0, <2>1, <2>2 DEF SwapInv
<1>8. CASE TypeUnreadable
  BY <1>8, DownKeepsSwapInv DEF TypeUnreadable
<1> QED
  BY <1>2, <1>3, <1>4, <1>5, <1>6, <1>7, <1>8

\* A list of pools arrives.
LEMMA PoolsKeepSwapInv ==
    ASSUME SwapInv, NEW l \in loads, NEW got \in {l, <<>>}, PoolsArrive(l, got)
    PROVE  SwapInv'
<1> DEFINE f == ui.form
           g == [f EXCEPT !.pools = got, !.reread = ~@]
           u == Render(ui, g)
           offered == HitzPairTokens(got)
<1>0. /\ PanelHolds(ui, asks) /\ IsForm(f) /\ got \in PoolLists
      /\ registry \in Registries /\ loads \subseteq Registries
      /\ \A a \in reverseAsks : IsKey(a.key)
  BY DEF SwapInv, PanelHolds, PoolLists
<1>1. IsForm(g) /\ g.alt = f.alt /\ g.mode = f.mode /\ g.amountIn = f.amountIn
  BY <1>0, FormPools
<1>2. TokenIn(g) = TokenIn(f) /\ TokenOut(g) = TokenOut(f)
  BY <1>1 DEF TokenIn, TokenOut
<1>3. PanelHolds(u, asks) /\ u.form.alt = g.alt
  <2> HIDE DEF g
  <2> QED
    BY <1>0, <1>1, <1>2, RenderHolds
<1>4. /\ ui' = IF offered = <<>> \/ Contains(offered, u.form.alt) THEN u
               ELSE Render(u, Cleared([u.form EXCEPT !.alt = offered[1]]))
      /\ loads' = loads \ {l} /\ UNCHANGED <<asks, reverseAsks, registry>>
  BY DEF PoolsArrive
<1>5. offered \in Seq(Tokens(got) \ {Hitz, None})
  BY <1>0, NeighboursAreTokens DEF HitzPairTokens
<1>6. PanelHolds(ui', asks)
  <2> HIDE DEF u, offered
  <2>1. CASE offered = <<>> \/ Contains(offered, u.form.alt)
    BY <1>3, <1>4, <2>1
  <2>2. CASE ~(offered = <<>> \/ Contains(offered, u.form.alt))
    <3> DEFINE picked == [u.form EXCEPT !.alt = offered[1]]
               c == Cleared(picked)
    <3>1. offered[1] # None
      <4>1. 1 \in 1..Len(offered)
        BY <1>5, <2>2
      <4>2. offered[1] \in Tokens(got) \ {Hitz, None}
        BY <1>5, <4>1, SeqElement
      <4> QED
        BY <4>2
    <3>2. IsForm(u.form)
      BY <1>3 DEF PanelHolds
    <3>3. IsForm(c) /\ c.alt = offered[1] /\ c.direction = "exact-in"
      <4>1. IsForm(picked) /\ picked.alt = offered[1]
        BY <3>2, FormAlt
      <4> HIDE DEF picked
      <4> QED
        BY <4>1, FormCleared
    <3>4. ui' = Render(u, c)
      BY <1>4, <2>2
    <3> HIDE DEF c
    <3>5. PanelHolds(Render(u, c), asks)
      BY <1>3, <3>1, <3>3, RenderHolds
    <3> QED
      BY <3>4, <3>5
  <2> QED
    BY <2>1, <2>2
<1>7. PanelHolds(ui, asks)'
  <2>1. PanelHolds(ui', asks')
    <3> HIDE DEF u, offered
    <3> QED
      BY <1>4, <1>6
  <2> QED
    BY <2>1 DEF PanelHolds
<1> HIDE DEF u, offered
<1> QED
  BY <1>0, <1>4, <1>7 DEF SwapInv

\* The timers and the answers.
LEMMA QuotesKeepSwapInv ==
    ASSUME SwapInv,
           \/ TimerFires \/ ReverseTimerFires
           \/ \E a \in asks : QuoteArrives(a)
           \/ \E a \in reverseAsks : ReverseArrives(a)
    PROVE  SwapInv'
<1> DEFINE f == ui.form
<1>0. /\ PanelHolds(ui, asks) /\ IsUiRecord(ui) /\ IsForm(f)
      /\ registry \in Registries /\ loads \subseteq Registries
      /\ \A a \in reverseAsks : IsKey(a.key)
  BY DEF SwapInv, PanelHolds
<1>1. ASSUME TimerFires PROVE SwapInv'
  <2> DEFINE ask == [seq |-> ui.quoteSeq, key |-> ui.timer]
  <2>1. /\ ui.timer # NoTimer /\ asks' = asks \cup {ask} /\ ui' = [ui EXCEPT !.timer = NoTimer]
        /\ UNCHANGED <<reverseAsks, loads, registry>>
    BY <1>1 DEF TimerFires
  <2>2. ui.timer = ForwardKey(f) /\ f.alt # None /\ f.amountIn > 0
    BY <1>0, <2>1 DEF PanelHolds
  <2>3. IsKey(ask.key) /\ Matches(f, ask.key) /\ ask.seq = ui.quoteSeq /\ ui.quoteSeq \in Nat
    BY <1>0, <2>2 DEF IsKey, Matches, ForwardKey, IsForm, IsUiRecord
  <2>4. /\ ui'.form = f /\ ui'.quote = ui.quote /\ ui'.quoteSeq = ui.quoteSeq
        /\ ui'.timer = NoTimer /\ ui'.reverseTimer = ui.reverseTimer /\ IsUiRecord(ui')
    BY <1>0, <2>1, UiTimer
  <2> HIDE DEF ask
  <2>5. PanelHolds(ui', asks')
    BY <1>0, <2>1, <2>2, <2>3, <2>4 DEF PanelHolds
  <2>6. PanelHolds(ui, asks)'
    BY <2>5 DEF PanelHolds
  <2> QED
    BY <1>0, <2>1, <2>6 DEF SwapInv
<1>2. ASSUME ReverseTimerFires PROVE SwapInv'
  <2> DEFINE ask == [seq |-> ui.reverseSeq, key |-> ui.reverseTimer]
  <2>1. /\ ui.reverseTimer # NoTimer /\ reverseAsks' = reverseAsks \cup {ask}
        /\ ui' = [ui EXCEPT !.reverseTimer = NoTimer]
        /\ UNCHANGED <<asks, loads, registry>>
    BY <1>2 DEF ReverseTimerFires
  <2>2. IsKey(ask.key)
    BY <1>0, <2>1 DEF PanelHolds
  <2>3. /\ ui'.form = f /\ ui'.quote = ui.quote /\ ui'.quoteSeq = ui.quoteSeq
        /\ ui'.timer = ui.timer /\ ui'.reverseTimer = NoTimer /\ IsUiRecord(ui')
    BY <1>0, <2>1, UiReverseTimer
  <2> HIDE DEF ask
  <2>4. PanelHolds(ui', asks')
    BY <1>0, <2>1, <2>3 DEF PanelHolds
  <2>5. PanelHolds(ui, asks)'
    BY <2>4 DEF PanelHolds
  <2> QED
    BY <1>0, <2>1, <2>2, <2>5 DEF SwapInv
<1>3. ASSUME NEW a \in asks, QuoteArrives(a) PROVE SwapInv'
  <2>1. /\ asks' = asks \ {a} /\ UNCHANGED <<reverseAsks, loads, registry>>
        /\ a.seq # ui.quoteSeq => UNCHANGED ui
    BY <1>3 DEF QuoteArrives
  <2>2. IsKey(a.key) /\ f.alt # None /\ (a.seq = ui.quoteSeq => Matches(f, a.key))
    BY <1>0 DEF PanelHolds
  <2>3. PanelHolds(ui', asks)
    <3>1. CASE a.seq # ui.quoteSeq
      BY <1>0, <2>1, <3>1
    <3>2. CASE a.seq = ui.quoteSeq
      <4>1. PICK result \in Aggregates(a.key.in, a.key.out, a.key.amount, a.key.pools) :
               LET ready == [status |-> "ready", key |-> a.key, result |-> result] IN
               IF result.legs = <<>> THEN ui' = [ui EXCEPT !.quote = Failed]
               ELSE ui' = Render([ui EXCEPT !.quote = ready],
                                 [f EXCEPT !.amountOut = result.totalOut])
        BY <1>3, <3>2 DEF QuoteArrives
      <4> DEFINE ready == [status |-> "ready", key |-> a.key, result |-> result]
                 quoted == [ui EXCEPT !.quote = ready]
                 g == [f EXCEPT !.amountOut = result.totalOut]
      <4>2. CASE result.legs = <<>>
        <5>1. ui' = [ui EXCEPT !.quote = Failed]
          BY <4>1, <4>2
        <5>2. /\ ui'.form = f /\ ui'.quote = Failed /\ ui'.quoteSeq = ui.quoteSeq
              /\ ui'.timer = ui.timer /\ ui'.reverseTimer = ui.reverseTimer /\ IsUiRecord(ui')
          BY <1>0, <5>1, UiQuote
        <5>3. Failed.status # "ready"
          BY DEF Failed
        <5> QED
          BY <1>0, <5>2, <5>3 DEF PanelHolds
      <4>3. CASE result.legs # <<>>
        <5>1. ui' = Render(quoted, g)
          BY <4>1, <4>3
        <5>2. IsSound(result, a.key.amount) /\ result.totalOut \in Nat
          <6>1. a.key.amount \in Nat \ {0} /\ a.key.pools \in PoolLists
            BY <2>2 DEF IsKey
          <6> QED
            BY <4>3, <6>1, AggregateIsSound
        <5>3. ready.status = "ready" /\ ready.key = a.key /\ ready.result = result
          OBVIOUS
        <5> HIDE DEF ready
        <5>4. /\ quoted.form = f /\ quoted.quote = ready /\ quoted.quoteSeq = ui.quoteSeq
              /\ quoted.timer = ui.timer /\ quoted.reverseTimer = ui.reverseTimer
              /\ IsUiRecord(quoted)
          BY <1>0, UiQuote
        <5>5. /\ IsForm(g) /\ g.alt = f.alt /\ g.mode = f.mode /\ g.amountIn = f.amountIn
          BY <1>0, <5>2, FormAmountOut
        <5>6. TokenIn(g) = TokenIn(f) /\ TokenOut(g) = TokenOut(f)
          BY <5>5 DEF TokenIn, TokenOut
        <5> HIDE DEF quoted, g
        <5>7. PanelHolds(quoted, asks)
          BY <1>0, <2>2, <3>2, <5>2, <5>3, <5>4 DEF PanelHolds
        <5>8. PanelHolds(Render(quoted, g), asks)
          BY <5>4, <5>5, <5>6, <5>7, RenderHolds
        <5> QED
          BY <5>1, <5>8
      <4> QED
        BY <4>2, <4>3
    <3> QED
      BY <3>1, <3>2
  <2>4. PanelHolds(ui', asks')
    <3>1. asks' \subseteq asks
      BY <2>1
    <3> QED
      BY <2>3, <3>1 DEF PanelHolds
  <2>5. PanelHolds(ui, asks)'
    BY <2>4 DEF PanelHolds
  <2> QED
    BY <1>0, <2>1, <2>5 DEF SwapInv
<1>4. ASSUME NEW a \in reverseAsks, ReverseArrives(a) PROVE SwapInv'
  <2> DEFINE u == [ui EXCEPT !.reverseLoading = FALSE]
             g(need) == [f EXCEPT !.amountIn = need, !.direction = "exact-in"]
  <2>0. UNCHANGED registry
    BY <1>4 DEF ReverseArrives
  <2>1. a.key.amount \in Nat /\ a.key.pools \in PoolLists
    BY <1>0 DEF IsKey
  <2>2. \/ ReverseAnswered(a, ui)
        \/ ReverseAnswered(a, [u EXCEPT !.reverseError = TRUE, !.quote = NoQuote])
        \/ \E need \in CheapestInputs(a.key.in, a.key.out, a.key.amount, a.key.pools) :
              ReverseAnswered(a, Render(u, g(need)))
        \/ GoesDown
    BY <1>4 DEF ReverseArrives
  <2>3. ASSUME NEW next, PanelHolds(next, asks), ReverseAnswered(a, next) PROVE SwapInv'
    <3>1. /\ ui' = next /\ reverseAsks' = reverseAsks \ {a} /\ UNCHANGED <<asks, loads>>
      BY <2>3 DEF ReverseAnswered
    <3>2. PanelHolds(ui', asks')
      BY <2>3, <3>1
    <3>3. PanelHolds(ui, asks)'
      BY <3>2 DEF PanelHolds
    <3> QED
      BY <1>0, <2>0, <3>1, <3>3 DEF SwapInv
  <2>4. /\ u.form = f /\ u.quote = ui.quote /\ u.quoteSeq = ui.quoteSeq
        /\ u.timer = ui.timer /\ u.reverseTimer = ui.reverseTimer /\ IsUiRecord(u)
    BY <1>0, UiLoading
  <2>5. CASE ReverseAnswered(a, ui)
    BY <1>0, <2>3, <2>5
  <2>6. CASE ReverseAnswered(a, [u EXCEPT !.reverseError = TRUE, !.quote = NoQuote])
    <3> DEFINE next == [u EXCEPT !.reverseError = TRUE, !.quote = NoQuote]
    <3>1. /\ next.form = f /\ next.quote = NoQuote /\ next.quoteSeq = ui.quoteSeq
          /\ next.timer = ui.timer /\ next.reverseTimer = ui.reverseTimer /\ IsUiRecord(next)
      <4> HIDE DEF u
      <4> DEFINE flagged == [u EXCEPT !.reverseError = TRUE]
      <4>1. /\ flagged.form = u.form /\ flagged.quote = u.quote /\ flagged.quoteSeq = u.quoteSeq
            /\ flagged.timer = u.timer /\ flagged.reverseTimer = u.reverseTimer
            /\ IsUiRecord(flagged)
        BY <2>4, UiError
      <4>2. next = [flagged EXCEPT !.quote = NoQuote]
        OBVIOUS
      <4> HIDE DEF flagged, next
      <4> QED
        BY <2>4, <4>1, <4>2, UiQuote
    <3>2. NoQuote.status # "ready"
      BY DEF NoQuote
    <3> HIDE DEF next
    <3>3. PanelHolds(next, asks)
      BY <1>0, <3>1, <3>2 DEF PanelHolds
    <3>4. ReverseAnswered(a, next)
      BY <2>6 DEF next
    <3> QED
      BY <2>3, <3>3, <3>4
  <2>7. ASSUME NEW need \in CheapestInputs(a.key.in, a.key.out, a.key.amount, a.key.pools),
               ReverseAnswered(a, Render(u, g(need)))
        PROVE  SwapInv'
    <3> DEFINE found == g(need)
    <3>1. need \in Nat
      BY <2>1, CheapestInputsNat
    <3>2. IsForm(found) /\ found.alt = f.alt /\ found.direction = "exact-in"
      BY <1>0, <3>1, FormAmountIn
    <3>3. ReverseAnswered(a, Render(u, found))
      BY <2>7
    <3> HIDE DEF u, found
    <3>4. PanelHolds(u, asks)
      BY <1>0, <2>4 DEF PanelHolds
    <3>5. PanelHolds(Render(u, found), asks)
      BY <2>4, <3>2, <3>4, RenderHolds
    <3> QED
      BY <2>3, <3>3, <3>5
  <2>8. CASE GoesDown
    BY <2>0, <2>8, DownKeepsSwapInv
  <2> HIDE DEF u, g
  <2> QED
    BY <2>2, <2>5, <2>6, <2>7, <2>8
<1> QED
  BY <1>1, <1>2, <1>3, <1>4

\* The swap clears the form when it lands.
LEMMA SwapsKeepSwapInv ==
    ASSUME SwapInv, HandleSwap \/ SwapAnswers
    PROVE  SwapInv'
<1> DEFINE f == ui.form
           u == [ui EXCEPT !.quote = NoQuote]
           c == Cleared(f)
<1>0. /\ PanelHolds(ui, asks) /\ IsUiRecord(ui) /\ IsForm(f)
      /\ registry \in Registries /\ loads \subseteq Registries
      /\ \A a \in reverseAsks : IsKey(a.key)
  BY DEF SwapInv, PanelHolds
<1>1. UNCHANGED <<asks, reverseAsks, loads, registry>> /\ (ui' = ui \/ ui' = Render(u, c))
  BY DEF HandleSwap, SwapAnswers
<1>2. PanelHolds(u, asks)
  <2>1. /\ u.form = f /\ u.quote = NoQuote /\ u.quoteSeq = ui.quoteSeq
        /\ u.timer = ui.timer /\ u.reverseTimer = ui.reverseTimer /\ IsUiRecord(u)
    BY <1>0, UiQuote
  <2>2. NoQuote.status # "ready"
    BY DEF NoQuote
  <2> HIDE DEF u
  <2> QED
    BY <1>0, <2>1, <2>2 DEF PanelHolds
<1>3. IsForm(c) /\ c.alt = f.alt /\ c.direction = "exact-in" /\ u.form = f
  BY <1>0, FormCleared, UiQuote
<1>4. PanelHolds(Render(u, c), asks)
  <2> HIDE DEF u, c
  <2> QED
    BY <1>2, <1>3, RenderHolds
<1>5. PanelHolds(ui, asks)'
  <2>1. PanelHolds(ui', asks')
    <3> HIDE DEF u, c
    <3> QED
      BY <1>0, <1>1, <1>4
  <2> QED
    BY <2>1 DEF PanelHolds
<1> QED
  BY <1>0, <1>1, <1>5 DEF SwapInv

\* components/scenarios/SmartSwap.tsx: so it stays, through edits, reloads, late
\* answers and swaps.
THEOREM SwapInvariance == SwapSpec => []SwapInv
<1>1. SwapInv /\ [SwapNext]_swapVars => SwapInv'
  <2> SUFFICES ASSUME SwapInv, [SwapNext]_swapVars PROVE SwapInv'
    OBVIOUS
  <2>1. CASE SwapNext
    <3>1. CASE \E l \in loads : PoolsArrive(l, l) \/ PoolsArrive(l, <<>>)
      BY <3>1, PoolsKeepSwapInv
    <3>2. CASE ~ \E l \in loads : PoolsArrive(l, l) \/ PoolsArrive(l, <<>>)
      BY <2>1, <3>2, EditsKeepSwapInv, QuotesKeepSwapInv, SwapsKeepSwapInv DEF SwapNext
    <3> QED
      BY <3>1, <3>2
  <2>2. CASE UNCHANGED swapVars
    <3>1. PanelHolds(ui', asks') /\ UNCHANGED <<reverseAsks, loads, registry>>
      BY <2>2 DEF SwapInv, swapVars
    <3>2. PanelHolds(ui, asks)'
      BY <3>1 DEF PanelHolds
    <3> QED
      BY <3>1, <3>2 DEF SwapInv
  <2> QED
    BY <2>1, <2>2
<1> QED
  BY <1>1, SwapInvInit, PTL DEF SwapSpec

\* components/scenarios/SmartSwap.tsx: a quote on screen is the one of the form
\* beside it, and a sound one, whatever crossed whatever.
THEOREM QuoteAlwaysMatches == SwapSpec => []QuoteMatchesForm
<1>1. SwapInv => QuoteMatchesForm
  BY DEF SwapInv, PanelHolds, Matches, QuoteMatchesForm
<1> QED
  BY <1>1, SwapInvariance, PTL
=============================================================================
