--------------------------- MODULE SponsorGateway ---------------------------
(***************************************************************************)
(* The sponsored transactions of functions/_lib/stellar.ts behind the      *)
(* resolve, ensure-trustline, bootstrap and execute endpoints.  A handler  *)
(* reads the chain, builds a transaction on the sequence number it read,   *)
(* submits it and polls; other handlers and the network move in between.   *)
(* Every transaction the sponsor pays from its own account uses one        *)
(* sequence, so handlers of different users disturb each other.  The same  *)
(* records run the wallet's own calls (contexts/WalletContext.tsx).        *)
(***************************************************************************)
EXTENDS Integers, Sequences, FiniteSets

CONSTANTS
    Account,    \* wallets, typed addresses and accounts derived from emails
    Sponsor,    \* the gas sponsor's own account
    Slot,       \* handlers that may run at the same time
    InitialLedger,  \* accounts the run starts from
    MaxTxs      \* bound: transactions the network accepts

ASSUME GatewayAssumption ==
    /\ Sponsor \notin Account /\ MaxTxs \in Nat
    /\ InitialLedger \subseteq [Account -> {"none", "bare", "trusting"}]

VARIABLES
    ledger,     \* ledger[a]: "none", "bare" (funded) or "trusting" (with the USDC trustline)
    sequence,   \* sequence[a]: transactions applied from source a
    archived,   \* the contract state a call touches has expired
    txs,        \* transactions the network accepted, in order
    req         \* req[s]: the handler in slot s

gatewayVars == <<ledger, sequence, archived, txs, req>>

NoAccount == "nobody"

Idle == [op |-> "none", target |-> NoAccount, from |-> NoAccount, to |-> NoAccount,
         pc |-> "idle", effect |-> "none", seq |-> 0, restored |-> FALSE,
         tx |-> 0, reply |-> "none"]

\* A finished handler keeps only what its caller reads.
Answered(q, reply) ==
    [q EXCEPT !.pc = "done", !.effect = "none", !.seq = 0, !.restored = FALSE, !.reply = reply]

Reply(s, reply) == req' = [req EXCEPT ![s] = Answered(@, reply)]

Goto(s, pc, effect) == req' = [req EXCEPT ![s].pc = pc, ![s].effect = effect]

-----------------------------------------------------------------------------
\* Handlers.

\* POST resolve or ensure-trustline ("ensure") and bootstrap, for account a.
AcceptFor(s, op, a) ==
    req' = [req EXCEPT ![s] = [Idle EXCEPT !.op = op, !.target = a, !.pc = "read"]]

\* POST execute: the key is derived from the session, never taken from the
\* arguments, which name the account the transfer is from.
AcceptExecute(s, session, from, to) ==
    LET q == [Idle EXCEPT !.op = "execute", !.target = session, !.from = from, !.to = to]
    IN  req' = [req EXCEPT ![s] =
                    IF session = NoAccount THEN Answered(q, "error") ELSE [q EXCEPT !.pc = "read"]]

\* Horizon's answer may be behind the ledger, which only moves forward here.
Past(state) ==
    CASE state = "none" -> {"none"}
      [] state = "bare" -> {"none", "bare"}
      [] OTHER          -> {"none", "bare", "trusting"}

\* ensureBootstrappedWithUsdcTrustline: three branches on what Horizon says.
EnsureTrustline(s) ==
    /\ req[s].op = "ensure" /\ req[s].pc = "read"
    /\ \E seen \in Past(ledger[req[s].target]) :
          CASE seen = "none" -> Goto(s, "load", "create+trust")
            [] seen = "bare" -> Goto(s, "load", "trust")
            [] OTHER         -> Reply(s, "ok")
    /\ UNCHANGED <<ledger, sequence, archived, txs>>

\* ensureAccountBootstrapped, alone or as the first step of execute.
EnsureBootstrapped(s) ==
    /\ req[s].op \in {"bootstrap", "execute"} /\ req[s].pc = "read"
    /\ IF ledger[req[s].target] = "none" THEN Goto(s, "load", "create")
       ELSE IF req[s].op = "bootstrap" THEN Reply(s, "ok")
       ELSE Goto(s, "build", "none")
    /\ UNCHANGED <<ledger, sequence, archived, txs>>

\* The sponsor pays restores and classic transactions; a wallet restores for itself.
SourceOf(q) ==
    IF q.op = "wallet" \/ q.effect = "call" THEN q.target ELSE Sponsor

\* loadSponsorAccount, or a wallet's getAccount before its restore.
LoadSource(s) ==
    /\ req[s].pc = "load"
    /\ req' = [req EXCEPT ![s].seq = sequence[SourceOf(req[s])] + 1,
                          ![s].pc = IF req[s].op = "wallet" THEN "sign" ELSE "send"]
    /\ UNCHANGED <<ledger, sequence, archived, txs>>

\* A transfer simulates when the source signs for its own account and the
\* recipient has a classic account; the contract may refuse it all the same.
Simulates(q) == q.from = q.target /\ ledger[q.to] # "none"

\* prepareContractCall: simulate; restore expired state once; simulate again.
Prepare(s) ==
    /\ req[s].pc = "build"
    /\ \/ Reply(s, "error")
       \/ /\ Simulates(req[s]) /\ archived /\ ~req[s].restored
          /\ Goto(s, "load", "restore")
       \/ /\ Simulates(req[s]) /\ ~archived
          /\ req' = [req EXCEPT ![s].effect = "call",
                                ![s].seq = sequence[req[s].target] + 1,
                                ![s].pc = IF req[s].op = "wallet" THEN "sign" ELSE "send"]
    /\ UNCHANGED <<ledger, sequence, archived, txs>>

\* sendTransaction: a used sequence number is refused at once; otherwise the
\* transaction waits for a ledger, whether or not its answer reaches the caller.
Submit(s) ==
    LET q == req[s] IN
    /\ q.pc = "send" /\ Len(txs) < MaxTxs
    /\ IF q.seq <= sequence[SourceOf(q)]
       THEN Reply(s, "error") /\ UNCHANGED txs
       ELSE /\ txs' = Append(txs, [source |-> SourceOf(q), seq |-> q.seq, effect |-> q.effect,
                                   target |-> q.target, to |-> q.to, state |-> "pending"])
            /\ \/ req' = [req EXCEPT ![s].pc = "poll", ![s].tx = Len(txs) + 1]
               \/ Reply(s, "error")
    /\ UNCHANGED <<ledger, sequence, archived>>

AfterSuccess(q) ==
    CASE q.effect = "restore"                     -> [q EXCEPT !.pc = "build", !.restored = TRUE]
      [] q.effect = "create" /\ q.op = "execute"  -> [q EXCEPT !.pc = "build"]
      [] OTHER                                    -> Answered(q, "ok")

\* pollForSuccess: a terminal status ends the wait.
PollStatus(s) ==
    /\ req[s].pc = "poll"
    /\ \/ /\ txs[req[s].tx].state = "success"
          /\ req' = [req EXCEPT ![s] = AfterSuccess(@)]
       \/ /\ txs[req[s].tx].state = "failed"
          /\ Reply(s, "error")
    /\ UNCHANGED <<ledger, sequence, archived, txs>>

\* Mutant: past the last try the hash is returned, as the comment above the loop says.
TimeoutAsSuccess(q) == AfterSuccess(q)

\* What the gateway makes of forty polls without a terminal status.
TimedOut(q) == Answered(q, "error")

\* The gateway stops polling; a wallet's loop has no bound.
GiveUp(s) ==
    /\ req[s].pc = "poll" /\ req[s].op # "wallet"
    /\ txs[req[s].tx].state \in {"pending", "gone"}
    /\ req' = [req EXCEPT ![s] = TimedOut(@)]
    /\ UNCHANGED <<ledger, sequence, archived, txs>>

\* A read, a submission or a poll throws and the handler answers 500.
Fault(s) ==
    /\ req[s].pc \in {"read", "load", "send", "poll"}
    /\ Reply(s, "error")
    /\ UNCHANGED <<ledger, sequence, archived, txs>>

-----------------------------------------------------------------------------
\* The network (external).

Applies(t) ==
    CASE t.effect \in {"create", "create+trust"} -> ledger[t.target] = "none"
      [] t.effect = "trust"                      -> ledger[t.target] # "none"
      [] OTHER                                   -> TRUE

\* A ledger takes the next transaction of its source; a failed one uses the
\* sequence number up too.
Include(i) ==
    LET t == txs[i] IN
    /\ t.state = "pending" /\ t.seq = sequence[t.source] + 1
    /\ sequence' = [sequence EXCEPT ![t.source] = @ + 1]
    /\ \/ /\ Applies(t)
          /\ txs' = [txs EXCEPT ![i].state = "success"]
          /\ ledger' = CASE t.effect = "create"                    -> [ledger EXCEPT ![t.target] = "bare"]
                         [] t.effect \in {"create+trust", "trust"} -> [ledger EXCEPT ![t.target] = "trusting"]
                         [] OTHER                                  -> ledger
          /\ archived' = (archived /\ t.effect # "restore")
       \/ /\ ~Applies(t) \/ t.effect = "call"
          /\ txs' = [txs EXCEPT ![i].state = "failed"]
          /\ UNCHANGED <<ledger, archived>>
    /\ UNCHANGED req

\* Sixty seconds pass, or another transaction took the sequence number.
Expire(i) ==
    /\ txs[i].state = "pending"
    /\ txs' = [txs EXCEPT ![i].state = "gone"]
    /\ UNCHANGED <<ledger, sequence, archived, req>>

-----------------------------------------------------------------------------
GatewayInit ==
    /\ ledger \in InitialLedger
    /\ sequence = [a \in Account \cup {Sponsor} |-> 0]
    /\ archived \in BOOLEAN
    /\ txs = <<>>
    /\ req = [s \in Slot |-> Idle]

GatewayStep ==
    \/ \E s \in Slot :
          \/ EnsureTrustline(s) \/ EnsureBootstrapped(s) \/ LoadSource(s)
          \/ Prepare(s) \/ Submit(s) \/ PollStatus(s) \/ GiveUp(s) \/ Fault(s)
    \/ \E i \in DOMAIN txs : Include(i) \/ Expire(i)

\* A handler that answers success leaves what its caller relies on: resolve
\* and ensure-trustline an account with the trustline, bootstrap an account,
\* execute and the wallet a call that is on the ledger, whichever handlers ran
\* in between, whatever Horizon had not seen yet and however long polling took.
OkMeansReady ==
    \A s \in Slot : req[s].reply = "ok" =>
        CASE req[s].op = "ensure"    -> ledger[req[s].target] = "trusting"
          [] req[s].op = "bootstrap" -> ledger[req[s].target] # "none"
          [] OTHER                   -> /\ txs[req[s].tx].effect = "call"
                                        /\ txs[req[s].tx].state = "success"
=============================================================================
