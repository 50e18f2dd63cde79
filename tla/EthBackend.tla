----------------------------- MODULE EthBackend -----------------------------
(***************************************************************************)
(* The Ethereum backend of one channel: Funder.Fund with its depositors,   *)
(* Adjudicator.Register and Withdraw (ensureConcluded, ensureWithdrawn),   *)
(* the nonces ContractBackend gives to transactions, and the event         *)
(* subscriptions they all wait on.                                         *)
(*                                                                         *)
(* Each participant has one account and makes one call at a time; a Fund   *)
(* that failed is tried again.  A transaction that was sent may stay in    *)
(* the pool for any time, and is mined after those with smaller nonces of  *)
(* its account.  The contracts are external: what they do is taken from    *)
(* how the backend calls them and which events it expects.                 *)
(***************************************************************************)
EXTENDS Integers, Sequences, SequencesExt, FiniteSets

CONSTANTS
  Parts,            \* participants, 1..n
  Depositor,        \* Depositor[a] \in {"ETH", "ERC20"}, one for each asset
  Agreement,        \* Agreement[a][p]: the funding agreement
  Outcome,          \* Outcome[a][p]: balances of the state that is settled
  Registered,       \* Registered[p]: assets registered before the first Fund
  MaxFunds,         \* MaxFunds[p]: calls of Fund
  Disputers,        \* participants who may call Register
  MaxSendFailures,  \* transactions that cannot be sent
  MaxCancels        \* MaxCancels[p]: contexts of p that end while a call runs

VARIABLES
  pool,      \* transactions sent and not mined
  mined,     \* <<account, nonce, succeeded>> of the mined ones
  nonce,     \* nonce[p]: the next nonce the chain takes from p
  expectedNextNonce,
  unsent,    \* <<account, nonce>> that was taken and never sent (history)
  log,       \* the events of the chain
  holdings,  \* holdings[a][p] in the asset holders
  allowance, \* allowance[p] of the token
  dispute,   \* "none", "dispute", "elapsed", "concluded"
  paid,      \* paid[a][p]: sum of the withdrawals
  assets,    \* assets[p]: assets registered in p's funder
  call,      \* call[p]: the call p is in
  wait,      \* wait[p][a]: the goroutine of the call for asset a
  final,     \* whether the state that is settled is final
  cancels    \* cancels[p]: contexts that ended so far

chainVars == <<pool, mined, nonce, log, holdings, allowance, dispute, paid>>
vars == <<chainVars, expectedNextNonce, unsent, assets, call, wait, final, cancels>>

Assets == DOMAIN Depositor
Concluded == dispute = "concluded"

\* The sum of a sequence of amounts.
Total(row) ==
  LET sum[i \in 0..Len(row)] == IF i = 0 THEN 0 ELSE sum[i - 1] + row[i]
  IN sum[Len(row)]

\* The state that is settled holds as much of each asset as was agreed on.
ASSUME ChannelAssumption ==
  /\ IsFiniteSet(Parts) /\ Parts = 1..Cardinality(Parts)
  /\ Depositor \in Seq({"ETH", "ERC20"}) \ {<<>>}
  /\ Agreement \in [Assets -> [Parts -> Nat]] /\ Outcome \in [Assets -> [Parts -> Nat]]
  /\ \A a \in Assets : Total(Outcome[a]) = Total(Agreement[a])
  /\ Registered \in [Parts -> SUBSET Assets]

\* ctx: not ended; err: a goroutine failed; funds: calls of Fund so far.
NoCall == [op |-> "none", pc |-> "idle", k |-> 0, txs |-> <<>>, ctx |-> TRUE,
           err |-> FALSE, res |-> "none", funds |-> 0]
NoWait == [pc |-> "none", pos |-> 0, left |-> <<>>, n |-> 0, again |-> FALSE, tx |-> 0]

Init ==
  /\ pool = {} /\ mined = {} /\ unsent = {} /\ log = <<>>
  /\ nonce = [p \in Parts |-> 0]
  /\ expectedNextNonce = [p \in Parts |-> 0]
  /\ holdings = [a \in Assets |-> [p \in Parts |-> 0]]
  /\ allowance = [p \in Parts |-> 0]
  /\ dispute = "none"
  /\ paid = [a \in Assets |-> [p \in Parts |-> 0]]
  /\ assets = Registered
  /\ call = [p \in Parts |-> NoCall]
  /\ wait = [p \in Parts |-> [a \in Assets |-> NoWait]]
  /\ final \in BOOLEAN
  /\ cancels = [p \in Parts |-> 0]

-----------------------------------------------------------------------------
(* Transactions *)

SetCall(p, c) == call' = [call EXCEPT ![p] = c]
At(p, op, pc) == call[p].op = op /\ call[p].pc = pc

\* What PendingNonceAt may answer: a node knows of the transactions without a
\* gap, or of fewer.
PendingNonces(p) ==
  {n \in nonce[p]..(nonce[p] + 3) :
     \A k \in nonce[p]..(n - 1) : \E t \in pool : t.acc = p /\ t.nonce = k}

\* Mutant: the nonce is what the node says.
NewTransactorPending(p, pending) == pending

\* The nonce of the next transaction.
NewTransactor(p, pending) ==
  IF pending < expectedNextNonce[p] THEN expectedNextNonce[p] ELSE pending

\* A transaction is built and sent; or sending fails after the nonce was taken.
Send(p, n, fn, a, amount) ==
  /\ pool' = pool \cup {[acc |-> p, nonce |-> n, fn |-> fn, asset |-> a, amount |-> amount]}
  /\ expectedNextNonce' = [expectedNextNonce EXCEPT ![p] = n + 1]
  /\ UNCHANGED <<mined, nonce, log, holdings, allowance, dispute, paid, unsent>>
SendFails(p, n) ==
  /\ Cardinality(unsent) < MaxSendFailures
  /\ unsent' = unsent \cup {<<p, n>>}
  /\ expectedNextNonce' = [expectedNextNonce EXCEPT ![p] = n + 1]
  /\ UNCHANGED chainVars

TxSucceeded(p, n) == <<p, n, TRUE>> \in mined
TxFailed(p, n) == <<p, n, FALSE>> \in mined

-----------------------------------------------------------------------------
(* The contracts *)

Event(name, a, p, amount) ==
  [name |-> name, asset |-> a, part |-> p, amount |-> amount]
\* Mutant: the filter of the funding id is missing.
SeenUnfiltered(name, a, p) == \E i \in DOMAIN log : log[i].name = name

\* An event that a subscription with its filter has delivered or will deliver.
Seen(name, a, p) ==
  \E i \in DOMAIN log : log[i].name = name /\ log[i].asset = a /\ log[i].part = p

\* Whether a call is not reverted, and what it does.
Succeeds(t) ==
  CASE t.fn = "increaseAllowance" -> TRUE
    [] t.fn = "deposit" -> Depositor[t.asset] = "ERC20" => allowance[t.acc] >= t.amount
    [] t.fn = "register" -> dispute \in {"none", "dispute"}
    [] t.fn = "concludeFinal" -> ~Concluded
    [] t.fn = "conclude" -> dispute = "elapsed"
    [] OTHER -> Concluded /\ holdings[t.asset][t.acc] >= t.amount

Deposit(t) ==
  /\ holdings' = [holdings EXCEPT ![t.asset][t.acc] = @ + t.amount]
  /\ allowance' = IF Depositor[t.asset] = "ERC20"
                  THEN [allowance EXCEPT ![t.acc] = @ - t.amount] ELSE allowance
  /\ log' = Append(log, Event("Deposited", t.asset, t.acc, t.amount))
  /\ UNCHANGED <<dispute, paid>>
IncreaseAllowance(t) ==
  /\ allowance' = [allowance EXCEPT ![t.acc] = @ + t.amount]
  /\ UNCHANGED <<holdings, log, dispute, paid>>
Register(t) ==
  /\ dispute' = "dispute"
  /\ log' = Append(log, Event("Registered", 0, 0, 0))
  /\ UNCHANGED <<holdings, allowance, paid>>
\* Concluding sets the outcome in the asset holders that hold enough for it.
Conclude(t) ==
  /\ dispute' = "concluded"
  /\ holdings' = [a \in Assets |->
       IF Total(holdings[a]) >= Total(Outcome[a]) THEN Outcome[a] ELSE holdings[a]]
  /\ log' = Append(log, Event("Concluded", 0, 0, 0))
  /\ UNCHANGED <<allowance, paid>>
Withdraw(t) ==
  /\ holdings' = [holdings EXCEPT ![t.asset][t.acc] = @ - t.amount]
  /\ paid' = [paid EXCEPT ![t.asset][t.acc] = @ + t.amount]
  /\ log' = Append(log, Event("Withdrawn", t.asset, t.acc, t.amount))
  /\ UNCHANGED <<allowance, dispute>>

Mine(t) ==
  /\ t \in pool /\ t.nonce = nonce[t.acc]
  /\ pool' = pool \ {t}
  /\ nonce' = [nonce EXCEPT ![t.acc] = @ + 1]
  /\ mined' = mined \cup {<<t.acc, t.nonce, Succeeds(t)>>}
  /\ \/ /\ ~Succeeds(t)
        /\ UNCHANGED <<log, holdings, allowance, dispute, paid>>
     \/ /\ Succeeds(t)
        /\ \/ t.fn = "deposit" /\ Deposit(t)
           \/ t.fn = "increaseAllowance" /\ IncreaseAllowance(t)
           \/ t.fn = "register" /\ Register(t)
           \/ t.fn \in {"conclude", "concludeFinal"} /\ Conclude(t)
           \/ t.fn = "withdraw" /\ Withdraw(t)
  /\ UNCHANGED <<expectedNextNonce, unsent, assets, call, wait, final, cancels>>

\* The challenge duration is over.
Elapse ==
  /\ dispute = "dispute"
  /\ dispute' = "elapsed"
  /\ UNCHANGED <<pool, mined, nonce, log, holdings, allowance, paid,
                 expectedNextNonce, unsent, assets, call, wait, final, cancels>>

-----------------------------------------------------------------------------
(* Funder *)

\* RegisterAsset waits for running calls of Fund.
RegisterAsset(p, a) ==
  /\ a \notin assets[p] /\ ~(call[p].op = "fund" /\ call[p].res = "none")
  /\ assets' = [assets EXCEPT ![p] = @ \cup {a}]
  /\ UNCHANGED <<chainVars, expectedNextNonce, unsent, call, wait, final, cancels>>

\* depositedSub and countZeroBalances.
Waiter(a) ==
  LET n == Cardinality({q \in Parts : Agreement[a][q] # 0})
  IN [NoWait EXCEPT !.pc = IF n = 0 THEN "ok" ELSE "wait", !.left = Agreement[a], !.n = n]

Fund(p) ==
  /\ call[p].op \in {"none", "fund"} /\ call[p].pc = "idle"
  /\ call[p].funds < MaxFunds[p] /\ call[p].res # "nil"
  /\ SetCall(p, [NoCall EXCEPT !.op = "fund", !.pc = "assets", !.k = 1,
                               !.funds = call[p].funds + 1])
  /\ wait' = [wait EXCEPT ![p] = [a \in Assets |-> Waiter(a)]]
  /\ UNCHANGED <<chainVars, expectedNextNonce, unsent, assets, final, cancels>>

\* What p has deposited of asset a so far.
deposited(p, a) ==
  Total([i \in DOMAIN log |->
           IF log[i].name = "Deposited" /\ log[i].asset = a /\ log[i].part = p
           THEN log[i].amount ELSE 0])

\* checkFunded sums the past deposits of our own.
checkFunded(p, a, amount) == amount <= deposited(p, a)

Skips(p, a) ==
  Agreement[a][p] = 0 \/ checkFunded(p, a, Agreement[a][p])

\* The transactions of the depositors: the token's deposit needs an allowance.
ETHDeposit == <<"deposit">>
ERC20Deposit == <<"increaseAllowance", "deposit">>
NextFn(a, c) ==
  LET fns == IF Depositor[a] = "ERC20" THEN ERC20Deposit ELSE ETHDeposit
  IN IF c.pc = "assets" THEN Head(fns) ELSE Last(fns)

\* sendFundingTx for asset k, in one step for each transaction.
sendFundingTx(p) ==
  LET c == call[p]
      a == c.k
      next == [c EXCEPT !.k = a + 1, !.pc = IF a + 1 \in Assets THEN "assets" ELSE "confirm"]
  IN /\ c.op = "fund" /\ c.pc \in {"assets", "deposit"}
     /\ \/ /\ c.pc = "assets" /\ (Skips(p, a) \/ a \notin assets[p])
           /\ SetCall(p, [next EXCEPT !.err = c.err \/ ~Skips(p, a)])
           /\ UNCHANGED <<chainVars, expectedNextNonce, unsent>>
        \/ /\ c.pc = "deposit" \/ (~Skips(p, a) /\ a \in assets[p])
           /\ \E pending \in PendingNonces(p) :
                LET n == NewTransactor(p, pending)
                    fn == NextFn(a, c)
                IN \/ /\ Send(p, n, fn, a, Agreement[a][p])
                      /\ SetCall(p, IF fn = "deposit"
                                    THEN [next EXCEPT !.txs = Append(c.txs, n)]
                                    ELSE [c EXCEPT !.pc = "deposit", !.txs = Append(c.txs, n)])
                   \/ /\ SendFails(p, n)
                      \* the transactions of this asset are not awaited
                      /\ SetCall(p, [next EXCEPT !.err = TRUE,
                           !.txs = IF c.pc = "deposit" THEN Front(c.txs) ELSE c.txs])
     /\ UNCHANGED <<assets, wait, final, cancels>>

\* Fund returns; the deferred cancel ends the goroutines.
Return(p, res) ==
  /\ SetCall(p, [call[p] EXCEPT !.pc = "idle", !.res = res, !.txs = <<>>, !.k = 0,
                                !.err = FALSE])
  /\ wait' = [wait EXCEPT ![p] = [a \in Assets |-> NoWait]]

ConfirmTransaction(p) ==
  LET c == call[p]
  IN /\ At(p, "fund", "confirm")
     /\ \/ /\ c.txs # <<>> /\ TxSucceeded(p, Head(c.txs))
           /\ SetCall(p, [c EXCEPT !.txs = Tail(@)]) /\ UNCHANGED wait
        \/ c.txs # <<>> /\ TxFailed(p, Head(c.txs)) /\ Return(p, "other")
        \/ c.txs # <<>> /\ ~c.ctx /\ Return(p, "txTimedOut")
        \/ c.txs = <<>> /\ SetCall(p, [c EXCEPT !.pc = "wait"]) /\ UNCHANGED wait
     /\ UNCHANGED <<chainVars, expectedNextNonce, unsent, assets, final, cancels>>

\* Mutant: a deposit that is read twice counts twice.
CountDouble(w, e) ==
  LET left == w.left[e.part] - e.amount
  IN [w EXCEPT !.left[e.part] = IF left <= 0 THEN 0 ELSE left,
               !.n = IF left <= 0 THEN @ - 1 ELSE @]

\* A Deposited event; events of participants who have funded are ignored.
Count(w, e) ==
  IF w.left[e.part] = 0 THEN w
  ELSE LET left == w.left[e.part] - e.amount
       IN [w EXCEPT !.left[e.part] = IF left <= 0 THEN 0 ELSE left,
                    !.n = IF left <= 0 THEN @ - 1 ELSE @]

\* EventSub delivers the events of an asset holder in their order: the next one
\* after position pos of the log is at i.
NextDeposit(a, pos, i) ==
  LET deposit(j) == log[j].name = "Deposited" /\ log[j].asset = a
  IN deposit(i) /\ \A j \in (pos + 1)..(i - 1) : ~deposit(j)

\* Past events, then future ones.  One that is mined between the two queries of
\* NewEventSub is read twice.
Read(w, i) ==
  {[w EXCEPT !.pos = i, !.again = FALSE]}
    \cup (IF w.again THEN {} ELSE {[w EXCEPT !.again = TRUE]})

waitForFundingConfirmation(p, a) ==
  LET w == wait[p][a]
      set(x) == wait' = [wait EXCEPT ![p][a] =
                           IF x.pc = "wait" /\ x.n <= 0 THEN [x EXCEPT !.pc = "ok"] ELSE x]
  IN /\ call[p].op = "fund" /\ w.pc = "wait"
     /\ \/ \E i \in (w.pos + 1)..Len(log) :
             NextDeposit(a, w.pos, i) /\ \E r \in Read(w, i) : set(Count(r, log[i]))
        \* the context ended: which case of the select is taken is random
        \/ ~call[p].ctx /\ \E r \in {"timedOut", "ctxErr"} : set([w EXCEPT !.pc = r])
     /\ UNCHANGED <<chainVars, expectedNextNonce, unsent, assets, call, final, cancels>>

\* The errors the Gatherer has: of the confirmations, and of sending.
gathered(p) ==
  ({wait[p][a].pc : a \in Assets} \cap {"timedOut", "ctxErr"})
    \cup (IF call[p].err THEN {"txErr"} ELSE {})

\* Gatherer.Wait: every goroutine has returned.
errgWait(p) == \A a \in Assets : wait[p][a].pc # "wait"

\* Funding errors are reported before others.
FundReturns(p) ==
  /\ At(p, "fund", "wait") /\ errgWait(p)
  /\ Return(p, IF "timedOut" \in gathered(p) THEN "FundingTimeout"
               ELSE IF gathered(p) # {} THEN "other" ELSE "nil")
  /\ UNCHANGED <<chainVars, expectedNextNonce, unsent, assets, final, cancels>>

\* The funding timeout elapses or the caller's context ends.
CtxDone(p) ==
  /\ call[p].ctx /\ call[p].pc # "idle"
  /\ cancels[p] < MaxCancels[p] /\ cancels' = [cancels EXCEPT ![p] = @ + 1]
  /\ SetCall(p, [call[p] EXCEPT !.ctx = FALSE])
  /\ UNCHANGED <<chainVars, expectedNextNonce, unsent, assets, wait, final>>

-----------------------------------------------------------------------------
(* Adjudicator *)

\* Register and Withdraw are called on a channel that was funded, Withdraw again
\* when it failed.
CallAdjudicator(p, op) ==
  /\ call[p].pc = "idle" /\ (op = "register" => p \in Disputers)
  /\ \/ call[p].op = "fund" /\ call[p].res = "nil"
     \/ call[p].op = "register" /\ op = "withdraw"
     \/ call[p].op = "withdraw" /\ op = "withdraw" /\ call[p].res # "nil"
  /\ SetCall(p, [NoCall EXCEPT !.op = op, !.funds = call[p].funds,
                   !.pc = IF op = "register" /\ ~final THEN "call" ELSE "sub"])
  /\ UNCHANGED <<chainVars, expectedNextNonce, unsent, assets, wait, final, cancels>>

AdjFn(p) ==
  IF call[p].op = "register" /\ ~final THEN "register"
  ELSE IF final THEN "concludeFinal" ELSE "conclude"

EndCall(p, res) == SetCall(p, [call[p] EXCEPT !.pc = "idle", !.res = res])

\* What follows a conclusion.
AfterConclude(p) ==
  IF call[p].op = "register" THEN EndCall(p, "nil") /\ UNCHANGED wait
  ELSE /\ SetCall(p, [call[p] EXCEPT !.pc = "withdrawing"])
       /\ wait' = [wait EXCEPT ![p] = [a \in Assets |->
            [NoWait EXCEPT !.pc = IF Outcome[a][p] = 0 THEN "ok" ELSE "sub"]]]

\* ensureConcluded subscribes and looks for the past event.
isConcluded(p) ==
  /\ call[p].pc = "sub" /\ call[p].op \in {"register", "withdraw"}
  /\ \/ Seen("Concluded", 0, 0) /\ AfterConclude(p)
     \/ ~Seen("Concluded", 0, 0) /\ UNCHANGED wait
        /\ SetCall(p, [call[p] EXCEPT !.pc = IF final THEN "secondary" ELSE "call"])
  /\ UNCHANGED <<chainVars, expectedNextNonce, unsent, assets, final, cancels>>

\* Two blocks pass, or the other participant concludes.
waitConcludedForNBlocks(p) ==
  /\ call[p].pc = "secondary"
  /\ \/ Seen("Concluded", 0, 0) /\ AfterConclude(p)
     \/ SetCall(p, [call[p] EXCEPT !.pc = "call"]) /\ UNCHANGED wait
     \/ ~call[p].ctx /\ EndCall(p, "other") /\ UNCHANGED wait
  /\ UNCHANGED <<chainVars, expectedNextNonce, unsent, assets, final, cancels>>

\* Adjudicator.call: the transaction is sent under the mutex.
callAdjudicator(p) ==
  /\ call[p].pc = "call"
  /\ \E pending \in PendingNonces(p) :
       LET n == NewTransactor(p, pending)
       IN \/ /\ Send(p, n, AdjFn(p), 0, 0)
             /\ SetCall(p, [call[p] EXCEPT !.pc = "mine", !.k = n])
          \/ SendFails(p, n) /\ EndCall(p, "other")
  /\ UNCHANGED <<assets, wait, final, cancels>>

\* A reverted conclude is not an error: somebody else may have concluded.
confirmCall(p) ==
  LET n == call[p].k
  IN /\ call[p].pc = "mine"
     /\ \/ /\ TxSucceeded(p, n) /\ AdjFn(p) = "register" /\ EndCall(p, "nil")
        \/ /\ TxSucceeded(p, n) \/ TxFailed(p, n)
           /\ AdjFn(p) # "register" /\ SetCall(p, [call[p] EXCEPT !.pc = "event"])
        \/ TxFailed(p, n) /\ AdjFn(p) = "register" /\ EndCall(p, "other")
        \/ ~call[p].ctx /\ EndCall(p, "txTimedOut")
     /\ UNCHANGED <<chainVars, expectedNextNonce, unsent, assets, wait, final, cancels>>

\* Mutant: only a call that sent the conclusion itself waits for the event.
ensureConcludedOwn(p) ==
  /\ call[p].pc = "event"
  /\ \/ TxSucceeded(p, call[p].k) /\ Seen("Concluded", 0, 0) /\ AfterConclude(p)
     \/ ~call[p].ctx /\ EndCall(p, "other") /\ UNCHANGED wait
  /\ UNCHANGED <<chainVars, expectedNextNonce, unsent, assets, final, cancels>>

ensureConcluded(p) ==
  /\ call[p].pc = "event"
  /\ \/ Seen("Concluded", 0, 0) /\ AfterConclude(p)
     \/ ~call[p].ctx /\ EndCall(p, "other") /\ UNCHANGED wait
  /\ UNCHANGED <<chainVars, expectedNextNonce, unsent, assets, final, cancels>>

\* The goroutine of ensureWithdrawn for one asset.
ensureWithdrawn(p, a) ==
  LET w == wait[p][a]
      set(pc) == wait' = [wait EXCEPT ![p][a].pc = pc]
      still == UNCHANGED <<chainVars, expectedNextNonce, unsent>>
  IN /\ At(p, "withdraw", "withdrawing")
     /\ \/ w.pc = "sub" /\ Seen("Withdrawn", a, p) /\ set("ok") /\ still
        \/ /\ w.pc = "sub" /\ ~Seen("Withdrawn", a, p)
           /\ \E pending \in PendingNonces(p) :
                LET n == NewTransactor(p, pending)
                IN \/ /\ Send(p, n, "withdraw", a, Outcome[a][p])
                      /\ wait' = [wait EXCEPT ![p][a].pc = "mine", ![p][a].tx = n]
                   \/ SendFails(p, n) /\ set("err")
        \/ w.pc = "mine" /\ TxSucceeded(p, w.tx) /\ set("event") /\ still
        \/ w.pc = "mine" /\ TxFailed(p, w.tx) /\ set("err") /\ still
        \/ w.pc = "event" /\ Seen("Withdrawn", a, p) /\ set("ok") /\ still
        \* the context ends with the first error of the group
        \/ /\ w.pc \in {"mine", "event"}
           /\ ~call[p].ctx \/ \E b \in Assets : wait[p][b].pc = "err"
           /\ set("err") /\ still
     /\ UNCHANGED <<assets, call, final, cancels>>

WithdrawReturns(p) ==
  LET ends == {wait[p][a].pc : a \in Assets}
  IN /\ At(p, "withdraw", "withdrawing") /\ ends \subseteq {"ok", "err"}
     /\ Return(p, IF "err" \in ends THEN "other" ELSE "nil")
     /\ UNCHANGED <<chainVars, expectedNextNonce, unsent, assets, final, cancels>>

-----------------------------------------------------------------------------
Goroutine(p) ==
  \/ sendFundingTx(p) \/ ConfirmTransaction(p) \/ FundReturns(p)
  \/ isConcluded(p) \/ waitConcludedForNBlocks(p) \/ callAdjudicator(p)
  \/ confirmCall(p) \/ ensureConcluded(p) \/ WithdrawReturns(p)

Next ==
  \/ \E t \in pool : Mine(t)
  \/ Elapse
  \/ \E p \in Parts :
       \/ Goroutine(p) \/ Fund(p) \/ CtxDone(p)
       \/ CallAdjudicator(p, "register") \/ CallAdjudicator(p, "withdraw")
       \/ \E a \in Assets :
            \/ RegisterAsset(p, a) \/ waitForFundingConfirmation(p, a)
            \/ ensureWithdrawn(p, a)

\* Blocks are mined, and goroutines run on; contexts may stay alive.  A call
\* only takes finitely many steps, so nothing is starved by the others and one
\* condition is as strong as one for each goroutine.
Progress ==
  \/ \E t \in pool : Mine(t)
  \/ \E p \in Parts :
       \/ Goroutine(p)
       \/ \E a \in Assets : waitForFundingConfirmation(p, a) \/ ensureWithdrawn(p, a)
Fairness == WF_vars(Progress)

Spec == Init /\ [][Next]_vars /\ Fairness

-----------------------------------------------------------------------------
(* Properties *)

\* Fund returns no error only when every participant has deposited what the
\* agreement says, although events are read twice, calls are retried, and
\* deposits of the assets are made and confirmed in parallel.
NilMeansFunded ==
  \A p \in Parts : call[p].op = "fund" /\ call[p].res = "nil" =>
    \A a \in Assets : Concluded \/ \A q \in Parts : holdings[a][q] >= Agreement[a][q]

\* Withdraw returns no error only when the participant's balances were paid to
\* it, also when the peer concluded first and this call's own transactions were
\* reverted or had been sent by an earlier call.  It is paid more only out of its
\* own surplus: a Fund and a Withdraw whose contexts ended are called again while
\* their transactions still wait, and all of them may be mined.
WithdrawnIsPaid ==
  \A p \in Parts : call[p].op = "withdraw" /\ call[p].res = "nil" =>
    \A a \in Assets :
      /\ paid[a][p] >= Outcome[a][p]
      /\ paid[a][p] - Outcome[a][p] <= deposited(p, a) - Agreement[a][p]

\* A transaction that was sent can be mined: its nonce was not used by another,
\* and every nonce before it is that of one transaction that waits or of one
\* that could not be sent.  The node's own count of pending transactions may lag
\* behind at every call.
SentCanBeMined ==
  \A t \in pool :
    /\ t.nonce >= nonce[t.acc]
    /\ \A u \in pool \ {t} : u.acc # t.acc \/ u.nonce # t.nonce
    /\ \A n \in nonce[t.acc]..(t.nonce - 1) :
         <<t.acc, n>> \in unsent \/ \E u \in pool : u.acc = t.acc /\ u.nonce = n

\* Once the channel is concluded, a Withdraw returns although it lost the race
\* to conclude, unless a transaction of the account could not be sent.
WithdrawTerminates ==
  <>[](Concluded => \A p \in Parts :
         call[p].op = "withdraw" => call[p].pc = "idle" \/ \E u \in unsent : u[1] = p)
=============================================================================
