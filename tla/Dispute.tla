------------------------------ MODULE Dispute ------------------------------
(***************************************************************************)
(* Disputing and settling a ledger channel while it is being updated:      *)
(* client/adjudicate.go (Watch, Register, Settle) on top of the update     *)
(* protocol, with the adjudicator client of backend/ethereum/channel.      *)
(*                                                                         *)
(* Every participant runs a watcher.  Register and Settle hold machMtx     *)
(* while they wait for the chain, so each of them is a locking step and    *)
(* one or more steps on the chain.  The adjudicator contract is external:  *)
(* it keeps one registered state per channel, takes a newer one until the  *)
(* challenge duration is over, ignores an older one, and pays out the      *)
(* concluded state once.                                                   *)
(*                                                                         *)
(* One assumption of every payment channel is built in: the challenge      *)
(* duration is longer than a running watcher needs for its reaction        *)
(* (Elapse).                                                               *)
(***************************************************************************)
EXTENDS UpdateProtocol

CONSTANT MaxRegisterFailures    \* bound: failures of Register and subscriptions

VARIABLES
    chain,      \* the dispute of the channel in the contract
    next,       \* next[p]: the one slot between subscription and watcher
    watcher,    \* watcher[p]: where p's Watch is
    event,      \* event[p]: the event that p's Watch handles, or Nil
    paid,       \* paid[p]: what p withdrew, Nil before
    failures    \* how often Register or a subscription failed

onchain == <<chain, next>>
disputeVars == <<chain, next, watcher, event, paid, failures>>
allVars == <<vars, disputeVars>>

\* A panic in the watcher takes the whole process down.
alive(p) == watcher[p] # "panicked"

DisputeInit ==
    /\ Init
    /\ chain = [phase |-> "none", state |-> Nil, open |-> FALSE]
    /\ next = [p \in Parts |-> Nil]
    /\ watcher = [p \in Parts |-> "next"]
    /\ event = [p \in Parts |-> Nil]
    /\ paid = [p \in Parts |-> Nil]
    /\ failures = 0

UpdateStep(p) == alive(p) /\ Step(p) /\ UNCHANGED disputeVars

-----------------------------------------------------------------------------
(* The contract *)

AdjudicatorEvent == [type : {"Registered", "Concluded"}, state : State]

\* A slot without an event is told apart from one with an event.
ASSUME EventAssumption == Nil \notin AdjudicatorEvent

RegisteredEvent(s) == [type |-> "Registered", state |-> s]
ConcludedEvent(s) == [type |-> "Concluded", state |-> s]

\* The state of a Registered event is read from the call data of the
\* transaction that caused it.
fetchRegisterCallData(tx) == tx.state

\* RegisteredSub.processNext: an event waits in the slot until it is replaced
\* by one with a newer version.  The timeout of two events with the same
\* version never grows, so it is left out.  The time an event travels is part
\* of the time the watcher takes.
newest(p, e) ==
    IF next[p] = Nil \/ next[p].state.version < e.state.version THEN e ELSE next[p]

\* A watcher that has returned has closed its subscription.
emit(e) ==
    next' = [p \in Parts |-> IF watcher[p] = "returned" THEN Nil ELSE newest(p, e)]

isSigned(tx) == \A p \in Parts : Verify(p, tx.state, tx.sigs[p])

\* register takes a state that is newer than the registered one as long as the
\* dispute is open; an older one has no effect.
registerAllowed(tx) ==
    /\ isSigned(tx)
    /\ \/ chain.phase = "none"
       \/ chain.phase # "none" /\ tx.state.version <= chain.state.version
       \/ chain.phase = "dispute" /\ chain.open
registerTx(tx) ==
    IF chain.phase = "none" \/ tx.state.version > chain.state.version
      THEN /\ chain' = [phase |-> "dispute", state |-> tx.state, open |-> TRUE]
           /\ emit(RegisteredEvent(fetchRegisterCallData(tx)))
      ELSE UNCHANGED onchain

\* concludeFinal needs no dispute, conclude needs one that is over.
concludeAllowed(tx) ==
    /\ chain.phase # "concluded"
    /\ IF tx.state.isFinal
         THEN isSigned(tx)
         ELSE chain.phase = "dispute" /\ ~chain.open /\ tx.state = chain.state
concludeTx(tx) ==
    /\ chain' = [phase |-> "concluded", state |-> tx.state, open |-> FALSE]
    /\ emit(ConcludedEvent(tx.state))

\* A watcher with nothing to do, or one that is gone.
settled(p) ==
    \/ ~alive(p) \/ watcher[p] = "returned"
    \/ watcher[p] = "next" /\ next[p] = Nil

\* The challenge duration is over.
Elapse ==
    /\ chain.phase = "dispute" /\ chain.open
    /\ \A p \in Parts : settled(p)
    /\ chain' = [chain EXCEPT !.open = FALSE]
    /\ UNCHANGED <<vars, next, watcher, event, paid, failures>>

-----------------------------------------------------------------------------
(* Watch *)

\* updateNext: the event loop ends with an error of the event subscription or
\* of reading the call data; the event nobody has read yet is dropped, and
\* Next returns nil.
SubscriptionEnds(p) ==
    /\ watcher[p] = "next"
    /\ failures < MaxRegisterFailures /\ failures' = failures + 1
    /\ next' = [next EXCEPT ![p] = Nil]
    /\ watcher' = [watcher EXCEPT ![p] = "returned"]
    /\ UNCHANGED <<vars, chain, event, paid>>

WatchNext(p) ==
    /\ watcher[p] = "next" /\ next[p] # Nil
    /\ next' = [next EXCEPT ![p] = Nil]
    /\ event' = [event EXCEPT ![p] = next[p]]
    /\ watcher' = [watcher EXCEPT ![p] = "setPhase"]
    /\ UNCHANGED <<vars, chain, paid, failures>>

\* Mutant: an old state is refuted only if it is more than one version behind.
compareLate(p) ==
    LET v == event[p].state.version IN
    IF v > current(p).version THEN "panicked"
    ELSE IF v + 1 < current(p).version THEN "register"
    ELSE "next"

compare(p) ==
    LET v == event[p].state.version IN
    IF v > current(p).version THEN "panicked"
    ELSE IF v < current(p).version THEN "register"
    ELSE "next"

\* Mutant: setMachinePhase does not wait for machMtx.
HandleRegisteredUnlocked(p) ==
    /\ watcher[p] = "setPhase" /\ event[p].type = "Registered"
    /\ machine' = [machine EXCEPT ![p] = SetRegistered(@)]
    /\ watcher' = [watcher EXCEPT ![p] = compare(p)]
    /\ event' = [event EXCEPT ![p] = IF compare(p) = "next" THEN Nil ELSE @]
    /\ UNCHANGED <<lock, msgs, discarded, onchain, paid, failures>>

\* setMachinePhase waits for machMtx.  The versions are compared after it was
\* released; the current state of a registered machine does not change.
HandleRegistered(p) ==
    /\ watcher[p] = "setPhase" /\ event[p].type = "Registered"
    /\ lock[p] = "free"
    /\ SetRegisteredAllowed(machine[p])
    /\ machine' = [machine EXCEPT ![p] = SetRegistered(@)]
    /\ watcher' = [watcher EXCEPT ![p] = compare(p)]
    /\ event' = [event EXCEPT ![p] = IF compare(p) = "next" THEN Nil ELSE @]
    /\ UNCHANGED <<lock, msgs, discarded, onchain, paid, failures>>

\* There is no phase for a concluded channel.
HandleConcluded(p) ==
    /\ watcher[p] = "setPhase" /\ event[p].type = "Concluded"
    /\ lock[p] = "free"
    /\ watcher' = [watcher EXCEPT ![p] = "next"]
    /\ event' = [event EXCEPT ![p] = Nil]
    /\ UNCHANGED <<vars, onchain, paid, failures>>

-----------------------------------------------------------------------------
(* Register, called by the user or, with an outdated state, by Watch *)

\* The request carries the current transaction.
AdjudicatorReq(p) == machine[p].currentTX

RegisterLock(p, byWatcher) ==
    /\ alive(p) /\ lock[p] = "free"
    /\ SetRegisteringAllowed(machine[p])
    /\ byWatcher => watcher[p] = "register"
    /\ watcher' = IF byWatcher THEN [watcher EXCEPT ![p] = "registering"] ELSE watcher
    /\ machine' = [machine EXCEPT ![p] = SetRegistering(@)]
    /\ lock' = [lock EXCEPT ![p] = IF byWatcher THEN "refuting" ELSE "registering"]
    /\ UNCHANGED <<msgs, discarded, onchain, event, paid, failures>>

registers(p) == alive(p) /\ lock[p] \in {"registering", "refuting"}

refused(tx) == ~tx.state.isFinal /\ ~registerAllowed(tx)

\* A final state is concluded right away, if that has not happened yet.
sendRegister(p) ==
    LET tx == AdjudicatorReq(p) IN
    IF tx.state.isFinal
      THEN IF chain.phase = "concluded" THEN UNCHANGED onchain
           ELSE concludeAllowed(tx) /\ concludeTx(tx)
      ELSE registerAllowed(tx) /\ registerTx(tx)

endRegister(p, watcherState) ==
    /\ lock' = [lock EXCEPT ![p] = "free"]
    /\ watcher' = IF lock[p] = "refuting"
                    THEN [watcher EXCEPT ![p] = watcherState] ELSE watcher
    /\ event' = IF lock[p] = "refuting" THEN [event EXCEPT ![p] = Nil] ELSE event

RegisterTx(p) ==
    /\ registers(p)
    /\ sendRegister(p)
    /\ machine' = [machine EXCEPT ![p] = SetRegistered(@)]
    /\ endRegister(p, "next")
    /\ UNCHANGED <<msgs, discarded, paid, failures>>

\* The contract refuses the transaction, it is not mined in time, or the chain
\* is not reachable: the phase stays Registering, and the error ends Watch.
RegisterFails(p) ==
    /\ registers(p)
    /\ \/ refused(AdjudicatorReq(p)) /\ UNCHANGED failures
       \/ failures < MaxRegisterFailures /\ failures' = failures + 1
    /\ endRegister(p, "returned")
    /\ UNCHANGED <<machine, msgs, discarded, onchain, paid>>

-----------------------------------------------------------------------------
(* Settle: ensureConcluded, then ensureWithdrawn *)

SettleLock(p) ==
    /\ alive(p) /\ lock[p] = "free"
    /\ SetWithdrawingAllowed(machine[p])
    /\ machine' = [machine EXCEPT ![p] = SetWithdrawing(@)]
    /\ lock' = [lock EXCEPT ![p] = "withdrawing"]
    /\ UNCHANGED <<msgs, discarded, disputeVars>>

\* The transaction is refused if somebody else concludes first; the Concluded
\* event is waited for in any case.
Conclude(p) ==
    /\ alive(p) /\ lock[p] = "withdrawing"
    /\ concludeAllowed(AdjudicatorReq(p))
    /\ concludeTx(AdjudicatorReq(p))
    /\ UNCHANGED <<vars, watcher, event, paid, failures>>

\* The amount is the balance in our own current state; nothing is sent for a
\* zero balance or if there is a Withdrawn event already.
Withdraw(p) ==
    LET amount == current(p).bals[p] IN
    /\ alive(p) /\ lock[p] = "withdrawing"
    /\ chain.phase = "concluded"
    /\ amount > 0 /\ paid[p] = Nil => amount <= chain.state.bals[p]
    /\ paid' = [paid EXCEPT ![p] = IF @ = Nil THEN amount ELSE @]
    /\ machine' = [machine EXCEPT ![p] = SetWithdrawn(@)]
    /\ lock' = [lock EXCEPT ![p] = "free"]
    /\ UNCHANGED <<msgs, discarded, onchain, watcher, event, failures>>

\* The context ended before the channel was concluded, or the contract does
\* not pay the amount.
SettleFails(p) ==
    /\ alive(p) /\ lock[p] = "withdrawing"
    /\ lock' = [lock EXCEPT ![p] = "free"]
    /\ UNCHANGED <<machine, msgs, discarded, disputeVars>>

-----------------------------------------------------------------------------
DisputeStep(p) ==
    \/ SubscriptionEnds(p) \/ WatchNext(p) \/ HandleRegistered(p) \/ HandleConcluded(p)
    \/ \E byWatcher \in BOOLEAN : RegisterLock(p, byWatcher)
    \/ RegisterTx(p) \/ RegisterFails(p)
    \/ SettleLock(p) \/ Conclude(p) \/ Withdraw(p) \/ SettleFails(p)

DisputeNext == Elapse \/ \E p \in Parts : UpdateStep(p) \/ DisputeStep(p)

DisputeSpec == DisputeInit /\ [][DisputeNext]_allVars

-----------------------------------------------------------------------------
(* Properties *)

\* Once the challenge duration is over, or a final state was concluded at once,
\* the state on the chain is not older than the current state of anybody whose
\* watcher works: the watchers refute every old state, and no update is enabled
\* behind their back.
OutcomeNotStale ==
    chain.phase # "none" /\ ~chain.open =>
        \A p \in Parts :
            watcher[p] # "returned" => chain.state.version >= current(p).version

\* The watcher finds a version on the chain that is newer than its own only if
\* it gave up a state after it had sent its signature on it.
PanicOnlyAfterDiscard ==
    \A p \in Parts : watcher[p] = "panicked" => event[p].state \in discarded[p]

\* Who watched its channel and has withdrawn got what the state on the chain
\* says, unless that is a state it signed and gave up.
PayoutIsOutcome ==
    \A p \in Parts :
        machine[p].phase = "Withdrawn" /\ watcher[p] # "returned" =>
            \/ paid[p] = chain.state.bals[p]
            \/ chain.state \in discarded[p]
=============================================================================
