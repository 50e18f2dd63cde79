-------------------------- MODULE PersistedMachine --------------------------
(***************************************************************************)
(* One participant's channel machine with its persistence: the wrapper     *)
(* channel/persistence/statemachine.go, the key-value persister and        *)
(* restorer under channel/persistence/keyvalue, and the order in which     *)
(* package client calls them (opening a channel, proposing and accepting   *)
(* updates, disputing, settling, the sync handler, restoring).             *)
(*                                                                         *)
(* Every operation of the wrapper first changes the machine in memory and  *)
(* then writes one atomic batch.  These are two steps here (the second one *)
(* is Persist or PersistFails), so that a crash or a failing write can     *)
(* come in between.  The calls on one machine never overlap: machMtx.      *)
(***************************************************************************)
EXTENDS Machine

CONSTANTS
    me,             \* our participant index
    Absent,         \* a key that is not in the database
    InitBals,       \* the balances the channel is opened with
    Candidates,     \* the states that users and peers may ask for
    MaxCrashes,     \* bound: how often the process crashes
    MaxFailures     \* bound: how often the database refuses a batch

ASSUME PersistenceAssumption ==
    /\ me \in Parts /\ Parts \ {me} # {}
    /\ InitBals \in Allocation
    /\ Candidates \subseteq State
    /\ Absent \notin Phase /\ Nil \notin MachineType

VARIABLES
    mem,            \* the machine in memory, Nil while the process is down
    db,             \* the tables "Chan" and "Peer" of the database
    call,           \* the batch that is about to be written, or NoCall
    task,           \* what the client is about to do with the channel
    crashes,        \* how often the process crashed
    failures,       \* how often the database refused a batch
    released,       \* history: the states whose own signature left Sig and
                    \* that we did not give up with DiscardUpdate since
    committed       \* history: the state the last enabling call returned nil for

history == <<released, committed>>
vars == <<mem, db, call, task, crashes, failures, history>>

-----------------------------------------------------------------------------
(* The database.  The keys index, params and peers are written and deleted *)
(* together and stand as "meta"; "listed" is the entry in the Peer table.  *)

NoSigKeys == [p \in Parts |-> Absent]
EmptyDB == [current |-> Absent, phase |-> Absent, state |-> Absent,
            sigs |-> NoSigKeys, meta |-> Absent, parent |-> Absent,
            listed |-> FALSE]

NoKeys(d) == /\ d.current = Absent /\ d.phase = Absent /\ d.state = Absent
             /\ d.sigs = NoSigKeys /\ d.meta = Absent /\ d.parent = Absent
AllKeys(d) == /\ d.current # Absent /\ d.phase # Absent /\ d.state # Absent
              /\ \A p \in Parts : d.sigs[p] # Absent
              /\ d.meta # Absent /\ d.parent # Absent

\* Mutants: a batch lacks a key, or has the wrong value for it.
StagedPhaseOnly(d, m) == [d EXCEPT !.phase = m.phase]
SigNotAdded(d, m, p) == d
EnabledNoCurrent(d, m) ==
    [d EXCEPT !.state = m.stagingTX.state, !.sigs = m.stagingTX.sigs,
              !.phase = m.phase]

Staged(d, m) == [d EXCEPT !.state = m.stagingTX.state, !.phase = m.phase]
SigAdded(d, m, p) == [d EXCEPT !.sigs[p] = m.stagingTX.sigs[p]]
Enabled(d, m) ==
    [d EXCEPT !.state = m.stagingTX.state, !.sigs = m.stagingTX.sigs,
              !.current = m.currentTX, !.phase = m.phase]
PhaseChanged(d, m) == [d EXCEPT !.phase = m.phase]

\* ChannelCreated and ChannelRemoved apply two batches, one after the other.
CreateChannel(d, m) ==
    [d EXCEPT !.state = m.stagingTX.state, !.sigs = m.stagingTX.sigs,
              !.current = m.currentTX, !.phase = m.phase,
              !.meta = "present", !.parent = "present"]
CreatePeers(d) == [d EXCEPT !.listed = TRUE]
RemoveChannel(d) ==
    [d EXCEPT !.current = Absent, !.meta = Absent, !.phase = Absent,
              !.state = Absent, !.sigs = NoSigKeys]
RemovePeers(d) == [d EXCEPT !.listed = FALSE]

Write(d, m, kind, p) ==
    CASE kind = "Staged"        -> Staged(d, m)
      [] kind = "SigAdded"      -> SigAdded(d, m, p)
      [] kind = "Enabled"       -> Enabled(d, m)
      [] kind = "PhaseChanged"  -> PhaseChanged(d, m)
      [] kind = "CreateChannel" -> CreateChannel(d, m)
      [] kind = "CreatePeers"   -> CreatePeers(d)
      [] kind = "RemoveChannel" -> RemoveChannel(d)
      [] kind = "RemovePeers"   -> RemovePeers(d)

\* The machine RestoreChannel and restoreMachine rebuild.
restored(d) ==
    [phase |-> d.phase, stagingTX |-> [state |-> d.state, sigs |-> d.sigs],
     currentTX |-> d.current]

-----------------------------------------------------------------------------
(* A call of the wrapper: m is the machine after the call, kind (with the  *)
(* signature index p) the batch to write, next what follows when it is     *)
(* written and onError what follows when it is not.                        *)

NoCall == [kind |-> "none"]

at(t) == mem # Nil /\ call = NoCall /\ task = t

Call(m, kind, p, next, onError) ==
    /\ mem' = m
    /\ call' = [kind |-> kind, p |-> p, next |-> next, onError |-> onError]
    /\ UNCHANGED <<db, task, crashes, failures, history>>

Goto(t) ==
    /\ task' = t
    /\ UNCHANGED <<mem, db, call, crashes, failures, history>>

\* Writing the batch; the wrapped method returns nil.
Persist ==
    /\ call # NoCall
    /\ db' = Write(db, mem, call.kind, call.p)
    /\ call' = NoCall
    /\ task' = call.next
    /\ released' = IF call.kind = "SigAdded" /\ call.p = me /\ mem.phase = "Signing"
                     THEN released \cup {mem.stagingTX.state} ELSE released
    /\ committed' = IF call.kind = "Enabled"
                      THEN mem.currentTX.state ELSE committed
    /\ UNCHANGED <<mem, crashes, failures>>

\* Writing the batch fails; the wrapped method returns the error.
PersistFails ==
    /\ call # NoCall
    /\ failures < MaxFailures
    /\ failures' = failures + 1
    /\ call' = NoCall
    /\ task' = call.onError
    /\ UNCHANGED <<mem, db, crashes, history>>

Crash ==
    /\ mem # Nil
    /\ crashes < MaxCrashes
    /\ crashes' = crashes + 1
    /\ mem' = Nil
    /\ call' = NoCall
    /\ task' = "down"
    /\ UNCHANGED <<db, failures, history>>

\* restorePeerChannels.  The iterator decodes the keys by their position, so
\* keys of an incomplete channel are an error.
Restore ==
    /\ mem = Nil /\ task = "down"
    /\ db.listed /\ AllKeys(db)
    /\ mem' = restored(db)
    /\ task' = "idle"
    /\ UNCHANGED <<db, call, crashes, failures, history>>

RestoreFails ==
    /\ mem = Nil /\ task = "down"
    /\ db.listed /\ ~AllKeys(db) /\ ~NoKeys(db)
    /\ Goto("restoreFailed")

-----------------------------------------------------------------------------
(* Opening the channel: completeCPP, initExchangeSigsAndEnable and          *)
(* completeFunding.  When a call fails the channel is given up.             *)

peer == CHOOSE p \in Parts : p # me

Create ==
    /\ at("create")
    /\ Call(mem, "CreateChannel", me, "createPeers", "dead")

\* The second batch of ChannelCreated.
ListPeers ==
    /\ at("createPeers")
    /\ Call(mem, "CreatePeers", me, "init", "dead")

InitChannel ==
    /\ at("init")
    /\ InitAllowed(mem, InitBals)
    /\ Call(Init_(mem, InitBals), "Staged", me, "signInit", "dead")

SignInit ==
    /\ at("signInit")
    /\ SigAllowed(mem)
    /\ Call(Sig_(mem, me), "SigAdded", me, "awaitInit", "dead")

AddInitSig ==
    /\ at("awaitInit")
    /\ LET sig == Sign(peer, mem.stagingTX.state) IN
       /\ AddSigAllowed(mem, peer, sig)
       /\ Call(AddSig(mem, peer, sig), "SigAdded", peer, "enableInit", "dead")

EnableInitial ==
    /\ at("enableInit")
    /\ EnableInitAllowed(mem)
    /\ Call(EnableInit(mem), "Enabled", me, "fund", "dead")

Fund ==
    /\ at("fund")
    /\ SetFundedAllowed(mem)
    /\ Call(SetFunded(mem), "PhaseChanged", me, "idle", "idle")

\* Funding failed: the user gets the channel in the Funding phase.
FundFails == at("fund") /\ Goto("idle")

Opening ==
    \/ Create \/ ListPeers \/ InitChannel \/ SignInit \/ AddInitSig
    \/ EnableInitial \/ Fund \/ FundFails

-----------------------------------------------------------------------------
(* Updating the channel: updateGeneric and handleUpdateAcc.                 *)

\* When the staged state cannot be persisted, the call ends before the
\* deferred DiscardUpdate is in place.
Propose(s) ==
    /\ at("idle")
    /\ UpdateAllowed(mem, s, me)
    /\ Call(Update_(mem, s), "Staged", me, "sign", "idle")

SignProposed ==
    /\ at("sign")
    /\ SigAllowed(mem)
    /\ Call(Sig_(mem, me), "SigAdded", me, "await", "discard")

RecvAcc ==
    /\ at("await")
    /\ LET sig == Sign(peer, mem.stagingTX.state) IN
       /\ AddSigAllowed(mem, peer, sig)
       /\ Call(AddSig(mem, peer, sig), "SigAdded", peer, "enable", "discard")

\* A rejection, a timeout, or the network refuses the message.
NotAccepted == at("await") /\ Goto("discard")

\* The phase is looked at first here: a channel restored from before
\* EnableInit has no current state that CheckUpdate could be asked about.
Accept(s) ==
    /\ at("idle")
    /\ UpdateAllowed(mem, s, peer)
    /\ CheckUpdate(mem, s, peer, Sign(peer, s), peer)
    /\ Call(Update_(mem, s), "Staged", me, "addPeerSig", "idle")

AddPeerSig ==
    /\ at("addPeerSig")
    /\ LET sig == Sign(peer, mem.stagingTX.state) IN
       /\ AddSigAllowed(mem, peer, sig)
       /\ Call(AddSig(mem, peer, sig), "SigAdded", peer, "signAccepted", "discard")

SignAccepted ==
    /\ at("signAccepted")
    /\ SigAllowed(mem)
    /\ Call(Sig_(mem, me), "SigAdded", me, "sendAcc", "discard")

SendAcc == at("sendAcc") /\ (Goto("enable") \/ Goto("discard"))

EnableNotifyUpdate ==
    /\ at("enable")
    /\ EnableAllowed(mem)
    /\ Call(Enable(mem), "Enabled", me, "idle", "discard")

\* The deferred DiscardUpdate.
Discard ==
    /\ at("discard")
    /\ DiscardAllowed(mem)
    /\ mem' = DiscardUpdate(mem)
    /\ call' = [kind |-> "Staged", p |-> me, next |-> "idle", onError |-> "idle"]
    /\ released' = released \ {mem.stagingTX.state}
    /\ UNCHANGED <<db, task, crashes, failures, committed>>

DiscardFails ==
    /\ at("discard")
    /\ ~DiscardAllowed(mem)
    /\ Goto("idle")

\* handleSyncMsg: a peer that restarts asks for our data; an update that is
\* still staged is discarded.
HandleSync == at("idle") /\ mem.phase = "Signing" /\ Goto("discard")

Updating ==
    \/ \E s \in Candidates : Propose(s) \/ Accept(s)
    \/ SignProposed \/ RecvAcc \/ NotAccepted
    \/ AddPeerSig \/ SignAccepted \/ SendAcc
    \/ EnableNotifyUpdate \/ Discard \/ DiscardFails \/ HandleSync

-----------------------------------------------------------------------------
(* Disputing and settling the channel: client/adjudicate.go.                *)

Register ==
    /\ at("idle")
    /\ SetRegisteringAllowed(mem)
    /\ Call(SetRegistering(mem), "PhaseChanged", me, "registering", "idle")

RegisterReturns ==
    /\ at("registering")
    /\ SetRegisteredAllowed(mem)
    /\ Call(SetRegistered(mem), "PhaseChanged", me, "idle", "idle")

\* The adjudicator refuses the registration, or the withdrawal.
AdjudicatorFails ==
    (at("registering") \/ at("withdrawing")) /\ Goto("idle")

\* The watcher got a Registered event.
HandleRegistered ==
    /\ at("idle")
    /\ SetRegisteredAllowed(mem)
    /\ Call(SetRegistered(mem), "PhaseChanged", me, "idle", "idle")

ProgressBy(s) ==
    /\ at("idle")
    /\ SetProgressingAllowed(mem)
    /\ s.version = mem.currentTX.state.version + 1
    /\ Call(SetProgressing(mem, s), "Staged", me, "signProgress", "idle")

SignProgress ==
    /\ at("signProgress")
    /\ SigAllowed(mem)
    /\ Call(Sig_(mem, me), "SigAdded", me, "idle", "idle")

\* The watcher got a Progressed event: only a registered channel progresses.
HandleProgressed(s) ==
    /\ at("idle")
    /\ mem.phase \in {"Registered", "Progressing", "Progressed"}
    /\ s.version = mem.currentTX.state.version + 1
    /\ Call(SetProgressed(mem, s), "Enabled", me, "idle", "idle")

Settle ==
    /\ at("idle")
    /\ SetWithdrawingAllowed(mem)
    /\ Call(SetWithdrawing(mem), "PhaseChanged", me, "withdrawing", "idle")

\* ChannelRemoved reads params and peers before it writes.
SettleReturns ==
    /\ at("withdrawing")
    /\ SetWithdrawnAllowed(mem)
    /\ db.meta # Absent
    /\ Call(SetWithdrawn(mem), "RemoveChannel", me, "removePeers", "idle")

\* The channel was removed before.
SettleAgain ==
    /\ at("withdrawing")
    /\ SetWithdrawnAllowed(mem)
    /\ db.meta = Absent
    /\ mem' = SetWithdrawn(mem)
    /\ task' = "idle"
    /\ UNCHANGED <<db, call, crashes, failures, history>>

\* The second batch of ChannelRemoved.
UnlistPeers ==
    /\ at("removePeers")
    /\ Call(mem, "RemovePeers", me, "idle", "idle")

Disputing ==
    \/ Register \/ RegisterReturns \/ AdjudicatorFails \/ HandleRegistered
    \/ \E s \in Candidates : ProgressBy(s) \/ HandleProgressed(s)
    \/ SignProgress \/ Settle \/ SettleReturns \/ SettleAgain
    \/ UnlistPeers

-----------------------------------------------------------------------------
Init ==
    /\ mem = newMachine
    /\ db = EmptyDB
    /\ call = NoCall
    /\ task = "create"
    /\ crashes = 0
    /\ failures = 0
    /\ released = {} /\ committed = Nil

Next ==
    \/ Opening \/ Updating \/ Disputing
    \/ Persist \/ PersistFails \/ Crash \/ Restore \/ RestoreFails

Spec == Init /\ [][Next]_vars

-----------------------------------------------------------------------------
(* Properties *)

inDB == db.meta # Absent

\* An update that was reported to the user as enabled survives every crash:
\* the database never holds an older current state.
Durable ==
    committed # Nil /\ inDB =>
        /\ db.current.state # Nil
        /\ db.current.state.version >= committed.version

\* Before our signature on a state can leave, the state is in the database,
\* and as long as the database works it stays there until we have moved on or
\* given the state up.  A restarted client thus knows what the peer may still
\* enable.
SignedIsPersisted ==
    failures = 0 /\ inDB /\ db.phase \in {"Acting", "Signing", "Final"} =>
        \A s \in released :
            db.state = s \/ db.current.state.version >= s.version

\* As long as the database works, what a restart would restore is the machine
\* in memory, with no signature missing.
RestoredMatches ==
    mem # Nil /\ call = NoCall /\ failures = 0 /\ inDB =>
        /\ db.phase = mem.phase
        /\ db.current = mem.currentTX
        /\ db.state = mem.stagingTX.state
        /\ \A p \in Parts : mem.stagingTX.sigs[p] # Nil =>
              db.sigs[p] = mem.stagingTX.sigs[p]
=============================================================================
