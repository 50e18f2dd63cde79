----------------------- MODULE PersistedMachineProofs -----------------------
(***************************************************************************)
(* Proofs about a channel machine and its persistence, for any number of   *)
(* participants, any states asked for, any number of crashes and any       *)
(* number of refused batches: what is reported as enabled survives, what   *)
(* is signed is known after a restart, and a restart restores the machine. *)
(***************************************************************************)
EXTENDS PersistedMachine, TLAPS

-----------------------------------------------------------------------------
(* The inductive invariant *)

Task == {"createPeers", "init", "signInit", "awaitInit", "enableInit", "fund",
         "idle", "sign", "await", "discard", "addPeerSig", "signAccepted",
         "sendAcc", "enable", "registering", "signProgress", "withdrawing",
         "removePeers", "dead", "down", "restoreFailed"}

Kind == {"Staged", "SigAdded", "Enabled", "PhaseChanged", "CreateChannel",
         "CreatePeers", "RemoveChannel", "RemovePeers"}

CallType == [kind : Kind, p : Parts, next : Task, onError : Task]

DBType ==
    [current : Transaction \cup {Absent}, phase : Phase \cup {Absent},
     state : State \cup {Nil, Absent}, sigs : [Parts -> Sig \cup {Nil, Absent}],
     meta : {"present", Absent}, parent : {"present", Absent}, listed : BOOLEAN]

\* The types of the machine, of the keys of the database and of the history.
TypeOK ==
    /\ mem \in MachineType \cup {Nil}
    /\ db \in DBType
    /\ call \in CallType \cup {NoCall}
    /\ task \in Task \cup {"create"}
    /\ crashes \in Nat /\ failures \in Nat
    /\ released \subseteq State
    /\ committed \in State \cup {Nil}

\* Nothing is pending while the process is down, and the channel is created
\* once, from the new machine.
Started ==
    /\ mem = Nil => call = NoCall
    /\ call.kind = "CreateChannel" => task = "create"
    /\ task = "create" => /\ mem = newMachine
                          /\ released = {} /\ committed = Nil
                          /\ call.kind \in {"none", "CreateChannel"}

\* Whoever signs has a state to sign, in memory and after a restart, and a
\* batch that enables a state or only changes the phase is what it says.
Staging(phase, state) == phase \in signingPhases => state \in State

StagedState ==
    /\ mem # Nil => Staging(mem.phase, mem.stagingTX.state)
    /\ Staging(db.phase, db.state)
    /\ call.kind = "Enabled" => mem.currentTX.state \in State
    /\ call.kind = "PhaseChanged" => mem.phase \notin signingPhases

\* The state last reported as enabled is the current one in the database.
CommittedIsCurrent ==
    committed # Nil /\ inDB => db.current.state = committed

\* As long as the database works, it differs from the machine in memory by
\* the batch that is about to be written.
UpToBatch ==
    /\ call.kind # "Enabled" => db.current = mem.currentTX
    /\ call.kind \notin {"Staged", "Enabled"} =>
          /\ db.state = mem.stagingTX.state
          /\ \A p \in Parts :
                mem.stagingTX.sigs[p] # Nil
                  /\ ~(call.kind = "SigAdded" /\ call.p = p) =>
                    db.sigs[p] = mem.stagingTX.sigs[p]
    /\ call.kind \notin {"Staged", "Enabled", "PhaseChanged", "RemoveChannel"} =>
          db.phase = mem.phase
    /\ call.kind = "Staged" => \A p \in Parts : mem.stagingTX.sigs[p] = Nil

\* A machine in this phase with this staged state and this current state still
\* knows every state we released: it is staged or overtaken.  Nothing is
\* released before the channel is funded.
Knows(phase, state, cur) ==
    /\ phase \in {"InitActing", "InitSigning", "Funding"} => released = {}
    /\ phase \in {"Funding", "Acting", "Final"} => state = Nil
    /\ phase \in {"Funding", "Acting", "Signing", "Final"} => cur \in State
    /\ phase = "Signing" => state.version >= cur.version
    /\ phase \in {"Acting", "Signing", "Final"} =>
          \A s \in released : s = state \/ s.version <= cur.version

KnownReleased ==
    /\ Knows(db.phase, db.state, db.current.state)
    /\ mem # Nil => Knows(mem.phase, mem.stagingTX.state, mem.currentTX.state)

Reliable == failures = 0 /\ inDB => KnownReleased /\ (mem # Nil => UpToBatch)

Inv == TypeOK /\ Started /\ StagedState /\ CommittedIsCurrent /\ Reliable

\* The invariant implies what the runs check.
LEMMA InvImplies == Inv => Durable /\ SignedIsPersisted /\ RestoredMatches
<1> SUFFICES ASSUME Inv PROVE Durable /\ SignedIsPersisted /\ RestoredMatches
  OBVIOUS
<1>1. Durable
  BY NilAssumption
  DEF Inv, TypeOK, CommittedIsCurrent, Durable, State
<1>2. SignedIsPersisted
  <2> SUFFICES ASSUME failures = 0, inDB,
                      db.phase \in {"Acting", "Signing", "Final"},
                      NEW s \in released
               PROVE  db.state = s \/ db.current.state.version >= s.version
    BY DEF SignedIsPersisted
  <2>1. Knows(db.phase, db.state, db.current.state)
    BY DEF Inv, Reliable, KnownReleased
  <2>2. s \in State /\ db.current.state \in State
    BY <2>1 DEF Knows, Inv, TypeOK
  <2>3. s = db.state \/ s.version <= db.current.state.version
    BY <2>1 DEF Knows
  <2>4. QED
    BY <2>2, <2>3 DEF State
<1>3. RestoredMatches
  BY DEF Inv, Reliable, UpToBatch, RestoredMatches, NoCall
<1>4. QED
  BY <1>1, <1>2, <1>3

-----------------------------------------------------------------------------
(* The invariant holds initially, and a call, a write, a crash and a restart *)
(* keep it.                                                                 *)

\* An empty transaction is a transaction, and so is the new machine's.
LEMMA NewMachineType ==
    /\ NoTX \in Transaction /\ NoTX.state = Nil
    /\ \A p \in Parts : NoTX.sigs[p] = Nil
    /\ newMachine \in MachineType /\ newMachine.phase = "InitActing"
  BY DEF NoTX, newTransaction, Transaction, newMachine, MachineType, Phase

\* The peer is a participant, and not us.
LEMMA PeerFacts == me \in Parts /\ peer \in Parts /\ peer # me
  BY PersistenceAssumption DEF peer

\* An empty database and a new machine satisfy the invariant.
LEMMA InitInv == Init => Inv
<1> SUFFICES ASSUME Init PROVE Inv
  OBVIOUS
<1>1. EmptyDB \in DBType
  BY DEF EmptyDB, NoSigKeys, DBType
<1>2. TypeOK
  BY <1>1, NewMachineType DEF Init, TypeOK
<1>3. EmptyDB.phase \notin signingPhases /\ EmptyDB.meta = Absent
  BY PersistenceAssumption DEF EmptyDB, signingPhases, Phase
<1>4. newMachine.phase \notin signingPhases
  BY NewMachineType DEF signingPhases
<1>5. NoCall.kind = "none"
  BY DEF NoCall
<1>6. Started /\ StagedState
  BY <1>3, <1>4, <1>5 DEF Init, Started, StagedState, Staging
<1>7. CommittedIsCurrent /\ Reliable
  BY <1>3 DEF Init, CommittedIsCurrent, Reliable, inDB
<1>8. QED
  BY <1>2, <1>6, <1>7 DEF Inv

\* What a method of the wrapper must have done to the machine, leaving m, when
\* it hands over the batch of this kind.
Prepared(m, kind, p) ==
    /\ (kind = "CreateChannel") = (task = "create")
    /\ kind = "CreateChannel" => m = mem
    /\ Staging(m.phase, m.stagingTX.state)
    /\ kind = "Enabled" => m.currentTX.state \in State
    /\ kind = "PhaseChanged" => m.phase \notin signingPhases
    /\ failures = 0 /\ inDB => Knows(m.phase, m.stagingTX.state, m.currentTX.state)
    /\ kind # "Enabled" => m.currentTX = mem.currentTX
    /\ kind \notin {"Staged", "Enabled"} =>
          /\ m.stagingTX.state = mem.stagingTX.state
          /\ \A q \in Parts : q # p \/ kind # "SigAdded" =>
                m.stagingTX.sigs[q] = mem.stagingTX.sigs[q]
    /\ kind \notin {"Staged", "Enabled", "PhaseChanged", "RemoveChannel"} =>
          m.phase = mem.phase
    /\ kind = "Staged" => \A q \in Parts : m.stagingTX.sigs[q] = Nil

\* A call of the wrapper preserves the invariant.
LEMMA CallInv ==
    ASSUME Inv, mem # Nil, call = NoCall, NEW m \in MachineType,
           NEW kind \in Kind, NEW p \in Parts, NEW next \in Task,
           NEW onError \in Task, Call(m, kind, p, next, onError),
           Prepared(m, kind, p)
    PROVE  Inv'
<1> DEFINE c == [kind |-> kind, p |-> p, next |-> next, onError |-> onError]
<1>1. c \in CallType /\ c.kind = kind /\ c.p = p
  BY DEF CallType
<1>2. /\ mem' = m /\ call' = c /\ db' = db /\ task' = task /\ crashes' = crashes
      /\ failures' = failures /\ released' = released /\ committed' = committed
  BY DEF Call, history
<1> HIDE DEF c
<1>3. NoCall.kind = "none"
  BY DEF NoCall
<1>4. TypeOK'
  BY <1>1, <1>2 DEF Inv, TypeOK
<1>5. m # Nil
  BY PersistenceAssumption
<1>6. Started'
  BY <1>1, <1>2, <1>3, <1>5 DEF Inv, Started, Prepared
<1>7. StagedState'
  BY <1>1, <1>2 DEF Inv, StagedState, Prepared
<1>8. CommittedIsCurrent'
  BY <1>2 DEF Inv, CommittedIsCurrent, inDB
<1>9. Reliable'
  BY <1>1, <1>2, <1>3
  DEF Inv, Reliable, KnownReleased, Knows, UpToBatch, Prepared, inDB
<1>10. QED
  BY <1>4, <1>6, <1>7, <1>8, <1>9 DEF Inv

\* A batch keeps the types of the database, and has the machine's values for
\* what the invariant compares.
LEMMA WriteType ==
    ASSUME Inv, call # NoCall
    PROVE  /\ call \in CallType /\ mem \in MachineType
           /\ Write(db, mem, call.kind, call.p) \in DBType
<1>1. call \in CallType /\ mem \in MachineType /\ db \in DBType
  BY DEF Inv, TypeOK, Started
<1>2. call.kind \in Kind /\ call.p \in Parts
  BY <1>1 DEF CallType
<1>3. NoSigKeys \in [Parts -> Sig \cup {Nil, Absent}]
  BY DEF NoSigKeys
<1>4. /\ mem.phase \in Phase /\ mem.currentTX \in Transaction
      /\ mem.stagingTX.state \in State \cup {Nil}
      /\ mem.stagingTX.sigs \in [Parts -> Sig \cup {Nil}]
  BY <1>1 DEF MachineType, Transaction
<1>5. /\ Staged(db, mem) \in DBType /\ SigAdded(db, mem, call.p) \in DBType
      /\ Enabled(db, mem) \in DBType /\ PhaseChanged(db, mem) \in DBType
  BY <1>1, <1>2, <1>4 DEF Staged, SigAdded, Enabled, PhaseChanged, DBType
<1>6. /\ CreateChannel(db, mem) \in DBType /\ CreatePeers(db) \in DBType
      /\ RemoveChannel(db) \in DBType /\ RemovePeers(db) \in DBType
  BY <1>1, <1>3, <1>4
  DEF CreateChannel, CreatePeers, RemoveChannel, RemovePeers, DBType
<1>7. QED
  BY <1>1, <1>2, <1>5, <1>6 DEF Write, Kind

\* Writing a batch preserves the invariant.
LEMMA PersistInv ==
    ASSUME Inv, Persist
    PROVE  Inv'
<1> DEFINE kind == call.kind
<1>1. /\ call \in CallType /\ mem \in MachineType /\ db' \in DBType
      /\ db \in DBType /\ kind \in Kind /\ call.p \in Parts /\ call.next \in Task
  BY WriteType DEF Persist, CallType, Inv, TypeOK
<1>2. /\ call' = NoCall /\ task' = call.next /\ mem' = mem
      /\ crashes' = crashes /\ failures' = failures
      /\ db' = Write(db, mem, kind, call.p)
  BY DEF Persist
<1>3. released' = IF kind = "SigAdded" /\ call.p = me /\ mem.phase = "Signing"
                    THEN released \cup {mem.stagingTX.state} ELSE released
  BY DEF Persist
<1>4. committed' = IF kind = "Enabled" THEN mem.currentTX.state ELSE committed
  BY DEF Persist
<1>5. mem # Nil /\ NoCall.kind = "none"
  BY <1>1, PersistenceAssumption DEF NoCall
<1>6. Staging(mem.phase, mem.stagingTX.state)
  BY <1>5 DEF Inv, StagedState
<1>7. released' \subseteq State
  BY <1>3, <1>6 DEF Staging, signingPhases, Inv, TypeOK
<1>8. TypeOK'
  BY <1>1, <1>2, <1>4, <1>7 DEF Inv, TypeOK, StagedState
<1>9. Started'
  BY <1>1, <1>2, <1>5 DEF Started, Task
<1>10. /\ kind = "Staged" => db' = Staged(db, mem)
       /\ kind = "SigAdded" => db' = SigAdded(db, mem, call.p)
       /\ kind = "Enabled" => db' = Enabled(db, mem)
       /\ kind = "PhaseChanged" => db' = PhaseChanged(db, mem)
       /\ kind = "CreateChannel" => db' = CreateChannel(db, mem)
       /\ kind = "CreatePeers" => db' = CreatePeers(db)
       /\ kind = "RemoveChannel" => db' = RemoveChannel(db)
       /\ kind = "RemovePeers" => db' = RemovePeers(db)
  BY <1>2 DEF Write
<1>11. StagedState'
  <2>1. CASE kind \in {"Staged", "CreateChannel"}
    BY <1>1, <1>2, <1>5, <1>6, <1>10, <2>1
    DEF StagedState, Staging, Staged, CreateChannel, DBType
  <2>2. CASE kind = "Enabled"
    BY <1>1, <1>2, <1>5, <1>6, <1>10, <2>2
    DEF StagedState, Staging, Enabled, DBType
  <2>3. CASE kind = "PhaseChanged"
    BY <1>1, <1>2, <1>5, <1>6, <1>10, <2>3
    DEF Inv, StagedState, Staging, PhaseChanged, DBType
  <2>4. CASE kind \in {"SigAdded", "CreatePeers", "RemovePeers"}
    <3>1. db'.phase = db.phase /\ db'.state = db.state
      BY <1>1, <1>10, <2>4 DEF SigAdded, CreatePeers, RemovePeers, DBType
    <3>2. QED
      BY <1>2, <1>5, <1>6, <3>1 DEF Inv, StagedState, Staging
  <2>5. CASE kind = "RemoveChannel"
    <3>1. db'.phase = Absent
      BY <1>1, <1>10, <2>5 DEF RemoveChannel, DBType
    <3>2. QED
      BY <1>2, <1>5, <1>6, <3>1, PersistenceAssumption
      DEF StagedState, Staging, Phase, signingPhases
  <2>6. QED
    BY <1>1, <2>1, <2>2, <2>3, <2>4, <2>5 DEF Kind
<1>12. CommittedIsCurrent'
  <2>1. CASE kind = "Enabled"
    BY <1>1, <1>4, <1>10, <2>1 DEF CommittedIsCurrent, Enabled, DBType
  <2>2. CASE kind \in {"CreateChannel", "RemoveChannel"}
    BY <1>1, <1>4, <1>10, <2>2
    DEF CommittedIsCurrent, Inv, Started, RemoveChannel, DBType, inDB
  <2>3. CASE kind \notin {"Enabled", "CreateChannel", "RemoveChannel"}
    <3>1. db'.current = db.current /\ db'.meta = db.meta
      BY <1>1, <1>10, <2>3
      DEF Kind, Staged, SigAdded, PhaseChanged, CreatePeers, RemovePeers, DBType
    <3>2. QED
      BY <1>4, <2>3, <3>1 DEF CommittedIsCurrent, Inv, inDB
  <2>4. QED
    BY <2>1, <2>2, <2>3
<1>13. Reliable'
  <2> SUFFICES ASSUME failures = 0, inDB'
               PROVE  KnownReleased' /\ UpToBatch'
    BY <1>2 DEF Reliable
  <2>1. CASE kind = "CreateChannel"
    <3>1. /\ mem = newMachine /\ released' = {}
          /\ db'.phase = mem.phase /\ db'.state = mem.stagingTX.state
          /\ db'.current = mem.currentTX /\ db'.sigs = mem.stagingTX.sigs
      BY <1>1, <1>3, <1>10, <2>1 DEF Inv, Started, CreateChannel, DBType
    <3>2. KnownReleased'
      BY <1>2, <3>1, NewMachineType DEF KnownReleased, Knows
    <3>3. QED
      BY <1>2, <1>5, <3>1, <3>2 DEF UpToBatch
  <2>2. kind # "RemoveChannel"
    BY <1>1, <1>10 DEF RemoveChannel, DBType, inDB
  <2>3. CASE kind # "CreateChannel"
    <3>1. db'.meta = db.meta
      BY <1>1, <1>10, <2>2, <2>3
      DEF Kind, Staged, SigAdded, Enabled, PhaseChanged, CreatePeers,
          RemovePeers, DBType
    <3>2. KnownReleased /\ UpToBatch
      BY <1>5, <3>1 DEF Inv, Reliable, inDB
    <3>3. /\ db'.current = mem.currentTX /\ db'.state = mem.stagingTX.state
          /\ db'.phase = mem.phase
      BY <1>1, <1>10, <2>2, <2>3, <3>2
      DEF UpToBatch, Kind, Staged, SigAdded, Enabled, PhaseChanged,
          CreatePeers, RemovePeers, DBType
    <3>4. ASSUME NEW p \in Parts, mem.stagingTX.sigs[p] # Nil
          PROVE  db'.sigs[p] = mem.stagingTX.sigs[p]
      <4>1. CASE kind = "SigAdded"
        <5>1. db'.sigs = [db.sigs EXCEPT ![call.p] = mem.stagingTX.sigs[call.p]]
          BY <1>1, <1>10, <4>1 DEF SigAdded, DBType
        <5>2. p # call.p => db.sigs[p] = mem.stagingTX.sigs[p]
          BY <3>2, <3>4, <4>1 DEF UpToBatch
        <5>3. db.sigs \in [Parts -> Sig \cup {Nil, Absent}]
          BY <1>1 DEF DBType
        <5>4. QED
          BY <5>1, <5>2, <5>3
      <4>2. CASE kind \in {"PhaseChanged", "CreatePeers", "RemovePeers"}
        BY <1>1, <1>10, <3>2, <3>4, <4>2
        DEF UpToBatch, PhaseChanged, CreatePeers, RemovePeers, DBType
      <4>3. CASE kind = "Enabled"
        BY <1>1, <1>10, <4>3 DEF Enabled, DBType
      <4>4. kind # "Staged"
        BY <3>2, <3>4 DEF UpToBatch
      <4>5. QED
        BY <1>1, <2>2, <2>3, <4>1, <4>2, <4>3, <4>4 DEF Kind
    <3>5. UpToBatch'
      BY <1>2, <1>5, <3>3, <3>4 DEF UpToBatch
    <3>6. Knows(mem.phase, mem.stagingTX.state, mem.currentTX.state)
      BY <1>5, <3>2 DEF KnownReleased
    <3>7. Knows(mem.phase, mem.stagingTX.state, mem.currentTX.state)'
      BY <1>2, <1>3, <3>6 DEF Knows
    <3>8. KnownReleased'
      BY <1>2, <3>3, <3>7 DEF KnownReleased, Knows
    <3>9. QED
      BY <3>5, <3>8
  <2>4. QED
    BY <2>1, <2>3
<1>14. QED
  BY <1>8, <1>9, <1>11, <1>12, <1>13 DEF Inv

\* A refused batch preserves the invariant: nothing is promised from then on
\* but that the database keeps what was reported.
LEMMA PersistFailsInv ==
    ASSUME Inv, PersistFails
    PROVE  Inv'
<1>1. call \in CallType /\ mem \in MachineType /\ mem # Nil
  BY WriteType, PersistenceAssumption DEF PersistFails
<1>2. NoCall.kind = "none" /\ call.onError \in Task
  BY <1>1 DEF NoCall, CallType
<1>3. /\ failures' = failures + 1 /\ call' = NoCall /\ task' = call.onError
      /\ mem' = mem /\ db' = db /\ crashes' = crashes
      /\ released' = released /\ committed' = committed
  BY DEF PersistFails, history
<1>4. failures \in Nat
  BY DEF Inv, TypeOK
<1>5. TypeOK' /\ Started'
  BY <1>1, <1>2, <1>3, <1>4 DEF Inv, TypeOK, Started, Task
<1>6. StagedState' /\ CommittedIsCurrent'
  BY <1>2, <1>3 DEF Inv, StagedState, CommittedIsCurrent, inDB
<1>7. Reliable'
  BY <1>3, <1>4 DEF Reliable
<1>8. QED
  BY <1>5, <1>6, <1>7 DEF Inv

\* Losing the memory preserves the invariant.
LEMMA CrashInv ==
    ASSUME Inv, Crash
    PROVE  Inv'
<1>1. NoCall.kind = "none"
  BY DEF NoCall
<1>2. /\ mem' = Nil /\ call' = NoCall /\ task' = "down" /\ crashes' = crashes + 1
      /\ db' = db /\ failures' = failures
      /\ released' = released /\ committed' = committed
  BY DEF Crash, history
<1>3. TypeOK' /\ Started'
  BY <1>1, <1>2 DEF Inv, TypeOK, Started, Task
<1>4. StagedState' /\ CommittedIsCurrent'
  BY <1>1, <1>2 DEF Inv, StagedState, CommittedIsCurrent, inDB
<1>5. Reliable'
  BY <1>2 DEF Inv, Reliable, KnownReleased, Knows, inDB
<1>6. QED
  BY <1>3, <1>4, <1>5 DEF Inv

\* Restarting from the database preserves the invariant.
LEMMA RestoreInv ==
    ASSUME Inv, Restore
    PROVE  Inv'
<1>1. call = NoCall /\ NoCall.kind = "none"
  BY DEF Inv, Started, Restore, NoCall
<1>2. /\ mem' = restored(db) /\ call' = call /\ task' = "idle"
      /\ crashes' = crashes /\ db' = db /\ failures' = failures
      /\ released' = released /\ committed' = committed
  BY DEF Restore, history
<1>3. /\ db.current \in Transaction /\ db.phase \in Phase
      /\ db.state \in State \cup {Nil} /\ db.sigs \in [Parts -> Sig \cup {Nil}]
  BY DEF Inv, TypeOK, DBType, Restore, AllKeys
<1>4. /\ mem' \in MachineType /\ mem'.phase = db.phase
      /\ mem'.stagingTX.state = db.state /\ mem'.stagingTX.sigs = db.sigs
      /\ mem'.currentTX = db.current
  BY <1>2, <1>3 DEF restored, MachineType, Transaction
<1>5. TypeOK' /\ Started'
  BY <1>1, <1>2, <1>4 DEF Inv, TypeOK, Started, Task
<1>6. StagedState' /\ CommittedIsCurrent'
  BY <1>1, <1>2, <1>4 DEF Inv, StagedState, CommittedIsCurrent, inDB
<1>7. Reliable'
  BY <1>1, <1>2, <1>4
  DEF Inv, Reliable, KnownReleased, Knows, UpToBatch, inDB
<1>8. QED
  BY <1>5, <1>6, <1>7 DEF Inv

\* Going on to the next task preserves the invariant.
LEMMA GotoInv ==
    ASSUME Inv, NEW t \in Task, call = NoCall, Goto(t)
    PROVE  Inv'
<1>1. NoCall.kind = "none"
  BY DEF NoCall
<1>2. /\ mem' = mem /\ call' = call /\ task' = t
      /\ crashes' = crashes /\ db' = db /\ failures' = failures
      /\ released' = released /\ committed' = committed
  BY DEF Goto, history
<1>3. TypeOK' /\ Started'
  BY <1>1, <1>2 DEF Inv, TypeOK, Started, Task
<1>4. StagedState' /\ CommittedIsCurrent'
  BY <1>2 DEF Inv, StagedState, CommittedIsCurrent, inDB
<1>5. Reliable'
  BY <1>2 DEF Inv, Reliable, KnownReleased, Knows, UpToBatch, inDB
<1>6. QED
  BY <1>3, <1>4, <1>5 DEF Inv

-----------------------------------------------------------------------------
(* What the methods of the machine do. *)

\* Staging a state (machine.setStaging) leaves it without signatures.
LEMMA setStagingFacts ==
    ASSUME NEW m \in MachineType, NEW ph \in Phase, NEW s \in State
    PROVE  /\ setStaging(m, ph, s) \in MachineType
           /\ setStaging(m, ph, s).phase = ph
           /\ setStaging(m, ph, s).stagingTX.state = s
           /\ \A q \in Parts : setStaging(m, ph, s).stagingTX.sigs[q] = Nil
           /\ setStaging(m, ph, s).currentTX = m.currentTX
  BY DEF setStaging, newTransaction, MachineType, Transaction

\* Storing a signature (machine.Sig, machine.AddSig) changes nothing else.
LEMMA SignatureFacts ==
    ASSUME NEW m \in MachineType, NEW idx \in Parts, NEW sig \in Sig \cup {Nil}
    PROVE  /\ AddSig(m, idx, sig) \in MachineType
           /\ AddSig(m, idx, sig).phase = m.phase
           /\ AddSig(m, idx, sig).stagingTX.state = m.stagingTX.state
           /\ \A q \in Parts \ {idx} : AddSig(m, idx, sig).stagingTX.sigs[q]
                                          = m.stagingTX.sigs[q]
           /\ AddSig(m, idx, sig).currentTX = m.currentTX
  BY DEF AddSig, MachineType, Transaction

\* Changing the phase (machine.setPhase) changes nothing else.
LEMMA setPhaseFacts ==
    ASSUME NEW m \in MachineType, NEW ph \in Phase
    PROVE  /\ setPhase(m, ph) \in MachineType
           /\ setPhase(m, ph).phase = ph
           /\ setPhase(m, ph).stagingTX = m.stagingTX
           /\ setPhase(m, ph).currentTX = m.currentTX
  BY DEF setPhase, MachineType

\* Making a transaction the current one (machine.addTx) clears the staged one.
LEMMA addTxFacts ==
    ASSUME NEW m \in MachineType, NEW ph \in Phase, NEW tx \in Transaction
    PROVE  /\ addTx(setPhase(m, ph), tx) \in MachineType
           /\ addTx(setPhase(m, ph), tx).phase = ph
           /\ addTx(setPhase(m, ph), tx).stagingTX = NoTX
           /\ addTx(setPhase(m, ph), tx).currentTX = tx
  BY NewMachineType DEF addTx, setPhase, MachineType

-----------------------------------------------------------------------------
(* Every action hands over a batch that is prepared. *)

\* At a task, with the machine in memory and no call pending.
LEMMA AtFacts ==
    ASSUME Inv, NEW t \in Task \cup {"create"}, at(t)
    PROVE  /\ mem # Nil /\ mem \in MachineType /\ call = NoCall /\ task = t
           /\ mem.phase \in Phase /\ mem.stagingTX \in Transaction
           /\ mem.currentTX \in Transaction
           /\ Staging(mem.phase, mem.stagingTX.state)
           /\ released \subseteq State
           /\ failures = 0 /\ inDB =>
                 Knows(mem.phase, mem.stagingTX.state, mem.currentTX.state)
  BY DEF at, Inv, TypeOK, StagedState, Reliable, KnownReleased, MachineType

\* Methods that stage a state.
LEMMA StagesInv ==
    ASSUME Inv, NEW t \in Task, at(t), NEW s \in State,
           NEW ph \in {"InitSigning", "Signing", "Progressing"},
           NEW next \in Task, NEW onError \in Task,
           ph = "InitSigning" => mem.phase = "InitActing",
           ph = "Signing" => /\ mem.phase = "Acting"
                             /\ s.version = mem.currentTX.state.version + 1,
           Call(setStaging(mem, ph, s), "Staged", me, next, onError)
    PROVE  Inv'
<1> DEFINE m == setStaging(mem, ph, s)
<1>1. /\ mem # Nil /\ mem \in MachineType /\ call = NoCall /\ task = t
      /\ released \subseteq State
      /\ failures = 0 /\ inDB =>
            Knows(mem.phase, mem.stagingTX.state, mem.currentTX.state)
  BY AtFacts
<1>2. ph \in Phase
  BY DEF Phase
<1>3. /\ m \in MachineType /\ m.phase = ph /\ m.stagingTX.state = s
      /\ \A q \in Parts : m.stagingTX.sigs[q] = Nil
      /\ m.currentTX = mem.currentTX
  BY <1>1, <1>2, setStagingFacts
<1> HIDE DEF m
<1>4. ASSUME failures = 0, inDB
      PROVE  Knows(m.phase, m.stagingTX.state, m.currentTX.state)
  <2>1. Knows(mem.phase, mem.stagingTX.state, mem.currentTX.state)
    BY <1>1, <1>4
  <2>2. CASE ph = "Signing"
    <3>1. mem.currentTX.state \in State /\ mem.stagingTX.state = Nil
      BY <2>1, <2>2 DEF Knows
    <3>2. s.version >= mem.currentTX.state.version
      BY <2>2, <3>1 DEF State
    <3>3. \A r \in released : r.version <= mem.currentTX.state.version
      BY <1>1, <2>1, <2>2, <3>1, NilAssumption DEF Knows
    <3>4. QED
      BY <1>3, <2>2, <3>1, <3>2, <3>3 DEF Knows
  <2>3. CASE ph # "Signing"
    BY <1>3, <2>1, <2>3 DEF Knows
  <2>4. QED
    BY <2>2, <2>3
<1>5. Prepared(m, "Staged", me)
  BY <1>1, <1>3, <1>4 DEF Prepared, Staging, Task
<1>6. QED
  BY <1>1, <1>3, <1>5, CallInv, PeerFacts DEF m, Kind

\* Methods that store a signature on the staged state.
LEMMA SignsInv ==
    ASSUME Inv, NEW t \in Task, at(t), NEW idx \in Parts,
           NEW sig \in Sig \cup {Nil}, NEW next \in Task, NEW onError \in Task,
           Call(AddSig(mem, idx, sig), "SigAdded", idx, next, onError)
    PROVE  Inv'
<1> DEFINE m == AddSig(mem, idx, sig)
<1>1. /\ mem # Nil /\ mem \in MachineType /\ call = NoCall /\ task = t
      /\ Staging(mem.phase, mem.stagingTX.state)
      /\ failures = 0 /\ inDB =>
            Knows(mem.phase, mem.stagingTX.state, mem.currentTX.state)
  BY AtFacts
<1>2. /\ m \in MachineType /\ m.phase = mem.phase
      /\ m.stagingTX.state = mem.stagingTX.state
      /\ \A q \in Parts \ {idx} : m.stagingTX.sigs[q] = mem.stagingTX.sigs[q]
      /\ m.currentTX = mem.currentTX
  BY <1>1, SignatureFacts
<1> HIDE DEF m
<1>3. Prepared(m, "SigAdded", idx)
  BY <1>1, <1>2 DEF Prepared, Task
<1>4. QED
  BY <1>1, <1>2, <1>3, CallInv DEF m, Kind

\* Our own signature (machine.Sig).
LEMMA OwnSigInv ==
    ASSUME Inv, NEW t \in Task, at(t), SigAllowed(mem),
           NEW next \in Task, NEW onError \in Task,
           Call(Sig_(mem, me), "SigAdded", me, next, onError)
    PROVE  Inv'
<1>1. mem.stagingTX.state \in State /\ mem.stagingTX \in Transaction
  BY AtFacts DEF SigAllowed, Staging
<1>2. OwnSig(mem, me) \in Sig \cup {Nil}
  BY <1>1, PeerFacts DEF OwnSig, Sign, Sig, Transaction
<1>3. Sig_(mem, me) = AddSig(mem, me, OwnSig(mem, me))
  BY DEF Sig_, AddSig
<1>4. QED
  BY <1>2, <1>3, SignsInv, PeerFacts

\* The peer's signature (machine.AddSig).
LEMMA PeerSigInv ==
    ASSUME Inv, NEW t \in Task, at(t), NEW next \in Task, NEW onError \in Task,
           AddSigAllowed(mem, peer, Sign(peer, mem.stagingTX.state)),
           Call(AddSig(mem, peer, Sign(peer, mem.stagingTX.state)),
                "SigAdded", peer, next, onError)
    PROVE  Inv'
<1>1. mem.stagingTX.state \in State
  BY AtFacts DEF AddSigAllowed, Staging
<1>2. Sign(peer, mem.stagingTX.state) \in Sig \cup {Nil}
  BY <1>1, PeerFacts DEF Sign, Sig
<1>3. QED
  BY <1>2, SignsInv, PeerFacts

\* Methods that change the phase.
LEMMA PhaseInv ==
    ASSUME Inv, NEW t \in Task, at(t), NEW ph \in Phase \ signingPhases,
           NEW kind \in {"PhaseChanged", "RemoveChannel"},
           NEW next \in Task, NEW onError \in Task,
           ph \in {"Registering", "Registered", "Withdrawing", "Withdrawn"}
             \/ (ph = "Acting" /\ mem.phase = "Funding"),
           Call(setPhase(mem, ph), kind, me, next, onError)
    PROVE  Inv'
<1> DEFINE m == setPhase(mem, ph)
<1>1. /\ mem # Nil /\ mem \in MachineType /\ call = NoCall /\ task = t
      /\ failures = 0 /\ inDB =>
            Knows(mem.phase, mem.stagingTX.state, mem.currentTX.state)
  BY AtFacts
<1>2. /\ m \in MachineType /\ m.phase = ph /\ m.stagingTX = mem.stagingTX
      /\ m.currentTX = mem.currentTX
  BY <1>1, setPhaseFacts
<1> HIDE DEF m
<1>3. failures = 0 /\ inDB => Knows(m.phase, m.stagingTX.state, m.currentTX.state)
  BY <1>1, <1>2 DEF Knows
<1>4. Prepared(m, kind, me)
  BY <1>1, <1>2, <1>3 DEF Prepared, Staging, Task
<1>5. QED
  BY <1>1, <1>2, <1>4, CallInv, PeerFacts DEF m, Kind

\* Methods that make a transaction the current one.
LEMMA EnablesInv ==
    ASSUME Inv, NEW t \in Task, at(t), NEW tx \in Transaction, tx.state \in State,
           NEW ph \in {"Funding", "Acting", "Final", "Progressed"},
           NEW next \in Task, NEW onError \in Task,
           ph = "Funding" => mem.phase = "InitSigning",
           ph \in {"Acting", "Final"} => mem.phase = "Signing" /\ tx = mem.stagingTX,
           Call(addTx(setPhase(mem, ph), tx), "Enabled", me, next, onError)
    PROVE  Inv'
<1> DEFINE m == addTx(setPhase(mem, ph), tx)
<1>1. /\ mem # Nil /\ mem \in MachineType /\ call = NoCall /\ task = t
      /\ released \subseteq State
      /\ failures = 0 /\ inDB =>
            Knows(mem.phase, mem.stagingTX.state, mem.currentTX.state)
  BY AtFacts
<1>2. ph \in Phase /\ ph \notin signingPhases
  BY DEF Phase, signingPhases
<1>3. /\ m \in MachineType /\ m.phase = ph /\ m.stagingTX = NoTX
      /\ m.currentTX = tx
  BY <1>1, <1>2, addTxFacts
<1> HIDE DEF m
<1>4. ASSUME failures = 0, inDB
      PROVE  Knows(m.phase, m.stagingTX.state, m.currentTX.state)
  <2>1. Knows(mem.phase, mem.stagingTX.state, mem.currentTX.state)
    BY <1>1, <1>4
  <2>2. CASE ph \in {"Acting", "Final"}
    <3>1. /\ mem.currentTX.state \in State
          /\ tx.state.version >= mem.currentTX.state.version
      BY <2>1, <2>2 DEF Knows
    <3>2. ASSUME NEW r \in released PROVE r.version <= tx.state.version
      <4>1. r = tx.state \/ r.version <= mem.currentTX.state.version
        BY <2>1, <2>2 DEF Knows
      <4>2. r \in State
        BY <1>1
      <4>3. QED
        BY <3>1, <4>1, <4>2 DEF State
    <3>3. QED
      BY <1>3, <2>2, <3>2, NewMachineType DEF Knows
  <2>3. CASE ph \in {"Funding", "Progressed"}
    BY <1>3, <2>1, <2>3, NewMachineType DEF Knows
  <2>4. QED
    BY <2>2, <2>3
<1>5. Prepared(m, "Enabled", me)
  BY <1>1, <1>2, <1>3, <1>4 DEF Prepared, Staging, Task
<1>6. QED
  BY <1>1, <1>3, <1>5, CallInv, PeerFacts DEF m, Kind

\* Batches that are written without a change of the machine.
LEMMA SameMachineInv ==
    ASSUME Inv, NEW t \in Task \cup {"create"}, at(t),
           NEW kind \in {"CreateChannel", "CreatePeers", "RemovePeers"},
           NEW next \in Task, NEW onError \in Task,
           (kind = "CreateChannel") = (t = "create"),
           Call(mem, kind, me, next, onError)
    PROVE  Inv'
<1>1. /\ mem # Nil /\ mem \in MachineType /\ call = NoCall /\ task = t
      /\ Staging(mem.phase, mem.stagingTX.state)
      /\ failures = 0 /\ inDB =>
            Knows(mem.phase, mem.stagingTX.state, mem.currentTX.state)
  BY AtFacts
<1>2. Prepared(mem, kind, me)
  BY <1>1 DEF Prepared
<1>3. QED
  BY <1>1, <1>2, CallInv, PeerFacts DEF Kind

\* Opening the channel preserves the invariant.
LEMMA OpeningInv ==
    ASSUME Inv, Opening
    PROVE  Inv'
<1>1. CASE Create
  BY <1>1, SameMachineInv DEF Create, Task
<1>2. CASE ListPeers
  BY <1>2, SameMachineInv DEF ListPeers, Task
<1>3. CASE InitChannel
  <2>1. InitState(InitBals) \in State
    BY PersistenceAssumption DEF InitState, State
  <2>2. QED
    BY <1>3, <2>1, StagesInv DEF InitChannel, Init_, InitAllowed, expect, Task
<1>4. CASE SignInit
  BY <1>4, OwnSigInv DEF SignInit, Task
<1>5. CASE AddInitSig
  BY <1>5, PeerSigInv DEF AddInitSig, Task
<1>6. CASE EnableInitial
  <2>1. mem.phase = "InitSigning"
    BY <1>6 DEF EnableInitial, EnableInitAllowed, enableStagedAllowed, expect
  <2>2. mem.stagingTX \in Transaction /\ mem.stagingTX.state \in State
    BY <1>6, <2>1, AtFacts DEF EnableInitial, Staging, signingPhases, Task
  <2>3. QED
    BY <1>6, <2>1, <2>2, EnablesInv
    DEF EnableInitial, EnableInit, enableStaged, Task
<1>7. CASE Fund
  BY <1>7, PhaseInv
  DEF Fund, SetFundedAllowed, SetFunded, expect, Phase, signingPhases, Task
<1>8. CASE FundFails
  BY <1>8, GotoInv DEF FundFails, at, Task
<1>9. QED
  BY <1>1, <1>2, <1>3, <1>4, <1>5, <1>6, <1>7, <1>8 DEF Opening

\* Discarding the staged update preserves the invariant: its state is not
\* among the released ones any more, and all others are overtaken.
LEMMA DiscardInv ==
    ASSUME Inv, Discard
    PROVE  Inv'
<1> DEFINE c == [kind |-> "Staged", p |-> me, next |-> "idle", onError |-> "idle"]
           st == mem.stagingTX.state
<1>1. /\ mem # Nil /\ mem \in MachineType /\ call = NoCall /\ task = "discard"
      /\ released \subseteq State
      /\ failures = 0 /\ inDB =>
            Knows(mem.phase, mem.stagingTX.state, mem.currentTX.state)
  BY AtFacts DEF Discard, Task
<1>2. c \in CallType /\ c.kind = "Staged" /\ c.p = me
  BY PeerFacts DEF CallType, Kind, Task
<1>3. /\ mem' \in MachineType /\ mem'.phase = "Acting" /\ mem'.stagingTX = NoTX
      /\ mem'.currentTX = mem.currentTX
  BY <1>1, NewMachineType DEF Discard, DiscardUpdate, MachineType, Phase
<1>4. /\ call' = c /\ released' = released \ {st} /\ db' = db /\ task' = task
      /\ crashes' = crashes /\ failures' = failures /\ committed' = committed
      /\ mem.phase = "Signing"
  BY DEF Discard, DiscardAllowed, expect
<1> HIDE DEF c, st
<1>5. mem' # Nil /\ NoCall.kind = "none"
  BY <1>3, PersistenceAssumption DEF NoCall
<1>6. TypeOK' /\ Started'
  BY <1>1, <1>2, <1>3, <1>4, <1>5 DEF Inv, TypeOK, Started, Task
<1>7. StagedState' /\ CommittedIsCurrent'
  BY <1>2, <1>3, <1>4
  DEF Inv, StagedState, Staging, signingPhases, CommittedIsCurrent, inDB
<1>8. Reliable'
  <2> SUFFICES ASSUME failures = 0, inDB
               PROVE  KnownReleased' /\ UpToBatch'
    BY <1>4 DEF Reliable, inDB
  <2>1. KnownReleased /\ UpToBatch
    BY <1>1 DEF Inv, Reliable
  <2>2. UpToBatch'
    BY <1>1, <1>2, <1>3, <1>4, <1>5, <2>1, NewMachineType DEF UpToBatch
  <2>3. Knows(db.phase, db.state, db.current.state)'
    BY <1>4, <2>1 DEF KnownReleased, Knows
  <2>4. Knows(mem.phase, mem.stagingTX.state, mem.currentTX.state)'
    BY <1>1, <1>3, <1>4, NewMachineType DEF Knows, st
  <2>5. QED
    BY <2>2, <2>3, <2>4 DEF KnownReleased
<1>9. QED
  BY <1>6, <1>7, <1>8 DEF Inv

\* Updating the channel preserves the invariant.
LEMMA UpdatingInv ==
    ASSUME Inv, Updating
    PROVE  Inv'
<1>1. ASSUME NEW s \in Candidates, Propose(s) \/ Accept(s) PROVE Inv'
  <2>1. s \in State
    BY PersistenceAssumption
  <2>2. mem.phase = "Acting" /\ s.version = mem.currentTX.state.version + 1
    BY <1>1 DEF Propose, Accept, UpdateAllowed, expect, validTransition,
                machineValidTransition
  <2>3. QED
    BY <1>1, <2>1, <2>2, StagesInv DEF Propose, Accept, Update_, Task
<1>2. CASE SignProposed
  BY <1>2, OwnSigInv DEF SignProposed, Task
<1>3. CASE RecvAcc
  BY <1>3, PeerSigInv DEF RecvAcc, Task
<1>4. CASE AddPeerSig
  BY <1>4, PeerSigInv DEF AddPeerSig, Task
<1>5. CASE SignAccepted
  BY <1>5, OwnSigInv DEF SignAccepted, Task
<1>6. CASE EnableNotifyUpdate
  <2>1. mem.phase = "Signing" /\ EnableTarget(mem) \in {"Acting", "Final"}
    BY <1>6 DEF EnableNotifyUpdate, EnableAllowed, enableStagedAllowed, expect,
                EnableTarget
  <2>2. mem.stagingTX \in Transaction /\ mem.stagingTX.state \in State
    BY <1>6, <2>1, AtFacts DEF EnableNotifyUpdate, Staging, signingPhases, Task
  <2>3. QED
    BY <1>6, <2>1, <2>2, EnablesInv
    DEF EnableNotifyUpdate, Enable, enableStaged, Task
<1>7. CASE Discard
  BY <1>7, DiscardInv
<1>8. CASE NotAccepted \/ SendAcc \/ DiscardFails \/ HandleSync
  BY <1>8, GotoInv DEF NotAccepted, SendAcc, DiscardFails, HandleSync, at, Task
<1>9. QED
  BY <1>1, <1>2, <1>3, <1>4, <1>5, <1>6, <1>7, <1>8 DEF Updating

\* Setting a channel withdrawn that was removed before preserves the invariant.
LEMMA SettleAgainInv ==
    ASSUME Inv, SettleAgain
    PROVE  Inv'
<1>1. mem # Nil /\ mem \in MachineType /\ call = NoCall /\ task = "withdrawing"
  BY AtFacts DEF SettleAgain, Task
<1>2. /\ mem' \in MachineType /\ mem'.phase = "Withdrawn"
      /\ call' = call /\ task' = "idle" /\ db' = db /\ crashes' = crashes
      /\ failures' = failures /\ released' = released /\ committed' = committed
      /\ ~inDB'
  BY <1>1, setPhaseFacts DEF SettleAgain, SetWithdrawn, Phase, history, inDB
<1>3. NoCall.kind = "none"
  BY DEF NoCall
<1>4. TypeOK' /\ Started'
  BY <1>1, <1>2, <1>3 DEF Inv, TypeOK, Started, Task
<1>5. StagedState' /\ CommittedIsCurrent' /\ Reliable'
  BY <1>1, <1>2, <1>3
  DEF Inv, StagedState, Staging, signingPhases, CommittedIsCurrent, Reliable
<1>6. QED
  BY <1>4, <1>5 DEF Inv

\* Disputing and settling the channel preserves the invariant.
LEMMA DisputingInv ==
    ASSUME Inv, Disputing
    PROVE  Inv'
<1>1. CASE Register \/ Settle
  BY <1>1, PhaseInv
  DEF Register, Settle, SetRegistering, SetWithdrawing, Phase, signingPhases, Task
<1>2. CASE RegisterReturns \/ HandleRegistered
  BY <1>2, PhaseInv
  DEF RegisterReturns, HandleRegistered, SetRegistered, Phase, signingPhases, Task
<1>3. CASE SettleReturns
  BY <1>3, PhaseInv
  DEF SettleReturns, SetWithdrawn, Phase, signingPhases, Task
<1>4. CASE AdjudicatorFails
  BY <1>4, GotoInv DEF AdjudicatorFails, at, Task
<1>5. ASSUME NEW s \in Candidates, ProgressBy(s) PROVE Inv'
  BY <1>5, StagesInv, PersistenceAssumption DEF ProgressBy, SetProgressing, Task
<1>6. ASSUME NEW s \in Candidates, HandleProgressed(s) PROVE Inv'
  <2>1. newTransaction(s) \in Transaction /\ newTransaction(s).state \in State
    BY PersistenceAssumption DEF newTransaction, Transaction
  <2>2. QED
    BY <1>6, <2>1, EnablesInv DEF HandleProgressed, SetProgressed, forceState, Task
<1>7. CASE SignProgress
  BY <1>7, OwnSigInv DEF SignProgress, Task
<1>8. CASE SettleAgain
  BY <1>8, SettleAgainInv
<1>9. CASE UnlistPeers
  BY <1>9, SameMachineInv DEF UnlistPeers, Task
<1>10. QED
  BY <1>1, <1>2, <1>3, <1>4, <1>5, <1>6, <1>7, <1>8, <1>9 DEF Disputing

-----------------------------------------------------------------------------
(* The theorems *)

\* Every step of the machine, the database and the process preserves the
\* invariant.
THEOREM Invariance == Spec => []Inv
<1>1. Inv /\ [Next]_vars => Inv'
  <2> SUFFICES ASSUME Inv, [Next]_vars PROVE Inv'
    OBVIOUS
  <2>1. CASE Opening
    BY <2>1, OpeningInv
  <2>2. CASE Updating
    BY <2>2, UpdatingInv
  <2>3. CASE Disputing
    BY <2>3, DisputingInv
  <2>4. CASE Persist
    BY <2>4, PersistInv
  <2>5. CASE PersistFails
    BY <2>5, PersistFailsInv
  <2>6. CASE Crash
    BY <2>6, CrashInv
  <2>7. CASE Restore
    BY <2>7, RestoreInv
  <2>8. CASE RestoreFails
    BY <2>8, GotoInv DEF RestoreFails, Inv, Started, Task
  <2>9. CASE UNCHANGED vars
    BY <2>9 DEF vars, history, Inv, TypeOK, Started, StagedState, Staging,
                CommittedIsCurrent, Reliable, KnownReleased, Knows, UpToBatch, inDB
  <2>10. QED
    BY <2>1, <2>2, <2>3, <2>4, <2>5, <2>6, <2>7, <2>8, <2>9 DEF Next
<1>2. QED
  BY InitInv, <1>1, PTL DEF Spec

\* An update reported as enabled (statemachine.go, EnableUpdate returning nil)
\* survives every crash and every later failure of the database.
THEOREM DurableAlways == Spec => []Durable
  BY Invariance, InvImplies, PTL

\* While the database works, a restarted client knows every state that its
\* peer may still enable with the signature it was given.
THEOREM SignedIsPersistedAlways == Spec => []SignedIsPersisted
  BY Invariance, InvImplies, PTL

\* While the database works, what a restart restores is the machine in memory.
THEOREM RestoredMatchesAlways == Spec => []RestoredMatches
  BY Invariance, InvImplies, PTL
=============================================================================
