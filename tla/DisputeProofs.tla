--------------------------- MODULE DisputeProofs ---------------------------
(***************************************************************************)
(* Proofs about the update protocol and about disputing and settling a     *)
(* channel while it is updated, for all balances, all proposals and any    *)
(* number of failures.                                                     *)
(*                                                                         *)
(* First the update protocol alone: its inductive invariant, what follows  *)
(* from it, and that it implements AgreedStates; then what became of every *)
(* signature that a participant sent, from which it follows that two       *)
(* machines disagree only after a discard and that nobody loses balance by *)
(* an update of its peer.  Then the dispute: a watched channel is never    *)
(* closed with an outdated state, the watcher panics only after a discard, *)
(* and who watched is paid what the chain says.                            *)
(***************************************************************************)
EXTENDS Dispute, TLAPS

-----------------------------------------------------------------------------
(* The operations of the machine keep its type. *)

\* The peer is the one other participant.
LEMMA OtherFacts ==
    ASSUME NEW p \in Parts
    PROVE  /\ Other(p) \in Parts
           /\ Other(p) # p
           /\ \A q \in Parts : q = p \/ q = Other(p)
  BY ProtocolAssumption DEF Other

\* The state a channel is opened with is a state.
LEMMA InitialStateType == InitialState \in State
  BY ProtocolAssumption DEF InitialState, InitState, State

\* An empty transaction is a transaction.
LEMMA NoTXType == NoTX \in Transaction
  BY DEF NoTX, newTransaction, Transaction

\* Staging a state keeps the type of the machine (machine.setStaging).
LEMMA UpdateType ==
    ASSUME NEW m \in MachineType, NEW s \in State
    PROVE  /\ Update_(m, s) \in MachineType
           /\ Update_(m, s).phase = "Signing"
           /\ Update_(m, s).stagingTX = newTransaction(s)
           /\ Update_(m, s).currentTX = m.currentTX
  BY DEF Update_, setStaging, newTransaction, MachineType, Transaction, Phase

\* Signing the staged state keeps the type of the machine (machine.Sig).
LEMMA SigType ==
    ASSUME NEW m \in MachineType, NEW p \in Parts,
           m.stagingTX.state \in State, m.stagingTX.sigs[p] = Nil
    PROVE  /\ Sig_(m, p) \in MachineType
           /\ Sig_(m, p).phase = m.phase
           /\ Sig_(m, p).stagingTX.state = m.stagingTX.state
           /\ Sig_(m, p).stagingTX.sigs =
                [m.stagingTX.sigs EXCEPT ![p] = Sign(p, m.stagingTX.state)]
           /\ Sig_(m, p).currentTX = m.currentTX
  BY DEF Sig_, OwnSig, Sign, Sig, MachineType, Transaction

\* Adding a signature keeps the type of the machine (machine.AddSig).
LEMMA AddSigType ==
    ASSUME NEW m \in MachineType, NEW p \in Parts, NEW sig \in Sig
    PROVE  /\ AddSig(m, p, sig) \in MachineType
           /\ AddSig(m, p, sig).phase = m.phase
           /\ AddSig(m, p, sig).stagingTX.state = m.stagingTX.state
           /\ AddSig(m, p, sig).stagingTX.sigs = [m.stagingTX.sigs EXCEPT ![p] = sig]
           /\ AddSig(m, p, sig).currentTX = m.currentTX
  BY DEF AddSig, Sig, MachineType, Transaction

\* Discarding keeps the type of the machine (machine.DiscardUpdate).
LEMMA DiscardType ==
    ASSUME NEW m \in MachineType
    PROVE  /\ DiscardUpdate(m) \in MachineType
           /\ DiscardUpdate(m).phase = "Acting"
           /\ DiscardUpdate(m).currentTX = m.currentTX
  BY NoTXType DEF DiscardUpdate, MachineType, Phase

\* Enabling keeps the type of the machine (machine.enableStaged).
LEMMA EnableType ==
    ASSUME NEW m \in MachineType
    PROVE  /\ Enable(m) \in MachineType
           /\ Enable(m).phase \in {"Acting", "Final"}
           /\ Enable(m).currentTX = m.stagingTX
  BY NoTXType DEF Enable, EnableTarget, enableStaged, addTx, setPhase,
                  MachineType, Phase

-----------------------------------------------------------------------------
(* The inductive invariant.  Base is the part of it that every step of the *)
(* protocol keeps, also when others use machMtx in between (Dispute does).  *)

\* The types.  machMtx is held by an update or by a call of Dispute.
Holder == LockHolder \cup {"registering", "refuting", "withdrawing"}

BaseType ==
    /\ machine \in [Parts -> MachineType]
    /\ lock \in [Parts -> Holder]
    /\ msgs \subseteq Message
    /\ discarded \in [Parts -> SUBSET State]

\* Every signature on the wire is its sender's, on a state users asked for.
GenuineMsgs ==
    \A m \in msgs :
        /\ m.type = "ChannelUpdate" =>
              m.sig = Sign(m.from, m.state) /\ m.state \in Proposals
        /\ m.type = "ChannelUpdateAcc" =>
              m.sig = Sign(m.from, m.sig.state) /\ m.sig.state \in Proposals

\* The staged state follows the current one, and the signatures on it are
\* genuine and on the wire.
StagedBy(p, actor) ==
    /\ machine[p].phase = "Signing"
    /\ staged(p) \in Proposals
    /\ validTransition(machine[p], staged(p), actor)
    /\ machine[p].stagingTX.sigs[p] = Sign(p, staged(p))
    /\ staged(p) \in signedBy(p)

HeldAt(p) ==
    /\ lock[p] = "proposing" =>
          /\ StagedBy(p, p)
          /\ machine[p].stagingTX.sigs[Other(p)] = Nil
    /\ lock[p] = "accepting" =>
          /\ StagedBy(p, Other(p))
          /\ machine[p].stagingTX.sigs[Other(p)] = Sign(Other(p), staged(p))
          /\ staged(p) \in signedBy(Other(p))

CurrentAt(p) ==
    /\ current(p) \in ReachableStates
    /\ \A q \in Parts : machine[p].currentTX.sigs[q] = Sign(q, current(p))

Base ==
    /\ BaseType
    /\ GenuineMsgs
    /\ \A p \in Parts : HeldAt(p) /\ CurrentAt(p)

\* With nobody else at it, an unlocked machine can go on.
ReadyAt(p) ==
    /\ lock[p] \in LockHolder
    /\ lock[p] = "free" => machine[p].phase \in {"Acting", "Final"}

Inv == Base /\ \A p \in Parts : ReadyAt(p)

\* A funded channel satisfies the inductive invariant.
LEMMA InitInv == Init => Inv
<1> SUFFICES ASSUME Init PROVE Inv
  OBVIOUS
<1>1. fundedMachine \in MachineType
  BY InitialStateType, NoTXType
  DEF fundedMachine, MachineType, Transaction, Phase, Sign, Sig
<1>2. BaseType
  BY <1>1 DEF Init, BaseType, Holder, LockHolder
<1>3. QED
  BY <1>2 DEF Init, Inv, Base, GenuineMsgs, HeldAt, CurrentAt, ReadyAt,
              LockHolder, fundedMachine, current, ReachableStates

\* A step of p leaves the other party alone, except that more may be signed.
LEMMA OthersKeep ==
    ASSUME NEW p \in Parts, Base, msgs \subseteq msgs',
           \A q \in Parts \ {p} : machine'[q] = machine[q] /\ lock'[q] = lock[q]
    PROVE  /\ \A q \in Parts : signedBy(q) \subseteq signedBy(q)'
           /\ \A q \in Parts \ {p} : HeldAt(q)' /\ CurrentAt(q)'
<1>1. \A q \in Parts : signedBy(q) \subseteq signedBy(q)'
  BY DEF signedBy
<1>2. ASSUME NEW q \in Parts \ {p} PROVE HeldAt(q)' /\ CurrentAt(q)'
  <2>1. HeldAt(q) /\ CurrentAt(q)
    BY DEF Base
  <2>2. machine'[q] = machine[q] /\ lock'[q] = lock[q]
    OBVIOUS
  <2>3. HeldAt(q)'
    BY <1>1, <2>1, <2>2, OtherFacts DEF HeldAt, StagedBy, staged
  <2>4. CurrentAt(q)'
    BY <2>1, <2>2 DEF CurrentAt, current
  <2>5. QED
    BY <2>3, <2>4
<1>3. QED
  BY <1>1, <1>2

\* What the proposer has staged (m), and what it sends (msg).
UpdateEffect(p, s, m, msg) ==
    /\ m \in MachineType /\ m.phase = "Signing" /\ m.stagingTX.state = s
    /\ m.stagingTX.sigs = [q \in Parts |-> IF q = p THEN Sign(p, s) ELSE Nil]
    /\ m.currentTX = machine[p].currentTX
    /\ msg \in Message /\ msg.type = "ChannelUpdate" /\ msg.from = p
    /\ msg.state = s /\ msg.sig = Sign(p, s) /\ msg.sig.state = s
    /\ validTransition(machine[p], s, p)
    /\ machine' = [machine EXCEPT ![p] = m]
    /\ lock' = [lock EXCEPT ![p] = "proposing"]
    /\ msgs' = msgs \cup {msg}
    /\ discarded' = discarded

\* What Channel.Update does to the machine, the lock and the messages.
LEMMA UpdateFacts ==
    ASSUME NEW p \in Parts, NEW s \in Proposals, Base, Update(p, s)
    PROVE  \E m, msg : UpdateEffect(p, s, m, msg)
<1> DEFINE u == Update_(machine[p], s)
           m == Sig_(u, p)
           msg == msgChannelUpdate(p, s, m.stagingTX.sigs[p])
<1>1. s \in State /\ machine[p] \in MachineType
  BY ProtocolAssumption DEF Base, BaseType
<1>2. u \in MachineType /\ u.stagingTX = newTransaction(s)
      /\ u.phase = "Signing" /\ u.currentTX = machine[p].currentTX
  BY <1>1, UpdateType
<1>3. u.stagingTX.state = s /\ u.stagingTX.sigs = [q \in Parts |-> Nil]
  BY <1>2 DEF newTransaction
<1> HIDE DEF u
<1>4. /\ m \in MachineType /\ m.phase = "Signing" /\ m.stagingTX.state = s
      /\ m.stagingTX.sigs = [q \in Parts |-> IF q = p THEN Sign(p, s) ELSE Nil]
      /\ m.currentTX = machine[p].currentTX
  BY <1>1, <1>2, <1>3, SigType
<1> HIDE DEF m
<1>5. /\ msg \in Message /\ msg.type = "ChannelUpdate" /\ msg.from = p
      /\ msg.state = s /\ msg.sig = Sign(p, s) /\ msg.sig.state = s
  BY <1>1, <1>4 DEF msgChannelUpdate, Message, Sign, Sig
<1>6. /\ validTransition(machine[p], s, p)
      /\ machine' = [machine EXCEPT ![p] = m]
      /\ lock' = [lock EXCEPT ![p] = "proposing"]
      /\ msgs' = msgs \cup {msg}
      /\ discarded' = discarded
  BY DEF Update, UpdateAllowed, m, u
<1>7. QED
  BY <1>4, <1>5, <1>6 DEF UpdateEffect

\* Proposing an update preserves the inductive invariant.
LEMMA UpdateInv ==
    ASSUME NEW p \in Parts, NEW s \in Proposals, Base, Update(p, s)
    PROVE  Base'
<1>1. PICK m, msg : UpdateEffect(p, s, m, msg)
  BY UpdateFacts
<1>2. BaseType'
  BY <1>1 DEF UpdateEffect, Base, BaseType, Holder, LockHolder
<1>3. machine'[p] = m /\ lock'[p] = "proposing"
  BY <1>1 DEF UpdateEffect, Base, BaseType
<1>4. GenuineMsgs'
  BY <1>1 DEF UpdateEffect, Base, GenuineMsgs
<1>5. HeldAt(p)'
  <2>1. s \in signedBy(p)'
    BY <1>1 DEF UpdateEffect, signedBy
  <2>2. validTransition(m, s, p)
    BY <1>1 DEF UpdateEffect, validTransition, machineValidTransition
  <2>3. QED
    BY <1>1, <1>3, <2>1, <2>2, OtherFacts DEF UpdateEffect, HeldAt, StagedBy, staged
<1>6. CurrentAt(p)'
  BY <1>1, <1>3 DEF UpdateEffect, Base, CurrentAt, current
<1>7. \A q \in Parts \ {p} : HeldAt(q)' /\ CurrentAt(q)'
  BY <1>1, OthersKeep DEF UpdateEffect, Base, BaseType
<1>8. QED
  BY <1>2, <1>4, <1>5, <1>6, <1>7 DEF Base

\* Discarding an update preserves the inductive invariant.
LEMMA DiscardInv ==
    ASSUME NEW p \in Parts, Base, lock[p] \in {"proposing", "accepting"}, discard(p)
    PROVE  Base'
<1> DEFINE m == DiscardUpdate(machine[p])
<1>1. machine[p] \in MachineType
  BY DEF Base, BaseType
<1>2. m \in MachineType /\ m.phase = "Acting" /\ m.currentTX = machine[p].currentTX
  BY <1>1, DiscardType
<1>3. staged(p) \in State
  BY ProtocolAssumption DEF Base, HeldAt, StagedBy, BaseType
<1> HIDE DEF m
<1>4. /\ machine' = [machine EXCEPT ![p] = m]
      /\ lock' = [lock EXCEPT ![p] = "free"]
      /\ msgs' = msgs
      /\ discarded' = [discarded EXCEPT ![p] = @ \cup {staged(p)}]
  BY DEF discard, m
<1>5. BaseType'
  BY <1>2, <1>3, <1>4 DEF Base, BaseType, Holder, LockHolder
<1>6. machine'[p] = m /\ lock'[p] = "free"
  BY <1>4 DEF Base, BaseType
<1>7. HeldAt(p)' /\ CurrentAt(p)'
  BY <1>2, <1>6 DEF Base, HeldAt, CurrentAt, current
<1>8. \A q \in Parts \ {p} : HeldAt(q)' /\ CurrentAt(q)'
  BY <1>4, OthersKeep DEF Base, BaseType
<1>9. QED
  BY <1>4, <1>5, <1>7, <1>8 DEF Base, GenuineMsgs

\* Enabling a staged transaction that carries both signatures.
LEMMA EnableInv ==
    ASSUME NEW p \in Parts, Base, NEW m \in MachineType,
           m.stagingTX.state \in Proposals,
           \A q \in Parts : m.stagingTX.sigs[q] = Sign(q, m.stagingTX.state),
           machine' = [machine EXCEPT ![p] = Enable(m)],
           lock' = [lock EXCEPT ![p] = "free"],
           UNCHANGED <<msgs, discarded>>
    PROVE  Base'
<1> DEFINE e == Enable(m)
<1>1. /\ e \in MachineType /\ e.phase \in {"Acting", "Final"}
      /\ e.currentTX = m.stagingTX
  BY EnableType
<1> HIDE DEF e
<1>2. machine' = [machine EXCEPT ![p] = e]
  BY DEF e
<1>3. BaseType'
  BY <1>1, <1>2 DEF Base, BaseType, Holder, LockHolder
<1>4. machine'[p] = e /\ lock'[p] = "free"
  BY <1>2 DEF Base, BaseType
<1>5. HeldAt(p)' /\ CurrentAt(p)'
  BY <1>1, <1>4 DEF HeldAt, CurrentAt, current, ReachableStates
<1>6. \A q \in Parts \ {p} : HeldAt(q)' /\ CurrentAt(q)'
  BY <1>2, OthersKeep DEF Base, BaseType
<1>7. QED
  BY <1>3, <1>5, <1>6 DEF Base, GenuineMsgs

\* The accept message carries the one signature that was missing.
LEMMA RecvAccFacts ==
    ASSUME NEW p \in Parts, NEW msg \in msgs, Base, RecvAcc(p, msg),
           NEW m, m = AddSig(machine[p], Other(p), msg.sig)
    PROVE  /\ m \in MachineType
           /\ m.stagingTX.state = staged(p)
           /\ \A q \in Parts : m.stagingTX.sigs[q] = Sign(q, staged(p))
           /\ m.currentTX = machine[p].currentTX
           /\ staged(p) \in signedBy(Other(p))
           /\ StagedBy(p, p)
<1>1. machine[p] \in MachineType
  BY DEF Base, BaseType
<1>2. msg.sig = Sign(Other(p), staged(p))
  BY DEF RecvAcc, AddSigAllowed, Verify, staged
<1>3. StagedBy(p, p)
  BY DEF RecvAcc, Base, HeldAt
<1>4. staged(p) \in State
  BY <1>3, ProtocolAssumption DEF StagedBy
<1>5. msg.sig \in Sig
  BY <1>2, <1>4, OtherFacts DEF Sign, Sig
<1>6. staged(p) \in signedBy(Other(p))
  BY <1>2 DEF signedBy, RecvAcc, isResponse, Sign
<1>7. /\ m \in MachineType
      /\ m.stagingTX.state = staged(p)
      /\ m.stagingTX.sigs = [machine[p].stagingTX.sigs EXCEPT ![Other(p)] = msg.sig]
      /\ m.currentTX = machine[p].currentTX
  BY <1>1, <1>5, AddSigType, OtherFacts DEF staged
<1>8. machine[p].stagingTX.sigs \in [Parts -> Sig \cup {Nil}]
  BY <1>1 DEF MachineType, Transaction
<1>9. \A q \in Parts : m.stagingTX.sigs[q] = Sign(q, staged(p))
  BY <1>2, <1>3, <1>7, <1>8, OtherFacts DEF StagedBy
<1>10. QED
  BY <1>3, <1>6, <1>7, <1>9

\* Receiving an accept message preserves the inductive invariant.
LEMMA RecvAccInv ==
    ASSUME NEW p \in Parts, NEW msg \in msgs, Base, RecvAcc(p, msg)
    PROVE  Base'
<1> DEFINE m == AddSig(machine[p], Other(p), msg.sig)
<1>1. /\ m \in MachineType
      /\ m.stagingTX.state = staged(p)
      /\ \A q \in Parts : m.stagingTX.sigs[q] = Sign(q, staged(p))
      /\ StagedBy(p, p)
  BY RecvAccFacts
<1>2. /\ machine' = [machine EXCEPT ![p] = Enable(m)]
      /\ lock' = [lock EXCEPT ![p] = "free"]
      /\ UNCHANGED <<msgs, discarded>>
  BY DEF RecvAcc
<1> HIDE DEF m
<1>3. QED
  BY <1>1, <1>2, EnableInv DEF StagedBy

\* Enabling an accepted update preserves the inductive invariant.
LEMMA EnableNotifyInv ==
    ASSUME NEW p \in Parts, Base, EnableNotifyUpdate(p)
    PROVE  Base'
<1> DEFINE m == machine[p]
<1>1. lock[p] = "accepting" /\ m \in MachineType
  BY DEF EnableNotifyUpdate, Base, BaseType
<1>2. /\ machine' = [machine EXCEPT ![p] = Enable(m)]
      /\ lock' = [lock EXCEPT ![p] = "free"]
      /\ UNCHANGED <<msgs, discarded>>
  BY DEF EnableNotifyUpdate
<1>3. /\ m.stagingTX.state \in Proposals
      /\ \A q \in Parts : m.stagingTX.sigs[q] = Sign(q, m.stagingTX.state)
  BY <1>1, OtherFacts DEF Base, HeldAt, StagedBy, staged
<1> HIDE DEF m
<1>4. QED
  BY <1>1, <1>2, <1>3, EnableInv

\* What the responder has staged (m), and what it answers (acc).
AcceptEffect(p, msg, m, acc) ==
    /\ msg.type = "ChannelUpdate" /\ msg.from = Other(p)
    /\ msg.state \in Proposals /\ msg.sig = Sign(Other(p), msg.state)
    /\ m \in MachineType /\ m.phase = "Signing" /\ m.stagingTX.state = msg.state
    /\ m.stagingTX.sigs[p] = Sign(p, msg.state)
    /\ m.stagingTX.sigs[Other(p)] = Sign(Other(p), msg.state)
    /\ m.currentTX = machine[p].currentTX
    /\ acc \in Message /\ acc.type = "ChannelUpdateAcc" /\ acc.from = p
    /\ acc.sig = Sign(p, msg.state) /\ acc.sig.state = msg.state
    /\ validTransition(machine[p], msg.state, Other(p))
    /\ machine' = [machine EXCEPT ![p] = m]
    /\ lock' = [lock EXCEPT ![p] = "accepting"]
    /\ msgs' = msgs \cup {acc}
    /\ discarded' = discarded

\* What handleUpdateAcc does to the machine, the lock and the messages.
LEMMA HandleUpdateAccFacts ==
    ASSUME NEW p \in Parts, NEW msg \in msgs, Base, HandleUpdateAcc(p, msg)
    PROVE  \E m, acc : AcceptEffect(p, msg, m, acc)
<1> DEFINE u == Update_(machine[p], msg.state)
           w == AddSig(u, msg.from, msg.sig)
           m == Sig_(w, p)
           acc == msgChannelUpdateAcc(p, msg.state.version, m.stagingTX.sigs[p])
<1>1. /\ msg.type = "ChannelUpdate" /\ msg.from = Other(p)
      /\ msg.actor = Other(p)
      /\ msg.state \in Proposals /\ msg.state \in State /\ msg.state.version \in Nat
      /\ msg.sig = Sign(Other(p), msg.state) /\ msg.sig \in Sig
      /\ machine[p] \in MachineType
  <2>1. msg.type = "ChannelUpdate" /\ msg.from = Other(p) /\ msg.actor = msg.from
    BY DEF HandleUpdateAcc, isValidRequest, validTwoPartyUpdate
  <2>2. msg.sig = Sign(msg.from, msg.state) /\ msg.state \in Proposals
    BY <2>1 DEF Base, GenuineMsgs
  <2>3. QED
    BY <2>1, <2>2, ProtocolAssumption, OtherFacts
    DEF Base, BaseType, State, Sign, Sig
<1>2. /\ u \in MachineType /\ u.stagingTX = newTransaction(msg.state)
      /\ u.phase = "Signing" /\ u.currentTX = machine[p].currentTX
  BY <1>1, UpdateType
<1>3. u.stagingTX.state = msg.state /\ u.stagingTX.sigs = [q \in Parts |-> Nil]
  BY <1>2 DEF newTransaction
<1> HIDE DEF u
<1>4. /\ w \in MachineType /\ w.stagingTX.state = msg.state
      /\ w.stagingTX.sigs = [q \in Parts |-> IF q = Other(p) THEN msg.sig ELSE Nil]
      /\ w.phase = "Signing" /\ w.currentTX = machine[p].currentTX
  BY <1>1, <1>2, <1>3, AddSigType, OtherFacts
<1> HIDE DEF w
<1>5. w.stagingTX.sigs[p] = Nil /\ w.stagingTX.sigs[Other(p)] = msg.sig
  BY <1>4, OtherFacts
<1>7. /\ m \in MachineType /\ m.stagingTX.state = msg.state
      /\ m.stagingTX.sigs = [w.stagingTX.sigs EXCEPT ![p] = Sign(p, msg.state)]
      /\ m.phase = "Signing" /\ m.currentTX = machine[p].currentTX
  BY <1>1, <1>4, <1>5, SigType
<1> HIDE DEF m
<1>8. /\ m.stagingTX.sigs[p] = Sign(p, msg.state)
      /\ m.stagingTX.sigs[Other(p)] = Sign(Other(p), msg.state)
  BY <1>1, <1>4, <1>5, <1>7, OtherFacts
<1>9. /\ acc \in Message /\ acc.type = "ChannelUpdateAcc" /\ acc.from = p
      /\ acc.sig = Sign(p, msg.state) /\ acc.sig.state = msg.state
  BY <1>1, <1>8 DEF msgChannelUpdateAcc, Message, Sign, Sig
<1>10. /\ validTransition(machine[p], msg.state, Other(p))
       /\ machine' = [machine EXCEPT ![p] = m]
       /\ lock' = [lock EXCEPT ![p] = "accepting"]
       /\ msgs' = msgs \cup {acc}
       /\ discarded' = discarded
  BY <1>1 DEF HandleUpdateAcc, UpdateAllowed, m, w, u
<1>11. QED
  BY <1>1, <1>7, <1>8, <1>9, <1>10 DEF AcceptEffect

\* Accepting an update preserves the inductive invariant.
LEMMA HandleUpdateAccInv ==
    ASSUME NEW p \in Parts, NEW msg \in msgs, Base, HandleUpdateAcc(p, msg)
    PROVE  Base'
<1>1. PICK m, acc : AcceptEffect(p, msg, m, acc)
  BY HandleUpdateAccFacts
<1>2. BaseType'
  BY <1>1 DEF AcceptEffect, Base, BaseType, Holder, LockHolder
<1>3. machine'[p] = m /\ lock'[p] = "accepting"
  BY <1>1 DEF AcceptEffect, Base, BaseType
<1>4. GenuineMsgs'
  BY <1>1 DEF AcceptEffect, Base, GenuineMsgs
<1>5. HeldAt(p)'
  <2>1. msg.state \in signedBy(p)' /\ msg.state \in signedBy(Other(p))'
    BY <1>1 DEF AcceptEffect, signedBy, Sign
  <2>2. validTransition(m, msg.state, Other(p))
    BY <1>1 DEF AcceptEffect, validTransition, machineValidTransition
  <2>3. QED
    BY <1>1, <1>3, <2>1, <2>2, OtherFacts DEF AcceptEffect, HeldAt, StagedBy, staged
<1>6. CurrentAt(p)'
  BY <1>1, <1>3 DEF AcceptEffect, Base, CurrentAt, current
<1>7. \A q \in Parts \ {p} : HeldAt(q)' /\ CurrentAt(q)'
  BY <1>1, OthersKeep DEF AcceptEffect, Base, BaseType
<1>8. QED
  BY <1>2, <1>4, <1>5, <1>6, <1>7 DEF Base

\* Rejecting an update preserves the inductive invariant.
LEMMA HandleUpdateRejInv ==
    ASSUME NEW p \in Parts, NEW msg \in msgs, Base, HandleUpdateRej(p, msg)
    PROVE  Base'
<1> DEFINE rej == msgChannelUpdateRej(p, msg.state)
<1>1. msg.type = "ChannelUpdate" /\ msg.state \in State
  BY ProtocolAssumption
  DEF HandleUpdateRej, isValidRequest, Base, GenuineMsgs
<1>2. rej \in Message /\ rej.type = "ChannelUpdateRej"
  BY <1>1 DEF msgChannelUpdateRej, Message, State
<1>3. msgs' = msgs \cup {rej} /\ UNCHANGED <<machine, lock, discarded>>
  BY DEF HandleUpdateRej
<1>4. BaseType' /\ GenuineMsgs'
  BY <1>2, <1>3 DEF Base, BaseType, GenuineMsgs
<1>5. \A q \in Parts : signedBy(q) \subseteq signedBy(q)'
  BY <1>3 DEF signedBy
<1>6. \A q \in Parts : HeldAt(q)' /\ CurrentAt(q)'
  BY <1>3, <1>5, OtherFacts DEF Base, HeldAt, StagedBy, staged, CurrentAt, current
<1>7. QED
  BY <1>4, <1>6 DEF Base

\* A step of p preserves Base.
LEMMA StepBase ==
    ASSUME NEW p \in Parts, Base, Step(p)
    PROVE  Base'
<1>1. ASSUME NEW s \in Proposals, Update(p, s) PROVE Base'
  BY <1>1, UpdateInv
<1>2. ASSUME NEW msg \in msgs, RecvAcc(p, msg) PROVE Base'
  BY <1>2, RecvAccInv
<1>3. ASSUME NEW msg \in msgs, RecvBadAcc(p, msg) \/ RecvRej(p, msg) PROVE Base'
  BY <1>3, DiscardInv DEF RecvBadAcc, RecvRej
<1>4. ASSUME NEW msg \in msgs, HandleUpdateAcc(p, msg) PROVE Base'
  BY <1>4, HandleUpdateAccInv
<1>5. ASSUME NEW msg \in msgs, HandleUpdateRej(p, msg) PROVE Base'
  BY <1>5, HandleUpdateRejInv
<1>6. CASE DiscardProposed(p) \/ DiscardAccepted(p)
  BY <1>6, DiscardInv DEF DiscardProposed, DiscardAccepted
<1>7. CASE EnableNotifyUpdate(p)
  BY <1>7, EnableNotifyInv
<1>8. QED
  BY <1>1, <1>2, <1>3, <1>4, <1>5, <1>6, <1>7 DEF Step

\* What else a step of p may do: it leaves the peer alone, takes nothing back,
\* uses machMtx only as long as it is free or held by p's update, changes only
\* a machine that takes updates, and releases it ready for the next one.
StepEffect(p) ==
    /\ \A q \in Parts \ {p} : /\ machine'[q] = machine[q] /\ lock'[q] = lock[q]
                              /\ discarded'[q] = discarded[q]
    /\ msgs \subseteq msgs' /\ discarded[p] \subseteq discarded'[p]
    /\ lock[p] \in LockHolder /\ lock'[p] \in LockHolder
    /\ \/ machine'[p] = machine[p] /\ lock'[p] = lock[p]
       \/ /\ machine[p].phase \in {"Acting", "Signing"}
          /\ machine'[p].phase \in {"Acting", "Signing", "Final"}
          /\ lock'[p] = "free" => machine'[p].phase # "Signing"

\* A step of p has this effect.
LEMMA StepFrame ==
    ASSUME NEW p \in Parts, Base, Step(p)
    PROVE  StepEffect(p)
<1>1. ASSUME NEW s \in Proposals, Update(p, s) PROVE StepEffect(p)
  <2>1. PICK m, msg : UpdateEffect(p, s, m, msg)
    BY <1>1, UpdateFacts
  <2>2. lock[p] = "free" /\ machine[p].phase = "Acting"
    BY <1>1 DEF Update, UpdateAllowed, expect
  <2>3. QED
    BY <2>1, <2>2 DEF StepEffect, UpdateEffect, LockHolder, Base, BaseType
<1>2. ASSUME lock[p] \in {"proposing", "accepting"}, discard(p) PROVE StepEffect(p)
  <2>1. machine[p].phase = "Signing" /\ machine[p] \in MachineType
    BY <1>2 DEF Base, BaseType, HeldAt, StagedBy
  <2>2. DiscardUpdate(machine[p]).phase = "Acting"
    BY <2>1, DiscardType
  <2>3. QED
    BY <1>2, <2>1, <2>2 DEF StepEffect, discard, LockHolder, Base, BaseType
<1>3. ASSUME lock[p] \in {"proposing", "accepting"}, NEW m \in MachineType,
             machine' = [machine EXCEPT ![p] = Enable(m)],
             lock' = [lock EXCEPT ![p] = "free"], UNCHANGED <<msgs, discarded>>
      PROVE  StepEffect(p)
  <2>1. machine[p].phase = "Signing"
    BY <1>3 DEF Base, HeldAt, StagedBy
  <2>2. Enable(m).phase \in {"Acting", "Final"}
    BY <1>3, EnableType
  <2>3. QED
    BY <1>3, <2>1, <2>2 DEF StepEffect, LockHolder, Base, BaseType
<1>4. ASSUME NEW msg \in msgs, RecvAcc(p, msg) PROVE StepEffect(p)
  <2>1. AddSig(machine[p], Other(p), msg.sig) \in MachineType
    BY <1>4, RecvAccFacts
  <2>2. QED
    BY <1>3, <1>4, <2>1 DEF RecvAcc
<1>5. ASSUME NEW msg \in msgs, RecvBadAcc(p, msg) \/ RecvRej(p, msg)
      PROVE  StepEffect(p)
  BY <1>2, <1>5 DEF RecvBadAcc, RecvRej
<1>6. ASSUME NEW msg \in msgs, HandleUpdateAcc(p, msg) PROVE StepEffect(p)
  <2>1. PICK m, acc : AcceptEffect(p, msg, m, acc)
    BY <1>6, HandleUpdateAccFacts
  <2>2. lock[p] = "free" /\ machine[p].phase = "Acting"
    BY <1>6 DEF HandleUpdateAcc, isValidRequest, UpdateAllowed, expect
  <2>3. QED
    BY <2>1, <2>2 DEF StepEffect, AcceptEffect, LockHolder, Base, BaseType
<1>7. ASSUME NEW msg \in msgs, HandleUpdateRej(p, msg) PROVE StepEffect(p)
  BY <1>7 DEF HandleUpdateRej, isValidRequest, StepEffect, LockHolder
<1>8. CASE DiscardProposed(p) \/ DiscardAccepted(p)
  BY <1>2, <1>8 DEF DiscardProposed, DiscardAccepted
<1>9. CASE EnableNotifyUpdate(p)
  <2>1. machine[p] \in MachineType
    BY DEF Base, BaseType
  <2>2. QED
    BY <1>3, <1>9, <2>1 DEF EnableNotifyUpdate
<1>10. QED
  BY <1>1, <1>4, <1>5, <1>6, <1>7, <1>8, <1>9 DEF Step

\* Every step preserves the inductive invariant.
LEMMA NextInv == Inv /\ [Next]_vars => Inv'
<1> SUFFICES ASSUME Inv, [Next]_vars PROVE Inv'
  OBVIOUS
<1>1. CASE UNCHANGED vars
  BY <1>1 DEF vars, Inv, Base, BaseType, GenuineMsgs, HeldAt, StagedBy,
              CurrentAt, ReadyAt, staged, current, signedBy
<1>2. ASSUME NEW p \in Parts, Step(p) PROVE Inv'
  <2>1. Base' /\ StepEffect(p)
    BY <1>2, StepBase, StepFrame DEF Inv
  <2>2. \A q \in Parts : ReadyAt(q)'
    BY <2>1 DEF Inv, ReadyAt, StepEffect
  <2>3. QED
    BY <2>1, <2>2 DEF Inv
<1>3. QED
  BY <1>1, <1>2 DEF Next

\* The inductive invariant holds in every reachable state, in particular the
\* types of machines, locks and messages.
THEOREM Invariance == Spec => []Inv
  BY InitInv, NextInv, PTL DEF Spec

\* The variables of the update protocol keep their types.
THEOREM TypeCorrect == Spec => []TypeOK
<1>1. Inv => TypeOK
  BY DEF Inv, Base, BaseType, ReadyAt, TypeOK
<1>2. QED
  BY <1>1, Invariance, PTL

\* Whatever is handed to the adjudicator is signed by both participants.
THEOREM FullySignedAlways == Spec => []FullySigned
<1>1. Inv => FullySigned
  BY DEF Inv, Base, CurrentAt, FullySigned, Verify
<1>2. QED
  BY <1>1, Invariance, PTL

\* The machine is in Signing exactly while a call holds machMtx.
THEOREM NotStuckSigningAlways == Spec => []NotStuckSigning
<1>1. Inv => NotStuckSigning
  BY DEF Inv, Base, ReadyAt, LockHolder, HeldAt, StagedBy, NotStuckSigning
<1>2. QED
  BY <1>1, Invariance, PTL

-----------------------------------------------------------------------------
(* The update protocol implements AgreedStates. *)

aCur == [p \in Parts |-> current(p)]
aSigned == [p \in Parts |-> signedBy(p)]

\* The states of the protocol are as AgreedStates assumes them.
LEMMA AbstractAssumption == A!StatesAssumption
<1>1. ReachableStates \subseteq State
  BY ProtocolAssumption, InitialStateType DEF ReachableStates
<1>2. QED
  BY <1>1 DEF A!StatesAssumption, ReachableStates, State

\* What AgreedStates keeps when the states are those of the protocol.
LEMMA AbstractSign ==
    ASSUME A!AInv, NEW p \in Parts, NEW s \in ReachableStates, A!Sign(p, s)
    PROVE  A!AInv'
<1>1. /\ aCur \in [Parts -> ReachableStates] /\ aSigned \in [Parts -> SUBSET ReachableStates]
      /\ aCur' = aCur /\ aSigned' = [aSigned EXCEPT ![p] = @ \cup {s}]
      /\ s.version = aCur[p].version + 1 /\ ~aCur[p].isFinal /\ assets(s) = assets(aCur[p])
  BY DEF A!AInv, A!TypeOK, A!Sign, A!Follows, aCur, aSigned
<1>2. \A q \in Parts :
        /\ \A t \in aSigned[q] :
             /\ t.version <= aCur[q].version + 1
             /\ t.version = aCur[q].version + 1 => ~aCur[q].isFinal
             /\ assets(t) = assets(InitialState)
        /\ \A r \in Parts : aCur[q] \in aSigned[r]
  BY DEF A!AInv, A!Justified, aCur, aSigned
<1>3. \A t \in ReachableStates : t.version \in Nat
  BY AbstractAssumption DEF A!StatesAssumption
<1>4. \A q \in Parts :
        /\ \A t \in aSigned'[q] :
             /\ t.version <= aCur'[q].version + 1
             /\ t.version = aCur'[q].version + 1 => ~aCur'[q].isFinal
             /\ assets(t) = assets(InitialState)
        /\ \A r \in Parts : aCur'[q] \in aSigned'[r]
  BY <1>1, <1>2, <1>3
<1>5. aSigned' \in [Parts -> SUBSET ReachableStates]
  BY <1>1
<1> QED BY <1>1, <1>4, <1>5 DEF A!AInv, A!TypeOK, A!Justified, aCur, aSigned

LEMMA AbstractEnable ==
    ASSUME A!AInv, NEW p \in Parts, NEW s \in ReachableStates, A!Enable(p, s)
    PROVE  A!AInv'
<1>1. /\ aCur \in [Parts -> ReachableStates] /\ aSigned \in [Parts -> SUBSET ReachableStates]
      /\ aCur' = [aCur EXCEPT ![p] = s] /\ aSigned' = aSigned
      /\ s.version = aCur[p].version + 1 /\ ~aCur[p].isFinal /\ assets(s) = assets(aCur[p])
      /\ \A q \in Parts : s \in aSigned[q]
  BY DEF A!AInv, A!TypeOK, A!Enable, A!Follows, aCur, aSigned
<1>2. \A q \in Parts :
        /\ \A t \in aSigned[q] :
             /\ t.version <= aCur[q].version + 1
             /\ t.version = aCur[q].version + 1 => ~aCur[q].isFinal
             /\ assets(t) = assets(InitialState)
        /\ \A r \in Parts : aCur[q] \in aSigned[r]
  BY DEF A!AInv, A!Justified, aCur, aSigned
<1>3. \A t \in ReachableStates : t.version \in Nat
  BY AbstractAssumption DEF A!StatesAssumption
<1>4. \A q \in Parts :
        /\ \A t \in aSigned'[q] :
             /\ t.version <= aCur'[q].version + 1
             /\ t.version = aCur'[q].version + 1 => ~aCur'[q].isFinal
             /\ assets(t) = assets(InitialState)
        /\ \A r \in Parts : aCur'[q] \in aSigned'[r]
  BY <1>1, <1>2, <1>3
<1>5. aCur' \in [Parts -> ReachableStates]
  BY <1>1
<1> QED BY <1>1, <1>4, <1>5 DEF A!AInv, A!TypeOK, A!Justified, aCur, aSigned

\* In AgreedStates the current states and the signatures are always justified by
\* each other: nobody has signed past one version after its own state or past a
\* final one, and the state of each is signed by all.
THEOREM AgreedInv == A!Spec => []A!AInv
<1>1. A!Init => A!AInv
  BY AbstractAssumption DEF A!StatesAssumption, A!Init, A!AInv, A!TypeOK, A!Justified
<1>2. A!AInv /\ [A!Next]_(A!vars) => A!AInv'
  <2>1. A!AInv /\ A!Next => A!AInv'
    BY AbstractSign, AbstractEnable DEF A!Next
  <2>2. A!AInv /\ UNCHANGED A!vars => A!AInv'
    BY DEF A!AInv, A!TypeOK, A!Justified, A!vars
  <2> QED BY <2>1, <2>2
<1>3. QED
  BY <1>1, <1>2, PTL DEF A!Spec

\* What AgreedStates promises: nobody is more than one version ahead, nothing
\* follows a final state, assets are kept, and states of one version that differ
\* are signed by all.
THEOREM AgreedSafety ==
    A!Spec => [](A!VersionGap /\ A!FinalIsLast /\ A!Conservation /\ A!ConflictSignedByAll)
<1>1. A!AInv => A!VersionGap /\ A!FinalIsLast /\ A!Conservation /\ A!ConflictSignedByAll
  BY AbstractAssumption
  DEF A!StatesAssumption, A!AInv, A!TypeOK, A!Justified, A!VersionGap, A!FinalIsLast,
      A!Conservation, A!ConflictSignedByAll
<1>2. QED
  BY <1>1, AgreedInv, PTL

\* A funded channel is an initial state of AgreedStates.
LEMMA InitRefines == Init => A!Init
  BY DEF Init, A!Init, current, signedBy, fundedMachine

\* Signing: the current states stay, p has signed one more successor of its.
LEMMA SignRefines ==
    ASSUME NEW p \in Parts, NEW s \in Proposals, NEW msg, NEW actor,
           msg.from = p, msg.type # "ChannelUpdateRej", msg.sig.state = s,
           msgs' = msgs \cup {msg},
           \A q \in Parts : current(q)' = current(q),
           validTransition(machine[p], s, actor)
    PROVE  A!Sign(p, s)
<1>1. A!Follows(s, aCur[p])
  BY DEF A!Follows, validTransition, machineValidTransition, aCur, current, assets
<1>2. aCur' = aCur
  BY DEF aCur
<1>3. signedBy(p)' = signedBy(p) \cup {s}
  BY DEF signedBy
<1>4. \A q \in Parts \ {p} : signedBy(q)' = signedBy(q)
  BY DEF signedBy
<1>5. aSigned' = [aSigned EXCEPT ![p] = @ \cup {s}]
  BY <1>3, <1>4 DEF aSigned
<1>6. QED
  BY <1>1, <1>2, <1>5 DEF A!Sign, aCur, aSigned

\* Enabling: everyone's signature on the new current state is on the wire.
LEMMA EnableRefines ==
    ASSUME NEW p \in Parts, NEW s \in Proposals, NEW actor,
           validTransition(machine[p], s, actor),
           \A q \in Parts : s \in signedBy(q),
           current(p)' = s,
           \A q \in Parts \ {p} : current(q)' = current(q),
           msgs' = msgs
    PROVE  A!Enable(p, s)
<1>1. A!Follows(s, aCur[p])
  BY DEF A!Follows, validTransition, machineValidTransition, aCur, current, assets
<1>2. aCur' = [aCur EXCEPT ![p] = s]
  BY DEF aCur
<1>3. aSigned' = aSigned
  BY DEF aSigned, signedBy
<1>4. QED
  BY <1>1, <1>2, <1>3 DEF A!Enable, aCur, aSigned

\* Discarding and rejecting are invisible.
LEMMA StutterRefines ==
    ASSUME \A q \in Parts : current(q)' = current(q),
           \A q \in Parts : signedBy(q)' = signedBy(q)
    PROVE  UNCHANGED A!vars
  BY DEF A!vars

\* Proposing an update is signing it.
LEMMA UpdateRefines ==
    ASSUME NEW p \in Parts, NEW s \in Proposals, Base, Update(p, s)
    PROVE  A!Sign(p, s)
<1>1. PICK m, msg : UpdateEffect(p, s, m, msg)
  BY UpdateFacts
<1>2. \A q \in Parts : current(q)' = current(q)
  BY <1>1 DEF UpdateEffect, current, Base, BaseType
<1>3. QED
  BY <1>1, <1>2, SignRefines DEF UpdateEffect

\* Accepting an update is signing it.
LEMMA HandleUpdateAccRefines ==
    ASSUME NEW p \in Parts, NEW msg \in msgs, Base, HandleUpdateAcc(p, msg)
    PROVE  msg.state \in Proposals /\ A!Sign(p, msg.state)
<1>1. PICK m, acc : AcceptEffect(p, msg, m, acc)
  BY HandleUpdateAccFacts
<1>2. \A q \in Parts : current(q)' = current(q)
  BY <1>1 DEF AcceptEffect, current, Base, BaseType
<1>3. QED
  BY <1>1, <1>2, SignRefines DEF AcceptEffect

\* Receiving the accept message is enabling the update.
LEMMA RecvAccRefines ==
    ASSUME NEW p \in Parts, NEW msg \in msgs, Base, RecvAcc(p, msg)
    PROVE  staged(p) \in Proposals /\ A!Enable(p, staged(p))
<1> DEFINE m == AddSig(machine[p], Other(p), msg.sig)
<1>1. /\ m \in MachineType /\ m.stagingTX.state = staged(p)
      /\ staged(p) \in signedBy(Other(p)) /\ StagedBy(p, p)
  BY RecvAccFacts
<1> HIDE DEF m
<1>2. machine' = [machine EXCEPT ![p] = Enable(m)] /\ msgs' = msgs
  BY DEF RecvAcc, m
<1>3. Enable(m).currentTX.state = staged(p)
  BY <1>1, EnableType
<1>4. /\ current(p)' = staged(p)
      /\ \A q \in Parts \ {p} : current(q)' = current(q)
  BY <1>2, <1>3 DEF current, Base, BaseType
<1>5. \A q \in Parts : staged(p) \in signedBy(q)
  BY <1>1, OtherFacts DEF StagedBy
<1>6. staged(p) \in Proposals /\ validTransition(machine[p], staged(p), p)
  BY <1>1 DEF StagedBy
<1>7. QED
  BY <1>2, <1>4, <1>5, <1>6, EnableRefines

\* Enabling an accepted update is enabling it.
LEMMA EnableNotifyRefines ==
    ASSUME NEW p \in Parts, Base, EnableNotifyUpdate(p)
    PROVE  staged(p) \in Proposals /\ A!Enable(p, staged(p))
<1>1. machine[p] \in MachineType /\ HeldAt(p) /\ lock[p] = "accepting"
  BY DEF Base, BaseType, EnableNotifyUpdate
<1>2. machine' = [machine EXCEPT ![p] = Enable(machine[p])] /\ msgs' = msgs
  BY DEF EnableNotifyUpdate
<1>3. Enable(machine[p]).currentTX.state = staged(p)
  BY <1>1, EnableType DEF staged
<1>4. /\ current(p)' = staged(p)
      /\ \A q \in Parts \ {p} : current(q)' = current(q)
  BY <1>2, <1>3 DEF current, Base, BaseType
<1>5. \A q \in Parts : staged(p) \in signedBy(q)
  BY <1>1, OtherFacts DEF HeldAt, StagedBy
<1>6. staged(p) \in Proposals /\ validTransition(machine[p], staged(p), Other(p))
  BY <1>1 DEF HeldAt, StagedBy
<1>7. QED
  BY <1>2, <1>4, <1>5, <1>6, EnableRefines

\* Discarding an update leaves AgreedStates alone.
LEMMA DiscardRefines ==
    ASSUME NEW p \in Parts, Base, discard(p)
    PROVE  UNCHANGED A!vars
<1>1. \A q \in Parts : current(q)' = current(q)
  BY DiscardType DEF discard, current, Base, BaseType
<1>2. \A q \in Parts : signedBy(q)' = signedBy(q)
  BY DEF discard, signedBy
<1>3. QED
  BY <1>1, <1>2, StutterRefines

\* Rejecting an update leaves AgreedStates alone.
LEMMA HandleUpdateRejRefines ==
    ASSUME NEW p \in Parts, NEW msg \in msgs, HandleUpdateRej(p, msg)
    PROVE  UNCHANGED A!vars
<1>1. \A q \in Parts : current(q)' = current(q)
  BY DEF HandleUpdateRej, current
<1>2. \A q \in Parts : signedBy(q)' = signedBy(q)
  BY DEF HandleUpdateRej, signedBy, msgChannelUpdateRej
<1>3. QED
  BY <1>1, <1>2, StutterRefines

\* A step of p is one of AgreedStates or leaves it alone.
LEMMA StepRefines ==
    ASSUME NEW p \in Parts, Base, Step(p)
    PROVE  [A!Next]_(A!vars)
<1>1. Proposals \subseteq ReachableStates
  BY DEF ReachableStates
<1>2. ASSUME NEW s \in Proposals, Update(p, s) PROVE A!Next
  BY <1>1, <1>2, UpdateRefines DEF A!Next
<1>3. ASSUME NEW msg \in msgs, RecvAcc(p, msg) PROVE A!Next
  BY <1>1, <1>3, RecvAccRefines DEF A!Next
<1>4. ASSUME NEW msg \in msgs, RecvBadAcc(p, msg) \/ RecvRej(p, msg)
      PROVE  UNCHANGED A!vars
  BY <1>4, DiscardRefines DEF RecvBadAcc, RecvRej
<1>5. ASSUME NEW msg \in msgs, HandleUpdateAcc(p, msg) PROVE A!Next
  BY <1>1, <1>5, HandleUpdateAccRefines DEF A!Next
<1>6. ASSUME NEW msg \in msgs, HandleUpdateRej(p, msg) PROVE UNCHANGED A!vars
  BY <1>6, HandleUpdateRejRefines
<1>7. ASSUME DiscardProposed(p) \/ DiscardAccepted(p) PROVE UNCHANGED A!vars
  BY <1>7, DiscardRefines DEF DiscardProposed, DiscardAccepted
<1>8. ASSUME EnableNotifyUpdate(p) PROVE A!Next
  BY <1>1, <1>8, EnableNotifyRefines DEF A!Next
<1>9. QED
  BY <1>2, <1>3, <1>4, <1>5, <1>6, <1>7, <1>8 DEF Step

\* Every step is one of AgreedStates or leaves it alone.
LEMMA NextRefines == Inv /\ [Next]_vars => [A!Next]_(A!vars)
<1> SUFFICES ASSUME Inv, [Next]_vars PROVE [A!Next]_(A!vars)
  OBVIOUS
<1>1. CASE UNCHANGED vars
  <2>1. \A q \in Parts : current(q)' = current(q) /\ signedBy(q)' = signedBy(q)
    BY <1>1 DEF vars, current, signedBy
  <2>2. QED
    BY <2>1, StutterRefines
<1>2. ASSUME NEW p \in Parts, Step(p) PROVE [A!Next]_(A!vars)
  BY <1>2, StepRefines DEF Inv
<1>3. QED
  BY <1>1, <1>2 DEF Next

\* Every behaviour of the update protocol, with all its timeouts and lost,
\* late and repeated messages, is one of the abstract protocol.
THEOREM Refinement == Spec => ImplementsAgreedStates
<1>1. Spec => A!Spec
  BY InitRefines, NextRefines, Invariance, PTL DEF Spec, A!Spec
<1>2. QED
  BY <1>1 DEF ImplementsAgreedStates

\* No version drift, nothing after a final state, no assets lost or made.
THEOREM UpdateSafety == Spec => [](VersionGap /\ FinalIsLast /\ Conservation)
  BY AgreedSafety, Refinement, PTL
  DEF ImplementsAgreedStates, VersionGap, FinalIsLast, Conservation

-----------------------------------------------------------------------------
(* Conflicting states *)

\* Of every state p sent its signature for it is known what became of it: p
\* discarded it, it is or was the current state, or p still has it staged.
Accounted(p) ==
    \A s \in signedBy(p) :
        \/ s \in discarded[p]
        \/ s = current(p)
        \/ s.version < current(p).version
        \/ lock[p] \in {"proposing", "accepting"} /\ s = staged(p)

\* What p waits for a response to is a proposal it sent.
Proposed(p) ==
    lock[p] = "proposing" => \E m \in proposalsOf(p) : m.state = staged(p)

Conflict == \A p \in Parts : Accounted(p) /\ Proposed(p)

\* The signatures that are sent are on states.
LEMMA SignedAreStates ==
    ASSUME Base, NEW p \in Parts
    PROVE  signedBy(p) \subseteq State /\ current(p) \in State
<1>1. \A m \in msgs : m.type # "ChannelUpdateRej" => m.sig.state \in State
  <2> SUFFICES ASSUME NEW m \in msgs, m.type # "ChannelUpdateRej"
               PROVE  m.sig.state \in State
    OBVIOUS
  <2>1. m \in Message /\ (m.type = "ChannelUpdate" \/ m.type = "ChannelUpdateAcc")
    BY DEF Base, BaseType, Message
  <2>2. CASE m.type = "ChannelUpdate"
    <3>1. m.sig = Sign(m.from, m.state) /\ m.state \in Proposals
      BY <2>2 DEF Base, GenuineMsgs
    <3>2. Sign(m.from, m.state).state = m.state
      BY DEF Sign
    <3>3. QED
      BY <3>1, <3>2, ProtocolAssumption
  <2>3. CASE m.type = "ChannelUpdateAcc"
    <3>1. m.sig.state \in Proposals
      BY <2>3 DEF Base, GenuineMsgs
    <3>2. QED
      BY <3>1, ProtocolAssumption
  <2>4. QED
    BY <2>1, <2>2, <2>3
<1>2. signedBy(p) \subseteq State
  BY <1>1, InitialStateType DEF signedBy
<1>3. current(p) \in State
  BY ProtocolAssumption, InitialStateType DEF Base, CurrentAt, ReachableStates
<1>4. QED
  BY <1>2, <1>3

\* In a funded channel only the initial state is signed.
LEMMA InitConflict == Init => Conflict
  BY DEF Init, Conflict, Accounted, Proposed, signedBy, current, fundedMachine

\* A step of p changes nothing for its peer.
LEMMA PeerKeeps ==
    ASSUME NEW p \in Parts, NEW q \in Parts, Conflict,
           machine'[q] = machine[q], lock'[q] = lock[q],
           discarded'[q] = discarded[q], signedBy(q)' = signedBy(q),
           msgs \subseteq msgs'
    PROVE  Accounted(q)' /\ Proposed(q)'
  BY DEF Conflict, Accounted, Proposed, current, staged, proposalsOf

\* Signing: what p had signed before was not staged, and s is staged now.
LEMMA SignKeeps ==
    ASSUME NEW p \in Parts, Base, Conflict, NEW s, NEW msg,
           lock[p] = "free", lock'[p] \in {"proposing", "accepting"},
           msgs' = msgs \cup {msg}, msg.from = p,
           msg.type # "ChannelUpdateRej", msg.sig.state = s,
           discarded' = discarded, current(p)' = current(p), staged(p)' = s
    PROVE  /\ Accounted(p)'
           /\ \A q \in Parts \ {p} : signedBy(q)' = signedBy(q)
<1>1. signedBy(p)' = signedBy(p) \cup {s}
  BY DEF signedBy
<1>2. \A q \in Parts \ {p} : signedBy(q)' = signedBy(q)
  BY DEF signedBy
<1>3. QED
  BY <1>1, <1>2 DEF Conflict, Accounted

\* Proposing keeps account of the signatures.
LEMMA UpdateConflict ==
    ASSUME NEW p \in Parts, NEW s \in Proposals, Base, Conflict, Update(p, s)
    PROVE  Conflict'
<1>1. PICK m, msg : UpdateEffect(p, s, m, msg)
  BY UpdateFacts
<1>2. lock[p] = "free"
  BY DEF Update
<1>3. machine'[p] = m /\ lock'[p] = "proposing"
  BY <1>1 DEF UpdateEffect, Base, BaseType
<1>4. \A q \in Parts \ {p} :
         /\ machine'[q] = machine[q] /\ lock'[q] = lock[q]
         /\ discarded'[q] = discarded[q]
  BY <1>1 DEF UpdateEffect, Base, BaseType
<1>5. current(p)' = current(p) /\ staged(p)' = s
  BY <1>1, <1>3 DEF UpdateEffect, current, staged
<1>6. msgs' = msgs \cup {msg} /\ msg.from = p /\ msg.type = "ChannelUpdate"
      /\ msg.sig.state = s /\ msg.state = s /\ discarded' = discarded
  BY <1>1 DEF UpdateEffect
<1>7. /\ Accounted(p)'
      /\ \A q \in Parts \ {p} : signedBy(q)' = signedBy(q)
  BY <1>2, <1>3, <1>5, <1>6, SignKeeps
<1>8. Proposed(p)'
  BY <1>5, <1>6 DEF Proposed, proposalsOf
<1>9. \A q \in Parts \ {p} : Accounted(q)' /\ Proposed(q)'
  BY <1>4, <1>6, <1>7, PeerKeeps
<1>10. QED
  BY <1>7, <1>8, <1>9 DEF Conflict

\* Accepting keeps account of the signatures.
LEMMA AcceptConflict ==
    ASSUME NEW p \in Parts, NEW msg \in msgs, Base, Conflict, HandleUpdateAcc(p, msg)
    PROVE  Conflict'
<1>1. PICK m, acc : AcceptEffect(p, msg, m, acc)
  BY HandleUpdateAccFacts
<1>2. lock[p] = "free"
  BY DEF HandleUpdateAcc, isValidRequest
<1>3. machine'[p] = m /\ lock'[p] = "accepting"
  BY <1>1 DEF AcceptEffect, Base, BaseType
<1>4. \A q \in Parts \ {p} :
         /\ machine'[q] = machine[q] /\ lock'[q] = lock[q]
         /\ discarded'[q] = discarded[q]
  BY <1>1 DEF AcceptEffect, Base, BaseType
<1>5. current(p)' = current(p) /\ staged(p)' = msg.state
  BY <1>1, <1>3 DEF AcceptEffect, current, staged
<1>6. msgs' = msgs \cup {acc} /\ acc.from = p /\ acc.type = "ChannelUpdateAcc"
      /\ acc.sig.state = msg.state /\ discarded' = discarded
  BY <1>1 DEF AcceptEffect
<1>7. /\ Accounted(p)'
      /\ \A q \in Parts \ {p} : signedBy(q)' = signedBy(q)
  BY <1>2, <1>3, <1>5, <1>6, SignKeeps
<1>8. Proposed(p)'
  BY <1>3 DEF Proposed
<1>9. \A q \in Parts \ {p} : Accounted(q)' /\ Proposed(q)'
  BY <1>4, <1>6, <1>7, PeerKeeps
<1>10. QED
  BY <1>7, <1>8, <1>9 DEF Conflict

\* Discarding moves the staged state to the discarded ones.
LEMMA DiscardConflict ==
    ASSUME NEW p \in Parts, Base, Conflict, discard(p)
    PROVE  Conflict'
<1>1. /\ lock'[p] = "free" /\ msgs' = msgs
      /\ discarded'[p] = discarded[p] \cup {staged(p)}
      /\ \A q \in Parts \ {p} :
            /\ machine'[q] = machine[q] /\ lock'[q] = lock[q]
            /\ discarded'[q] = discarded[q]
  BY DEF discard, Base, BaseType
<1>2. current(p)' = current(p)
  BY DiscardType DEF discard, current, Base, BaseType
<1>3. \A q \in Parts : signedBy(q)' = signedBy(q)
  BY <1>1 DEF signedBy
<1>4. Accounted(p)' /\ Proposed(p)'
  BY <1>1, <1>2, <1>3 DEF Conflict, Accounted, Proposed
<1>5. \A q \in Parts \ {p} : Accounted(q)' /\ Proposed(q)'
  BY <1>1, <1>3, PeerKeeps
<1>6. QED
  BY <1>4, <1>5 DEF Conflict

\* Enabling makes the staged state the current one, whose version is higher
\* than that of everything p had enabled before.
LEMMA EnableConflict ==
    ASSUME NEW p \in Parts, Base, Conflict, NEW actor, StagedBy(p, actor),
           current(p)' = staged(p), lock'[p] = "free",
           \A q \in Parts \ {p} : machine'[q] = machine[q] /\ lock'[q] = lock[q],
           UNCHANGED <<msgs, discarded>>
    PROVE  Conflict'
<1>1. \A q \in Parts : signedBy(q)' = signedBy(q)
  BY DEF signedBy
<1>2. staged(p).version = current(p).version + 1
  BY DEF StagedBy, validTransition, machineValidTransition, current
<1>3. signedBy(p) \subseteq State /\ current(p) \in State
  BY SignedAreStates
<1>4. Accounted(p)'
  BY <1>1, <1>2, <1>3 DEF Conflict, Accounted, State
<1>5. Proposed(p)'
  BY DEF Proposed
<1>6. \A q \in Parts \ {p} : Accounted(q)' /\ Proposed(q)'
  BY <1>1, PeerKeeps
<1>7. QED
  BY <1>4, <1>5, <1>6 DEF Conflict

\* Receiving the accept message: p enables what it has staged.
LEMMA RecvAccEnables ==
    ASSUME NEW p \in Parts, NEW msg \in msgs, Base, RecvAcc(p, msg)
    PROVE  /\ StagedBy(p, p) /\ current(p)' = staged(p) /\ lock'[p] = "free"
           /\ \A q \in Parts \ {p} : machine'[q] = machine[q] /\ lock'[q] = lock[q]
<1> DEFINE m == AddSig(machine[p], Other(p), msg.sig)
<1>1. m \in MachineType /\ m.stagingTX.state = staged(p) /\ StagedBy(p, p)
  BY RecvAccFacts
<1> HIDE DEF m
<1>2. machine' = [machine EXCEPT ![p] = Enable(m)]
      /\ lock' = [lock EXCEPT ![p] = "free"]
  BY DEF RecvAcc, m
<1>3. Enable(m).currentTX.state = staged(p)
  BY <1>1, EnableType
<1>4. QED
  BY <1>1, <1>2, <1>3 DEF current, Base, BaseType

\* The responder enables what it has staged.
LEMMA NotifyEnables ==
    ASSUME NEW p \in Parts, Base, EnableNotifyUpdate(p)
    PROVE  /\ StagedBy(p, Other(p)) /\ current(p)' = staged(p) /\ lock'[p] = "free"
           /\ \A q \in Parts \ {p} : machine'[q] = machine[q] /\ lock'[q] = lock[q]
<1>1. machine[p] \in MachineType /\ HeldAt(p) /\ lock[p] = "accepting"
  BY DEF Base, BaseType, EnableNotifyUpdate
<1>2. machine' = [machine EXCEPT ![p] = Enable(machine[p])]
      /\ lock' = [lock EXCEPT ![p] = "free"]
  BY DEF EnableNotifyUpdate
<1>3. Enable(machine[p]).currentTX.state = staged(p)
  BY <1>1, EnableType DEF staged
<1>4. QED
  BY <1>1, <1>2, <1>3 DEF HeldAt, current, Base, BaseType

\* A step of p keeps account of the signatures.
LEMMA StepConflict ==
    ASSUME NEW p \in Parts, Base, Conflict, Step(p)
    PROVE  Conflict'
<1>1. ASSUME NEW s \in Proposals, Update(p, s) PROVE Conflict'
  BY <1>1, UpdateConflict
<1>2. ASSUME NEW msg \in msgs, RecvAcc(p, msg) PROVE Conflict'
  <2>1. UNCHANGED <<msgs, discarded>>
    BY <1>2 DEF RecvAcc
  <2>2. QED
    BY <1>2, <2>1, RecvAccEnables, EnableConflict
<1>3. ASSUME NEW msg \in msgs, RecvBadAcc(p, msg) \/ RecvRej(p, msg)
      PROVE  Conflict'
  BY <1>3, DiscardConflict DEF RecvBadAcc, RecvRej
<1>4. ASSUME NEW msg \in msgs, HandleUpdateAcc(p, msg) PROVE Conflict'
  BY <1>4, AcceptConflict
<1>5. ASSUME NEW msg \in msgs, HandleUpdateRej(p, msg) PROVE Conflict'
  <2>1. \A q \in Parts : signedBy(q)' = signedBy(q)
    BY <1>5 DEF HandleUpdateRej, signedBy, msgChannelUpdateRej
  <2>2. UNCHANGED <<machine, lock, discarded>> /\ msgs \subseteq msgs'
    BY <1>5 DEF HandleUpdateRej
  <2>3. QED
    BY <2>1, <2>2, PeerKeeps DEF Conflict
<1>6. CASE DiscardProposed(p) \/ DiscardAccepted(p)
  BY <1>6, DiscardConflict DEF DiscardProposed, DiscardAccepted
<1>7. CASE EnableNotifyUpdate(p)
  <2>1. UNCHANGED <<msgs, discarded>>
    BY <1>7 DEF EnableNotifyUpdate
  <2>2. QED
    BY <1>7, <2>1, NotifyEnables, EnableConflict
<1>8. QED
  BY <1>1, <1>2, <1>3, <1>4, <1>5, <1>6, <1>7 DEF Step

\* Every step keeps account of the signatures.
LEMMA NextConflict == Inv /\ Conflict /\ [Next]_vars => Conflict'
<1> SUFFICES ASSUME Inv, Conflict, [Next]_vars PROVE Conflict'
  OBVIOUS
<1>1. CASE UNCHANGED vars
  BY <1>1 DEF vars, Conflict, Accounted, Proposed, signedBy, current, staged,
              proposalsOf
<1>2. ASSUME NEW p \in Parts, Step(p) PROVE Conflict'
  BY <1>2, StepConflict DEF Inv
<1>3. QED
  BY <1>1, <1>2 DEF Next

\* It is always known what became of the signatures that were sent.
THEOREM ConflictInvariance == Spec => [](Inv /\ Conflict)
  BY InitInv, InitConflict, NextInv, NextConflict, PTL DEF Spec

\* Two participants hold different states of one version only if each of them
\* discarded the other's state after it had sent its signature on it.
THEOREM DivergenceAlways == Spec => []DivergenceOnlyAfterDiscard
<1>1. A!Spec => []A!AInv
  BY AgreedInv
<1>2. Base /\ Conflict /\ A!AInv => DivergenceOnlyAfterDiscard
  <2> SUFFICES ASSUME Base, Conflict, A!AInv, NEW p \in Parts, NEW q \in Parts,
                      current(p).version = current(q).version,
                      current(p) # current(q)
               PROVE  current(q) \in discarded[p]
    BY DEF DivergenceOnlyAfterDiscard
  <2>1. current(q) \in signedBy(p)
    BY DEF A!AInv, A!Justified
  <2>2. current(p).version \in Nat
    BY SignedAreStates DEF State
  <2>3. lock[p] \in {"proposing", "accepting"} =>
           staged(p).version = current(p).version + 1
    BY DEF Base, HeldAt, StagedBy, validTransition,
           machineValidTransition, current
  <2>4. QED
    BY <2>1, <2>2, <2>3 DEF Conflict, Accounted
<1>3. Inv => Base
  BY DEF Inv
<1>4. QED
  BY <1>1, <1>2, <1>3, Refinement, ConflictInvariance, PTL
  DEF ImplementsAgreedStates

\* The balance of a participant falls only by an update it proposed itself.
THEOREM NoTheftAlways == Spec => NoTheft
<1> DEFINE Lost(p) == current(p)'.bals[p] < current(p).bals[p]
           Asked(p) == \E m \in proposalsOf(p) : m.state = current(p)'
<1>1. Inv /\ Conflict /\ [Next]_vars => [\A p \in Parts : Lost(p) => Asked(p)]_vars
  <2> SUFFICES ASSUME Base, Conflict, Next, NEW p \in Parts, Lost(p)
               PROVE  Asked(p)
    BY DEF Inv
  <2>1. PICK r \in Parts : Step(r)
    BY DEF Next
  <2>2. ASSUME current(p)' = current(p) PROVE FALSE
    <3>1. current(p).bals[p] \in Int
      BY SignedAreStates DEF State, Allocation
    <3>2. QED
      BY <2>2, <3>1
  <2>3. machine'[p] # machine[p] => r = p
    BY <2>1 DEF Step, Update, RecvAcc, RecvBadAcc, RecvRej, HandleUpdateAcc,
                HandleUpdateRej, DiscardProposed, EnableNotifyUpdate,
                DiscardAccepted, discard, Base, BaseType
  <2>4. r = p
    BY <2>2, <2>3 DEF current
  <2>5. ASSUME NEW s \in Proposals, Update(p, s) PROVE FALSE
    <3>1. PICK m, msg : UpdateEffect(p, s, m, msg)
      BY <2>5, UpdateFacts
    <3>2. machine'[p] = m
      BY <3>1 DEF UpdateEffect, Base, BaseType
    <3>3. QED
      BY <2>2, <3>1, <3>2 DEF UpdateEffect, current
  <2>6. ASSUME NEW msg \in msgs, HandleUpdateAcc(p, msg) PROVE FALSE
    <3>1. PICK m, acc : AcceptEffect(p, msg, m, acc)
      BY <2>6, HandleUpdateAccFacts
    <3>2. machine'[p] = m
      BY <3>1 DEF AcceptEffect, Base, BaseType
    <3>3. QED
      BY <2>2, <3>1, <3>2 DEF AcceptEffect, current
  <2>7. ASSUME NEW msg \in msgs, HandleUpdateRej(p, msg) PROVE FALSE
    BY <2>2, <2>7 DEF HandleUpdateRej, current
  <2>8. ASSUME discard(p) PROVE FALSE
    BY <2>2, <2>8, DiscardType DEF discard, current, Base, BaseType
  <2>9. ASSUME NEW msg \in msgs, RecvAcc(p, msg) PROVE Asked(p)
    <3>1. current(p)' = staged(p) /\ lock[p] = "proposing"
      BY <2>9, RecvAccEnables DEF RecvAcc
    <3>2. QED
      BY <3>1 DEF Conflict, Proposed
  <2>10. ASSUME EnableNotifyUpdate(p) PROVE FALSE
    <3>1. StagedBy(p, Other(p)) /\ current(p)' = staged(p)
      BY <2>10, NotifyEnables
    <3>2. staged(p).bals[p] >= current(p).bals[p]
      BY <3>1, OtherFacts DEF StagedBy, validTransition,
         AppValidTransition, current
    <3>3. staged(p).bals[p] \in Int /\ current(p).bals[p] \in Int
      BY <3>1, SignedAreStates, ProtocolAssumption
      DEF StagedBy, State, Allocation
    <3>4. QED
      BY <3>1, <3>2, <3>3
  <2>11. QED
    BY <2>1, <2>4, <2>5, <2>6, <2>7, <2>8, <2>9, <2>10
    DEF Step, RecvBadAcc, RecvRej, DiscardProposed, DiscardAccepted
<1>2. QED
  BY <1>1, ConflictInvariance, PTL DEF Spec, NoTheft

-----------------------------------------------------------------------------
(* The invariant *)

WatcherState == {"next", "setPhase", "register", "registering", "returned", "panicked"}

DisputeType ==
    /\ chain \in [phase : {"none", "dispute", "concluded"}, state : State \cup {Nil},
                  open : BOOLEAN]
    /\ next \in [Parts -> AdjudicatorEvent \cup {Nil}]
    /\ event \in [Parts -> AdjudicatorEvent \cup {Nil}]
    /\ watcher \in [Parts -> WatcherState]
    /\ paid \in [Parts -> Int \cup {Nil}]

\* The channel was closed at once with a final state.
ClosedFinal == chain.phase = "concluded" /\ chain.state.isFinal

\* What is on the chain was signed by all, and a final state that closed the
\* channel is the current one of somebody.
ChainOK ==
    /\ chain.phase # "none" =>
          chain.state \in State /\ \A p \in Parts : chain.state \in signedBy(p)
    /\ chain.open => chain.phase = "dispute"
    /\ ClosedFinal => \E p \in Parts : current(p) = chain.state

\* An event that p has not finished with was on the chain, so that p signed
\* its state, and is not newer than what is there now.
PastEvent(p, e) ==
    /\ chain.phase # "none"
    /\ e.state \in signedBy(p)
    /\ ~ClosedFinal => e.state.version <= chain.state.version
    /\ e.type = "Concluded" => chain.phase = "concluded"

EventOK(p) ==
    /\ next[p] # Nil => PastEvent(p, next[p])
    /\ event[p] # Nil => PastEvent(p, event[p])
    /\ watcher[p] \in {"setPhase", "panicked"} => event[p] # Nil

\* No update of p is enabled any more.
Frozen(p) == machine[p].phase \in {"Registering", "Registered", "Withdrawing", "Withdrawn"}

CaughtUp(p) == chain.state.version >= current(p).version

Safe(p) == CaughtUp(p) /\ (Frozen(p) \/ ~alive(p))

\* In a dispute a watcher is safe or will still act before time is over.
WatchOK(p) ==
    chain.phase # "none" /\ ~ClosedFinal /\ watcher[p] # "returned" =>
        \/ Safe(p)
        \/ chain.open /\ \/ next[p] # Nil
                         \/ watcher[p] = "setPhase"
                         \/ watcher[p] \in {"register", "registering"} /\ Frozen(p)

PanicOK(p) ==
    /\ watcher[p] = "panicked" => event[p].state \in discarded[p]
    /\ watcher[p] = "panicked" /\ ~ClosedFinal => CaughtUp(p)
    /\ lock[p] = "refuting" => watcher[p] = "registering"

PaidOK(p) ==
    paid[p] # Nil \/ machine[p].phase = "Withdrawn" =>
        /\ chain.phase = "concluded"
        /\ watcher[p] # "returned" => \/ paid[p] = chain.state.bals[p]
                                      \/ chain.state \in discarded[p]

DisputeInv ==
    /\ DisputeType /\ ChainOK
    /\ \A p \in Parts : EventOK(p) /\ WatchOK(p) /\ PanicOK(p) /\ PaidOK(p)

\* What the update protocol keeps up during a dispute.
Agreed == Base /\ Conflict /\ A!AInv /\ A!FinalIsLast

-----------------------------------------------------------------------------
(* A dispute does not disturb the agreement of the update protocol. *)

Updates == {"proposing", "accepting"}

\* What the actions of a dispute do to p's machine: no update is going on
\* before or after, and the current transaction stays.
Quiet(p) ==
    /\ msgs' = msgs /\ discarded' = discarded
    /\ \A q \in Parts \ {p} : machine'[q] = machine[q] /\ lock'[q] = lock[q]
    /\ machine' \in [Parts -> MachineType] /\ lock' \in [Parts -> Holder]
    /\ machine'[p].currentTX = machine[p].currentTX
    /\ \/ machine'[p] = machine[p] /\ lock'[p] = lock[p]
       \/ lock[p] \notin Updates /\ lock'[p] \notin Updates

\* Such an action keeps what is signed, current and accounted for.
LEMMA QuietKeeps ==
    ASSUME NEW p \in Parts, Base, Conflict, Quiet(p)
    PROVE  /\ Base' /\ Conflict' /\ UNCHANGED A!vars
           /\ \A q \in Parts : current(q)' = current(q) /\ signedBy(q)' = signedBy(q)
<1>1. \A q \in Parts : signedBy(q)' = signedBy(q)
  BY DEF Quiet, signedBy
<1>2. \A q \in Parts : machine'[q].currentTX = machine[q].currentTX
  BY DEF Quiet
<1>3. \A q \in Parts : current(q)' = current(q)
  BY <1>2 DEF current
<1>4. UNCHANGED A!vars
  BY <1>1, <1>3, StutterRefines
<1>5. BaseType' /\ GenuineMsgs'
  BY DEF Quiet, Base, BaseType, GenuineMsgs
<1>6. ASSUME NEW q \in Parts
      PROVE  \/ machine'[q] = machine[q] /\ lock'[q] = lock[q]
             \/ lock[q] \notin Updates /\ lock'[q] \notin Updates
  BY DEF Quiet
<1>7. \A q \in Parts : HeldAt(q)' /\ CurrentAt(q)'
  <2> SUFFICES ASSUME NEW q \in Parts PROVE HeldAt(q)' /\ CurrentAt(q)'
    OBVIOUS
  <2>1. HeldAt(q) /\ CurrentAt(q)
    BY DEF Base
  <2>2. CurrentAt(q)'
    BY <1>2, <1>3, <2>1 DEF CurrentAt
  <2>3. HeldAt(q)'
    BY <1>1, <1>6, <2>1, OtherFacts DEF HeldAt, StagedBy, staged, Updates
  <2>4. QED
    BY <2>2, <2>3
<1>8. \A q \in Parts : Accounted(q)' /\ Proposed(q)'
  <2> SUFFICES ASSUME NEW q \in Parts PROVE Accounted(q)' /\ Proposed(q)'
    OBVIOUS
  <2>1. Accounted(q) /\ Proposed(q)
    BY DEF Conflict
  <2>2. discarded'[q] = discarded[q] /\ msgs' = msgs
    BY DEF Quiet
  <2>3. Accounted(q)'
    BY <1>1, <1>3, <1>6, <2>1, <2>2 DEF Accounted, staged, Updates
  <2>4. Proposed(q)'
    BY <1>6, <2>1, <2>2 DEF Proposed, staged, proposalsOf, Updates
  <2>5. QED
    BY <2>3, <2>4
<1>9. QED
  BY <1>1, <1>3, <1>4, <1>5, <1>7, <1>8 DEF Base, Conflict

\* Changing the phase changes nothing else (machine.setPhase).
LEMMA PhaseChange ==
    ASSUME NEW m \in MachineType
    PROVE  \A ph \in Phase : /\ setPhase(m, ph) \in MachineType
                             /\ setPhase(m, ph).phase = ph
                             /\ setPhase(m, ph).currentTX = m.currentTX
  BY DEF setPhase, MachineType

\* The actions that change the phase or the lock of p are quiet.
LEMMA QuietChange ==
    ASSUME NEW p \in Parts, Base, NEW ph \in Phase, NEW h \in Holder \ Updates,
           lock[p] \notin Updates,
           machine' = machine \/ machine' = [machine EXCEPT ![p] = setPhase(@, ph)],
           lock' = lock \/ lock' = [lock EXCEPT ![p] = h],
           msgs' = msgs, discarded' = discarded
    PROVE  /\ Quiet(p)
           /\ machine' = [machine EXCEPT ![p] = setPhase(@, ph)] =>
                machine'[p].phase = ph
           /\ lock' = [lock EXCEPT ![p] = h] => lock'[p] = h
<1>1. machine \in [Parts -> MachineType] /\ lock \in [Parts -> Holder]
  BY DEF Base, BaseType
<1>2. /\ setPhase(machine[p], ph) \in MachineType
      /\ setPhase(machine[p], ph).phase = ph
      /\ setPhase(machine[p], ph).currentTX = machine[p].currentTX
  BY <1>1, PhaseChange
<1>3. /\ machine' \in [Parts -> MachineType]
      /\ machine'[p].currentTX = machine[p].currentTX
      /\ \A q \in Parts \ {p} : machine'[q] = machine[q]
      /\ machine' = [machine EXCEPT ![p] = setPhase(@, ph)] => machine'[p].phase = ph
  BY <1>1, <1>2
<1>4. /\ lock' \in [Parts -> Holder] /\ lock'[p] \notin Updates
      /\ \A q \in Parts \ {p} : lock'[q] = lock[q]
      /\ lock' = [lock EXCEPT ![p] = h] => lock'[p] = h
  BY <1>1
<1>5. QED
  BY <1>3, <1>4 DEF Quiet

\* Leaving the update protocol alone is quiet.
LEMMA QuietUnchanged ==
    ASSUME NEW p \in Parts, Base, UNCHANGED vars
    PROVE  Quiet(p)
  BY DEF Base, BaseType, vars, Quiet

\* All actions of a dispute are quiet.
LEMMA DisputeQuiet ==
    ASSUME NEW p \in Parts, Base, DisputeStep(p)
    PROVE  Quiet(p)
<1>1. \A h \in {"free", "registering", "refuting", "withdrawing"} :
         h \in Holder \ Updates
  BY DEF Holder, LockHolder, Updates
<1>2. \A ph \in {"Registering", "Registered", "Withdrawing", "Withdrawn"} : ph \in Phase
  BY DEF Phase
<1>3. CASE SubscriptionEnds(p) \/ WatchNext(p) \/ HandleConcluded(p) \/ Conclude(p)
  BY <1>3, QuietUnchanged DEF SubscriptionEnds, WatchNext, HandleConcluded, Conclude
<1>4. CASE HandleRegistered(p)
  BY <1>1, <1>2, <1>4, QuietChange DEF HandleRegistered, SetRegistered, Updates
<1>5. ASSUME NEW byWatcher \in BOOLEAN, RegisterLock(p, byWatcher) PROVE Quiet(p)
  <2>1. (IF byWatcher THEN "refuting" ELSE "registering") \in Holder \ Updates
    BY <1>1
  <2>2. QED
    BY <1>2, <1>5, <2>1, QuietChange DEF RegisterLock, SetRegistering, Updates
<1>6. CASE RegisterTx(p)
  BY <1>1, <1>2, <1>6, QuietChange
  DEF RegisterTx, registers, endRegister, SetRegistered, Updates
<1>7. CASE RegisterFails(p)
  BY <1>1, <1>2, <1>7, QuietChange DEF RegisterFails, registers, endRegister, Updates
<1>8. CASE SettleLock(p)
  BY <1>1, <1>2, <1>8, QuietChange DEF SettleLock, SetWithdrawing, Updates
<1>9. CASE Withdraw(p)
  BY <1>1, <1>2, <1>9, QuietChange DEF Withdraw, SetWithdrawn, Updates
<1>10. CASE SettleFails(p)
  BY <1>1, <1>2, <1>10, QuietChange DEF SettleFails, Updates
<1>11. QED
  BY <1>3, <1>4, <1>5, <1>6, <1>7, <1>8, <1>9, <1>10 DEF DisputeStep

\* Every step keeps the agreement, and is a step of AgreedStates or none.
LEMMA DisputeKeepsBase ==
    Base /\ Conflict /\ [DisputeNext]_allVars =>
        Base' /\ Conflict' /\ [A!Next]_(A!vars)
<1> SUFFICES ASSUME Base, Conflict, [DisputeNext]_allVars
             PROVE  Base' /\ Conflict' /\ [A!Next]_(A!vars)
  OBVIOUS
<1>1. CASE UNCHANGED vars
  <2>1. PICK p \in Parts : TRUE
    BY ProtocolAssumption
  <2>2. QED
    BY <1>1, <2>1, QuietUnchanged, QuietKeeps
<1>2. ASSUME NEW p \in Parts, UpdateStep(p)
      PROVE  Base' /\ Conflict' /\ [A!Next]_(A!vars)
  BY <1>2, StepBase, StepConflict, StepRefines DEF UpdateStep
<1>3. ASSUME NEW p \in Parts, DisputeStep(p)
      PROVE  Base' /\ Conflict' /\ [A!Next]_(A!vars)
  BY <1>3, DisputeQuiet, QuietKeeps
<1>4. QED
  BY <1>1, <1>2, <1>3 DEF DisputeNext, Elapse, allVars

\* Registering, refuting and settling leave the parties agreed as the update
\* protocol alone does (UpdateSafety): disputes and updates may interleave.
THEOREM AgreedInDispute == DisputeSpec => ImplementsAgreedStates /\ []Agreed
<1>1. DisputeInit => Base /\ Conflict /\ A!Init
  BY InitInv, InitConflict, InitRefines DEF DisputeInit, Inv
<1>2. DisputeSpec => [](Base /\ Conflict)
  BY <1>1, DisputeKeepsBase, PTL DEF DisputeSpec
<1>3. DisputeSpec => A!Spec
  BY <1>1, <1>2, DisputeKeepsBase, PTL DEF DisputeSpec, A!Spec
<1>4. A!Spec => []A!AInv
  BY AgreedInv
<1>5. A!Spec =>
        [](A!VersionGap /\ A!FinalIsLast /\ A!Conservation /\ A!ConflictSignedByAll)
  BY AgreedSafety
<1>6. QED
  BY <1>2, <1>3, <1>4, <1>5, PTL DEF Agreed, ImplementsAgreedStates

-----------------------------------------------------------------------------
(* The invariant of the dispute *)

PartyOK(p) == EventOK(p) /\ WatchOK(p) /\ PanicOK(p) /\ PaidOK(p)

\* What the agreement says of current and signed states.
LEMMA AgreedFacts ==
    ASSUME Agreed, NEW p \in Parts
    PROVE  /\ current(p) \in State /\ signedBy(p) \subseteq State
           /\ \A q \in Parts : current(p) \in signedBy(q)
           /\ \A q \in Parts :
                 current(p).isFinal => current(q).version <= current(p).version
           /\ lock[p] \notin Updates =>
                 \A s \in signedBy(p) : \/ s \in discarded[p] \/ s = current(p)
                                        \/ s.version < current(p).version
           /\ machine[p] \in MachineType /\ lock[p] \in Holder
<1>1. current(p) \in State /\ signedBy(p) \subseteq State
  BY SignedAreStates DEF Agreed
<1>2. \A q \in Parts : current(p) \in signedBy(q)
  BY DEF Agreed, A!AInv, A!Justified
<1>3. \A q \in Parts :
         current(p).isFinal => current(q).version <= current(p).version
  BY DEF Agreed, A!FinalIsLast
<1>4. lock[p] \notin Updates =>
        \A s \in signedBy(p) : \/ s \in discarded[p] \/ s = current(p)
                               \/ s.version < current(p).version
  BY DEF Agreed, Conflict, Accounted, Updates
<1>5. machine[p] \in MachineType /\ lock[p] \in Holder
  BY DEF Agreed, Base, BaseType
<1>6. QED
  BY <1>1, <1>2, <1>3, <1>4, <1>5

\* Nobody whose watcher works is behind a chain that is not open any more.
LEMMA ClosedCaughtUp ==
    ASSUME Agreed, DisputeInv, NEW p \in Parts, chain.phase # "none",
           ~chain.open, watcher[p] # "returned"
    PROVE  CaughtUp(p)
<1>1. CASE ClosedFinal
  <2>1. PICK r \in Parts : current(r) = chain.state
    BY <1>1 DEF DisputeInv, ChainOK
  <2>2. current(p).version <= chain.state.version
    BY <1>1, <2>1, AgreedFacts DEF ClosedFinal
  <2>3. QED
    BY <2>1, <2>2, AgreedFacts DEF CaughtUp, State
<1>2. CASE ~ClosedFinal
  BY <1>2 DEF DisputeInv, WatchOK, Safe
<1>3. QED
  BY <1>1, <1>2

\* The invariant implies what the run checks.
LEMMA DisputeInvImplies ==
    Agreed /\ DisputeInv => OutcomeNotStale /\ PanicOnlyAfterDiscard /\ PayoutIsOutcome
<1> SUFFICES ASSUME Agreed, DisputeInv
             PROVE  OutcomeNotStale /\ PanicOnlyAfterDiscard /\ PayoutIsOutcome
  OBVIOUS
<1>1. OutcomeNotStale
  BY ClosedCaughtUp DEF OutcomeNotStale, CaughtUp
<1>2. PanicOnlyAfterDiscard /\ PayoutIsOutcome
  BY DEF DisputeInv, PanicOK, PaidOK, PanicOnlyAfterDiscard, PayoutIsOutcome
<1>3. QED
  BY <1>1, <1>2

\* Without a dispute there is nothing to watch.
LEMMA DisputeInitInv == DisputeInit => DisputeInv
<1> SUFFICES ASSUME DisputeInit PROVE DisputeInv
  OBVIOUS
<1>1. DisputeType /\ ChainOK
  BY DEF DisputeInit, DisputeType, WatcherState, ChainOK, ClosedFinal
<1>2. ASSUME NEW p \in Parts PROVE PartyOK(p)
  <2>1. machine[p].phase = "Acting" /\ lock[p] = "free"
    BY DEF DisputeInit, Init, fundedMachine
  <2>2. QED
    BY <2>1 DEF DisputeInit, PartyOK, EventOK, WatchOK, PanicOK, PaidOK
<1>3. QED
  BY <1>1, <1>2 DEF DisputeInv, PartyOK

\* What happens elsewhere leaves q alone as long as the chain stays.
LEMMA Bystander ==
    ASSUME NEW q \in Parts, PartyOK(q), chain' = chain, next'[q] = next[q],
           event'[q] = event[q], watcher'[q] = watcher[q], paid'[q] = paid[q],
           machine'[q] = machine[q], lock'[q] = lock[q],
           discarded[q] \subseteq discarded'[q], signedBy(q) \subseteq signedBy(q)'
    PROVE  PartyOK(q)'
<1>1. EventOK(q)'
  BY DEF PartyOK, EventOK, PastEvent, ClosedFinal
<1>2. WatchOK(q)'
  BY DEF PartyOK, WatchOK, Safe, CaughtUp, Frozen, ClosedFinal, current, alive
<1>3. PanicOK(q)'
  BY DEF PartyOK, PanicOK, CaughtUp, ClosedFinal, current
<1>4. PaidOK(q)'
  BY DEF PartyOK, PaidOK
<1>5. QED
  BY <1>1, <1>2, <1>3, <1>4 DEF PartyOK

\* Updating the channel.
LEMMA UpdateStepInv ==
    ASSUME Agreed, DisputeInv, NEW p \in Parts, UpdateStep(p)
    PROVE  DisputeInv'
<1>1. StepEffect(p) /\ [A!Next]_(A!vars) /\ alive(p)
  BY StepFrame, StepRefines DEF UpdateStep, Agreed
<1>2. /\ chain' = chain /\ next' = next /\ watcher' = watcher /\ event' = event
      /\ paid' = paid
  BY DEF UpdateStep, disputeVars
<1>3. \A q \in Parts : signedBy(q) \subseteq signedBy(q)'
  BY <1>1 DEF StepEffect, signedBy
<1>4. \A q \in Parts : current(q).isFinal => current(q)' = current(q)
  BY <1>1 DEF A!Next, A!vars, A!Sign, A!Enable, A!Follows
<1>5. DisputeType' /\ ChainOK'
  <2>1. ClosedFinal => \E q \in Parts : current(q)' = chain.state
    BY <1>4 DEF DisputeInv, ChainOK, ClosedFinal
  <2>2. QED
    BY <1>2, <1>3, <2>1 DEF DisputeInv, DisputeType, ChainOK, ClosedFinal
<1>6. ASSUME NEW q \in Parts, q # p PROVE PartyOK(q)'
  BY <1>1, <1>2, <1>3, <1>6, Bystander DEF StepEffect, DisputeInv, PartyOK
<1>7. PartyOK(p)'
  <2>1. discarded[p] \subseteq discarded'[p] /\ watcher[p] # "panicked"
    BY <1>1 DEF StepEffect, alive
  <2>2. CASE machine'[p] = machine[p] /\ lock'[p] = lock[p]
    BY <1>2, <1>3, <2>1, <2>2, Bystander DEF DisputeInv, PartyOK
  <2>3. CASE ~(machine'[p] = machine[p] /\ lock'[p] = lock[p])
    <3>1. ~Frozen(p) /\ machine'[p].phase # "Withdrawn" /\ lock'[p] # "refuting"
      BY <1>1, <2>3 DEF StepEffect, Frozen, LockHolder
    <3>2. EventOK(p)'
      BY <1>2, <1>3 DEF DisputeInv, EventOK, PastEvent, ClosedFinal
    <3>3. WatchOK(p)'
      BY <1>2, <2>1, <3>1 DEF DisputeInv, WatchOK, Safe, alive, ClosedFinal
    <3>4. PanicOK(p)'
      BY <1>2, <2>1, <3>1 DEF PanicOK
    <3>5. PaidOK(p)'
      BY <1>2, <2>1, <3>1 DEF DisputeInv, PaidOK
    <3>6. QED
      BY <3>2, <3>3, <3>4, <3>5 DEF PartyOK
  <2>4. QED
    BY <2>2, <2>3
<1>8. QED
  BY <1>5, <1>6, <1>7 DEF DisputeInv, PartyOK

\* A quiet action of p that leaves the chain alone need only be right for p.
LEMMA LocalInv ==
    ASSUME Agreed, DisputeInv, NEW p \in Parts, Quiet(p), chain' = chain,
           DisputeType',
           \A q \in Parts \ {p} :
              /\ next'[q] = next[q] /\ event'[q] = event[q]
              /\ watcher'[q] = watcher[q] /\ paid'[q] = paid[q],
           PartyOK(p)'
    PROVE  DisputeInv'
<1>1. \A q \in Parts : current(q)' = current(q) /\ signedBy(q)' = signedBy(q)
  BY QuietKeeps DEF Agreed
<1>2. ChainOK'
  BY <1>1 DEF DisputeInv, ChainOK, ClosedFinal
<1>3. ASSUME NEW q \in Parts, q # p PROVE PartyOK(q)'
  BY <1>1, <1>3, Bystander DEF Quiet, DisputeInv, PartyOK
<1>4. QED
  BY <1>2, <1>3 DEF DisputeInv, PartyOK

\* The subscription ends: p does not watch any more.
LEMMA SubscriptionEndsInv ==
    ASSUME Agreed, DisputeInv, NEW p \in Parts, SubscriptionEnds(p)
    PROVE  DisputeInv'
<1>1. Quiet(p) /\ DisputeType /\ PartyOK(p)
  BY QuietUnchanged DEF SubscriptionEnds, Agreed, DisputeInv, PartyOK
<1>2. /\ chain' = chain /\ event' = event /\ paid' = paid
      /\ machine' = machine /\ lock' = lock /\ msgs' = msgs /\ discarded' = discarded
      /\ next' = [next EXCEPT ![p] = Nil] /\ watcher[p] = "next"
      /\ watcher' = [watcher EXCEPT ![p] = "returned"]
  BY DEF SubscriptionEnds, vars
<1>3. DisputeType' /\ next'[p] = Nil /\ watcher'[p] = "returned"
  BY <1>1, <1>2 DEF DisputeType, WatcherState
<1>4. PartyOK(p)'
  BY <1>1, <1>2, <1>3
  DEF PartyOK, EventOK, PastEvent, WatchOK, PanicOK, PaidOK, ClosedFinal, signedBy
<1>5. QED
  BY <1>1, <1>2, <1>3, <1>4, LocalInv DEF DisputeType

\* Watch takes the event out of the slot.
LEMMA WatchNextInv ==
    ASSUME Agreed, DisputeInv, NEW p \in Parts, WatchNext(p)
    PROVE  DisputeInv'
<1>1. Quiet(p) /\ DisputeType /\ PartyOK(p)
  BY QuietUnchanged DEF WatchNext, Agreed, DisputeInv, PartyOK
<1>2. /\ chain' = chain /\ paid' = paid
      /\ machine' = machine /\ lock' = lock /\ msgs' = msgs /\ discarded' = discarded
      /\ next' = [next EXCEPT ![p] = Nil] /\ watcher[p] = "next" /\ next[p] # Nil
      /\ event' = [event EXCEPT ![p] = next[p]]
      /\ watcher' = [watcher EXCEPT ![p] = "setPhase"]
  BY DEF WatchNext, vars
<1>3. /\ DisputeType' /\ next'[p] = Nil /\ watcher'[p] = "setPhase"
      /\ event'[p] = next[p]
  BY <1>1, <1>2 DEF DisputeType, WatcherState
<1>4. EventOK(p)'
  BY <1>1, <1>2, <1>3 DEF PartyOK, EventOK, PastEvent, ClosedFinal, signedBy
<1>5. WatchOK(p)'
  BY <1>1, <1>2, <1>3
  DEF PartyOK, WatchOK, Safe, CaughtUp, Frozen, alive, ClosedFinal, current
<1>6. PanicOK(p)' /\ PaidOK(p)'
  BY <1>1, <1>2, <1>3 DEF PartyOK, PanicOK, PaidOK
<1>7. QED
  BY <1>1, <1>2, <1>3, <1>4, <1>5, <1>6, LocalInv DEF DisputeType, PartyOK

\* A Concluded event changes nothing: the chain is closed already.
LEMMA HandleConcludedInv ==
    ASSUME Agreed, DisputeInv, NEW p \in Parts, HandleConcluded(p)
    PROVE  DisputeInv'
<1>1. Quiet(p) /\ DisputeType /\ PartyOK(p) /\ ChainOK
  BY QuietUnchanged DEF HandleConcluded, Agreed, DisputeInv, PartyOK
<1>2. /\ chain' = chain /\ paid' = paid /\ next' = next
      /\ machine' = machine /\ lock' = lock /\ msgs' = msgs /\ discarded' = discarded
      /\ watcher[p] = "setPhase" /\ event[p].type = "Concluded"
      /\ event' = [event EXCEPT ![p] = Nil]
      /\ watcher' = [watcher EXCEPT ![p] = "next"]
      /\ lock[p] = "free"
  BY DEF HandleConcluded, vars, onchain
<1>3. DisputeType' /\ watcher'[p] = "next" /\ event'[p] = Nil
  BY <1>1, <1>2 DEF DisputeType, WatcherState
<1>4. ~chain.open
  BY <1>1, <1>2 DEF PartyOK, EventOK, PastEvent, ChainOK
<1>5. EventOK(p)'
  BY <1>1, <1>2, <1>3 DEF PartyOK, EventOK, PastEvent, ClosedFinal, signedBy
<1>6. WatchOK(p)'
  BY <1>1, <1>2, <1>3, <1>4
  DEF PartyOK, WatchOK, Safe, CaughtUp, Frozen, alive, ClosedFinal, current
<1>7. PanicOK(p)' /\ PaidOK(p)'
  BY <1>1, <1>2, <1>3 DEF PartyOK, PanicOK, PaidOK
<1>8. QED
  BY <1>1, <1>2, <1>3, <1>5, <1>6, <1>7, LocalInv DEF DisputeType, PartyOK

\* A Registered event: p is frozen and has caught up, or it will refute, or it
\* finds a newer version, which it must have discarded.
LEMMA HandleRegisteredInv ==
    ASSUME Agreed, DisputeInv, NEW p \in Parts, HandleRegistered(p)
    PROVE  DisputeInv'
<1> DEFINE e == event[p]
<1>1. Quiet(p) /\ DisputeType /\ PartyOK(p) /\ ChainOK
  BY DisputeQuiet DEF DisputeStep, Agreed, DisputeInv, PartyOK
<1>2. /\ chain' = chain /\ paid' = paid /\ next' = next
      /\ lock' = lock /\ msgs' = msgs /\ discarded' = discarded
      /\ watcher[p] = "setPhase" /\ lock[p] = "free"
      /\ watcher' = [watcher EXCEPT ![p] = compare(p)]
      /\ event' = [event EXCEPT ![p] = IF compare(p) = "next" THEN Nil ELSE @]
      /\ machine' = [machine EXCEPT ![p] = setPhase(@, "Registered")]
  BY DEF HandleRegistered, onchain, SetRegistered
<1>3. /\ current(p)' = current(p) /\ signedBy(p)' = signedBy(p)
      /\ machine'[p].phase = "Registered"
  <2>1. machine \in [Parts -> MachineType]
    BY DEF Agreed, Base, BaseType
  <2>2. "Registered" \in Phase
    BY DEF Phase
  <2>3. QED
    BY <1>1, <1>2, <2>1, <2>2, PhaseChange, QuietKeeps DEF Agreed
<1>4. e # Nil /\ PastEvent(p, e) /\ e \in AdjudicatorEvent
  BY <1>1, <1>2 DEF PartyOK, EventOK, DisputeType
<1>5. /\ e.state \in State /\ e.state.version \in Nat
      /\ current(p) \in State /\ current(p).version \in Nat
      /\ chain.state \in State /\ chain.state.version \in Nat
  BY <1>1, <1>4, AgreedFacts DEF AdjudicatorEvent, State, ChainOK, PastEvent
<1>6. \/ compare(p) = "panicked" /\ e.state.version > current(p).version
      \/ compare(p) = "register" /\ e.state.version < current(p).version
      \/ compare(p) = "next" /\ e.state.version = current(p).version
  BY <1>5 DEF compare
<1>7. /\ DisputeType' /\ watcher'[p] = compare(p)
      /\ event'[p] = IF compare(p) = "next" THEN Nil ELSE e
  BY <1>1, <1>2, <1>6 DEF DisputeType, WatcherState
<1>8. EventOK(p)'
  BY <1>1, <1>2, <1>3, <1>4, <1>6, <1>7
  DEF PartyOK, EventOK, PastEvent, ClosedFinal
<1>9. compare(p) # "register" /\ ~ClosedFinal => CaughtUp(p)
  BY <1>4, <1>5, <1>6 DEF PastEvent, CaughtUp
<1>10. WatchOK(p)'
  <2>1. Frozen(p)' /\ CaughtUp(p)' = CaughtUp(p) /\ ClosedFinal' = ClosedFinal
    BY <1>2, <1>3 DEF Frozen, CaughtUp, ClosedFinal
  <2>2. CASE compare(p) = "register"
    BY <1>1, <1>2, <1>7, <2>1, <2>2 DEF PartyOK, WatchOK, Safe
  <2>3. CASE compare(p) # "register"
    BY <1>2, <1>7, <1>9, <2>1, <2>3 DEF WatchOK, Safe
  <2>4. QED
    BY <2>2, <2>3
<1>11. PanicOK(p)'
  <2>1. compare(p) = "panicked" => e.state \in discarded[p]
    BY <1>2, <1>4, <1>5, <1>6, AgreedFacts DEF PastEvent, Updates
  <2>2. QED
    BY <1>2, <1>3, <1>6, <1>7, <1>9, <2>1 DEF PanicOK, CaughtUp, ClosedFinal
<1>12. PaidOK(p)'
  BY <1>1, <1>2, <1>3, <1>7 DEF PartyOK, PaidOK
<1>13. QED
  BY <1>1, <1>2, <1>7, <1>8, <1>10, <1>11, <1>12, LocalInv DEF DisputeType, PartyOK

\* What changing the phase of p's machine and its lock leaves for p to show.
LEMMA MachineChange ==
    ASSUME Agreed, NEW p \in Parts, Quiet(p), NEW ph \in Phase,
           machine' = [machine EXCEPT ![p] = setPhase(@, ph)]
    PROVE  /\ current(p)' = current(p) /\ signedBy(p)' = signedBy(p)
           /\ machine'[p].phase = ph
<1>1. machine \in [Parts -> MachineType]
  BY DEF Agreed, Base, BaseType
<1>2. QED
  BY <1>1, PhaseChange, QuietKeeps DEF Agreed

\* Register and Settle take machMtx: p is frozen from then on.
LEMMA LockInv ==
    ASSUME Agreed, DisputeInv, NEW p \in Parts,
           (\E byWatcher \in BOOLEAN : RegisterLock(p, byWatcher)) \/ SettleLock(p)
    PROVE  DisputeInv'
<1>1. Quiet(p) /\ DisputeType /\ PartyOK(p)
  BY DisputeQuiet DEF DisputeStep, Agreed, DisputeInv, PartyOK
<1>2. PICK ph \in {"Registering", "Withdrawing"} :
         machine' = [machine EXCEPT ![p] = setPhase(@, ph)]
  BY DEF RegisterLock, SettleLock, SetRegistering, SetWithdrawing
<1>3. /\ chain' = chain /\ next' = next /\ event' = event /\ paid' = paid
      /\ discarded' = discarded /\ watcher[p] # "panicked"
  BY DEF RegisterLock, SettleLock, onchain, disputeVars, alive
<1>4. \/ watcher' = watcher
      \/ /\ watcher[p] = "register"
         /\ watcher' = [watcher EXCEPT ![p] = "registering"]
  BY DEF RegisterLock, SettleLock, disputeVars
<1>5. lock'[p] = "refuting" => watcher' = [watcher EXCEPT ![p] = "registering"]
  <2>1. lock \in [Parts -> Holder]
    BY DEF Agreed, Base, BaseType
  <2>2. QED
    BY <2>1 DEF RegisterLock, SettleLock
<1>6. /\ current(p)' = current(p) /\ signedBy(p)' = signedBy(p)
      /\ machine'[p].phase = ph
  BY <1>1, <1>2, MachineChange DEF Phase
<1>7. DisputeType'
  BY <1>1, <1>3, <1>4 DEF DisputeType, WatcherState
<1>8. /\ \/ watcher'[p] = watcher[p]
         \/ watcher[p] = "register" /\ watcher'[p] = "registering"
      /\ \A q \in Parts \ {p} : watcher'[q] = watcher[q]
      /\ lock'[p] = "refuting" => watcher'[p] = "registering"
  BY <1>1, <1>4, <1>5 DEF DisputeType
<1>9. EventOK(p)'
  BY <1>1, <1>3, <1>6, <1>8 DEF PartyOK, EventOK, PastEvent, ClosedFinal
<1>10. WatchOK(p)'
  BY <1>1, <1>3, <1>6, <1>8
  DEF PartyOK, WatchOK, Safe, CaughtUp, Frozen, alive, ClosedFinal
<1>11. PanicOK(p)' /\ PaidOK(p)'
  BY <1>1, <1>3, <1>6, <1>8 DEF PartyOK, PanicOK, PaidOK
<1>12. QED
  BY <1>1, <1>3, <1>7, <1>8, <1>9, <1>10, <1>11, LocalInv DEF PartyOK

\* Register or Settle gives up.
LEMMA GiveUpInv ==
    ASSUME Agreed, DisputeInv, NEW p \in Parts, RegisterFails(p) \/ SettleFails(p)
    PROVE  DisputeInv'
<1>1. Quiet(p) /\ DisputeType /\ PartyOK(p)
  BY DisputeQuiet DEF DisputeStep, Agreed, DisputeInv, PartyOK
<1>2. /\ chain' = chain /\ next' = next /\ paid' = paid
      /\ machine' = machine /\ msgs' = msgs /\ discarded' = discarded
      /\ lock' = [lock EXCEPT ![p] = "free"] /\ watcher[p] # "panicked"
  BY DEF RegisterFails, SettleFails, registers, endRegister, onchain,
         disputeVars, alive
<1>3. \/ watcher' = watcher /\ event' = event
      \/ /\ lock[p] = "refuting"
         /\ watcher' = [watcher EXCEPT ![p] = "returned"]
         /\ event' = [event EXCEPT ![p] = Nil]
  BY DEF RegisterFails, SettleFails, endRegister, disputeVars
<1>4. DisputeType'
  BY <1>1, <1>2, <1>3 DEF DisputeType, WatcherState
<1>5. lock'[p] = "free"
  BY <1>2 DEF Agreed, Base, BaseType
<1>6. /\ \/ watcher'[p] = watcher[p] /\ event'[p] = event[p]
         \/ watcher'[p] = "returned" /\ event'[p] = Nil
      /\ \A q \in Parts \ {p} : watcher'[q] = watcher[q] /\ event'[q] = event[q]
  BY <1>1, <1>3 DEF DisputeType
<1>7. EventOK(p)'
  BY <1>1, <1>2, <1>6 DEF PartyOK, EventOK, PastEvent, ClosedFinal, signedBy
<1>8. WatchOK(p)'
  BY <1>1, <1>2, <1>6
  DEF PartyOK, WatchOK, Safe, CaughtUp, Frozen, alive, ClosedFinal, current
<1>9. PanicOK(p)' /\ PaidOK(p)'
  BY <1>1, <1>2, <1>5, <1>6 DEF PartyOK, PanicOK, PaidOK
<1>10. QED
  BY <1>1, <1>2, <1>4, <1>6, <1>7, <1>8, <1>9, LocalInv DEF PartyOK

\* Withdrawing: the chain is closed, so p has caught up with it; the state on
\* the chain is p's current one, or one it signed and discarded.
LEMMA WithdrawInv ==
    ASSUME Agreed, DisputeInv, NEW p \in Parts, Withdraw(p)
    PROVE  DisputeInv'
<1> DEFINE amount == current(p).bals[p]
<1>1. Quiet(p) /\ DisputeType /\ PartyOK(p) /\ ChainOK
  BY DisputeQuiet DEF DisputeStep, Agreed, DisputeInv, PartyOK
<1>2. /\ chain' = chain /\ next' = next /\ watcher' = watcher /\ event' = event
      /\ msgs' = msgs /\ discarded' = discarded
      /\ machine' = [machine EXCEPT ![p] = setPhase(@, "Withdrawn")]
      /\ paid' = [paid EXCEPT ![p] = IF @ = Nil THEN amount ELSE @]
      /\ lock' = [lock EXCEPT ![p] = "free"] /\ lock[p] = "withdrawing"
      /\ chain.phase = "concluded" /\ watcher[p] # "panicked"
  BY DEF Withdraw, onchain, SetWithdrawn, alive
<1>3. /\ current(p)' = current(p) /\ signedBy(p)' = signedBy(p)
      /\ machine'[p].phase = "Withdrawn"
  BY <1>1, <1>2, MachineChange DEF Phase
<1>4. current(p) \in State /\ amount \in Int /\ current(p).version \in Nat
  BY AgreedFacts DEF State, Allocation
<1>5. DisputeType' /\ lock'[p] = "free"
      /\ paid'[p] = (IF paid[p] = Nil THEN amount ELSE paid[p])
      /\ \A q \in Parts \ {p} : paid'[q] = paid[q]
  BY <1>1, <1>2, <1>4 DEF DisputeType, Agreed, Base, BaseType
<1>6. watcher[p] # "returned" =>
         chain.state = current(p) \/ chain.state \in discarded[p]
  <2>1. chain.state \in signedBy(p) /\ chain.state.version \in Nat
    BY <1>1, <1>2 DEF ChainOK, State
  <2>2. \/ chain.state \in discarded[p] \/ chain.state = current(p)
        \/ chain.state.version < current(p).version
    BY <1>2, <2>1, AgreedFacts DEF Updates
  <2>3. ~chain.open
    BY <1>1, <1>2 DEF ChainOK
  <2>4. watcher[p] # "returned" => chain.state.version >= current(p).version
    BY <1>2, <2>3, ClosedCaughtUp DEF CaughtUp
  <2>5. QED
    BY <1>4, <2>1, <2>2, <2>4
<1>7. PaidOK(p)'
  BY <1>1, <1>2, <1>5, <1>6 DEF PartyOK, PaidOK
<1>8. EventOK(p)' /\ PanicOK(p)'
  BY <1>1, <1>2, <1>3, <1>5
  DEF PartyOK, EventOK, PastEvent, PanicOK, CaughtUp, ClosedFinal
<1>9. WatchOK(p)'
  BY <1>1, <1>2, <1>3
  DEF PartyOK, WatchOK, Safe, CaughtUp, Frozen, alive, ClosedFinal
<1>10. QED
  BY <1>1, <1>2, <1>5, <1>7, <1>8, <1>9, LocalInv DEF PartyOK

\* What a transaction of somebody means for q besides the change of the chain:
\* its states and payments stay, and it may have ended a refutation.
ChainFrame(q) ==
    /\ current(q)' = current(q) /\ signedBy(q)' = signedBy(q)
    /\ discarded'[q] = discarded[q] /\ paid'[q] = paid[q]
    /\ machine'[q].phase = machine[q].phase \/ machine'[q].phase = "Registered"
    /\ \/ watcher'[q] = watcher[q] /\ event'[q] = event[q]
       \/ /\ watcher[q] = "registering" /\ watcher'[q] = "next"
          /\ event'[q] = Nil
    /\ lock'[q] = "refuting" => lock[q] = "refuting" /\ watcher'[q] = watcher[q]

\* The event of a transaction reaches every watcher, unless an event of the
\* same or a newer version waits for it already.
LEMMA EmitFacts ==
    ASSUME DisputeType, NEW e \in AdjudicatorEvent, emit(e), NEW q \in Parts
    PROVE  /\ next' \in [Parts -> AdjudicatorEvent \cup {Nil}]
           /\ watcher[q] # "returned" => next'[q] # Nil
           /\ next'[q] \in {Nil, e, next[q]}
<1>1. next \in [Parts -> AdjudicatorEvent \cup {Nil}]
  BY DEF DisputeType
<1>2. \A r \in Parts : /\ newest(r, e) \in AdjudicatorEvent
                       /\ newest(r, e) \in {e, next[r]}
  BY <1>1 DEF newest
<1>3. QED
  BY <1>2, EventAssumption DEF emit

\* A newer state is registered: an event is on its way to every watcher.
LEMMA DisputedInv ==
    ASSUME Agreed, DisputeInv, NEW p \in Parts,
           \A q \in Parts : ChainFrame(q), DisputeType',
           ~current(p).isFinal,
           chain.phase # "none" => /\ chain.phase = "dispute"
                                   /\ current(p).version > chain.state.version,
           chain' = [phase |-> "dispute", state |-> current(p), open |-> TRUE],
           emit(RegisteredEvent(current(p)))
    PROVE  DisputeInv'
<1> DEFINE e == RegisteredEvent(current(p))
<1>1. /\ chain'.phase = "dispute" /\ chain'.state = current(p) /\ chain'.open
      /\ ~ClosedFinal' /\ ~ClosedFinal
  BY DEF ClosedFinal
<1>2. /\ current(p) \in State /\ current(p).version \in Nat
      /\ \A q \in Parts : current(p) \in signedBy(q)
  BY AgreedFacts DEF State
<1>3. e \in AdjudicatorEvent /\ e.state = current(p) /\ e.type = "Registered"
  BY <1>2 DEF AdjudicatorEvent, RegisteredEvent
<1>4. chain.phase # "none" => chain.state.version \in Nat
  BY DEF DisputeInv, ChainOK, State
<1>5. ChainOK'
  BY <1>1, <1>2 DEF ChainOK, ChainFrame
<1>6. ASSUME NEW q \in Parts PROVE PartyOK(q)'
  <2>1. ChainFrame(q) /\ PartyOK(q)
    BY DEF DisputeInv, PartyOK
  <2>2. /\ watcher[q] # "returned" => next'[q] # Nil
        /\ next'[q] \in {Nil, e, next[q]}
    BY <1>3, EmitFacts DEF DisputeInv
  <2>3. ASSUME NEW f \in AdjudicatorEvent, PastEvent(q, f) PROVE PastEvent(q, f)'
    <3>1. f.state.version \in Nat
      BY <2>3 DEF AdjudicatorEvent, State
    <3>2. f.state.version <= current(p).version
      BY <1>1, <1>2, <1>4, <2>3, <3>1 DEF PastEvent
    <3>3. QED
      BY <1>1, <2>1, <2>3, <3>2 DEF PastEvent, ChainFrame
  <2>4. PastEvent(q, e)'
    BY <1>1, <1>2, <1>3, <2>1 DEF PastEvent, ChainFrame
  <2>5. EventOK(q)'
    BY <2>1, <2>2, <2>3, <2>4 DEF PartyOK, EventOK, ChainFrame, DisputeInv, DisputeType
  <2>6. WatchOK(q)'
    BY <1>1, <2>1, <2>2 DEF WatchOK, ChainFrame
  <2>7. PanicOK(q)'
    <3>1. watcher[q] = "panicked" => chain.phase # "none" /\ CaughtUp(q)
      BY <1>1, <2>1 DEF PartyOK, PanicOK, EventOK, PastEvent
    <3>2. current(q).version \in Nat
      BY AgreedFacts DEF State
    <3>3. watcher[q] = "panicked" => CaughtUp(q)'
      BY <1>1, <1>2, <1>4, <2>1, <3>1, <3>2 DEF CaughtUp, ChainFrame
    <3>4. QED
      BY <2>1, <3>3 DEF PartyOK, PanicOK, ChainFrame
  <2>8. PaidOK(q)'
    BY <2>1 DEF PartyOK, PaidOK, ChainFrame
  <2>9. QED
    BY <2>5, <2>6, <2>7, <2>8 DEF PartyOK
<1>7. QED
  BY <1>5, <1>6 DEF DisputeInv, PartyOK

\* The channel is concluded, with a final state or with the disputed one.
LEMMA ConcludedInv ==
    ASSUME Agreed, DisputeInv, NEW p \in Parts,
           \A q \in Parts : ChainFrame(q), DisputeType',
           chain.phase # "concluded",
           \/ current(p).isFinal
           \/ chain.phase = "dispute" /\ ~chain.open /\ chain.state = current(p),
           chain' = [phase |-> "concluded", state |-> current(p), open |-> FALSE],
           emit(ConcludedEvent(current(p)))
    PROVE  DisputeInv'
<1> DEFINE e == ConcludedEvent(current(p))
<1>1. /\ chain'.phase = "concluded" /\ chain'.state = current(p) /\ ~chain'.open
      /\ (ClosedFinal' <=> current(p).isFinal) /\ ~ClosedFinal
  BY DEF ClosedFinal
<1>2. /\ current(p) \in State /\ current(p).version \in Nat
      /\ \A q \in Parts : current(p) \in signedBy(q)
  BY AgreedFacts DEF State
<1>3. e \in AdjudicatorEvent /\ e.state = current(p) /\ e.type = "Concluded"
  BY <1>2 DEF AdjudicatorEvent, ConcludedEvent
<1>4. ChainOK'
  BY <1>1, <1>2 DEF ChainOK, ChainFrame
<1>5. ASSUME NEW q \in Parts PROVE PartyOK(q)'
  <2>1. ChainFrame(q) /\ PartyOK(q)
    BY DEF DisputeInv, PartyOK
  <2>2. next'[q] \in {Nil, e, next[q]}
    BY <1>3, EmitFacts DEF DisputeInv
  <2>3. ASSUME NEW f \in AdjudicatorEvent, PastEvent(q, f) PROVE PastEvent(q, f)'
    BY <1>1, <2>1, <2>3 DEF PastEvent, ChainFrame
  <2>4. PastEvent(q, e)'
    BY <1>1, <1>2, <1>3, <2>1 DEF PastEvent, ChainFrame
  <2>5. EventOK(q)'
    BY <2>1, <2>2, <2>3, <2>4 DEF PartyOK, EventOK, ChainFrame, DisputeInv, DisputeType
  <2>6. WatchOK(q)'
    BY <1>1, <2>1
    DEF PartyOK, WatchOK, Safe, CaughtUp, Frozen, alive, ChainFrame
  <2>7. PanicOK(q)'
    BY <1>1, <2>1 DEF PartyOK, PanicOK, CaughtUp, ChainFrame
  <2>8. PaidOK(q)'
    BY <2>1 DEF PartyOK, PaidOK, ChainFrame
  <2>9. QED
    BY <2>5, <2>6, <2>7, <2>8 DEF PartyOK
<1>6. QED
  BY <1>4, <1>5 DEF DisputeInv, PartyOK

\* The state on the chain stays, and p has caught up with it.
LEMMA NotNewerInv ==
    ASSUME Agreed, DisputeInv, NEW p \in Parts, Quiet(p), DisputeType',
           chain' = chain, next' = next, paid' = paid, ChainFrame(p),
           \A q \in Parts \ {p} : watcher'[q] = watcher[q] /\ event'[q] = event[q],
           machine'[p].phase = "Registered",
           watcher[p] # "returned" => CaughtUp(p)
    PROVE  DisputeInv'
<1>1. PartyOK(p)
  BY DEF DisputeInv, PartyOK
<1>2. ClosedFinal' = ClosedFinal /\ CaughtUp(p)' = CaughtUp(p)
  BY DEF ClosedFinal, CaughtUp, ChainFrame
<1>3. EventOK(p)'
  BY <1>1, <1>2 DEF PartyOK, EventOK, PastEvent, ChainFrame
<1>4. WatchOK(p)'
  BY <1>2 DEF WatchOK, Safe, Frozen, ChainFrame
<1>5. PanicOK(p)' /\ PaidOK(p)'
  BY <1>1, <1>2 DEF PartyOK, PanicOK, PaidOK, ChainFrame
<1>6. QED
  BY <1>3, <1>4, <1>5, LocalInv DEF PartyOK

\* Register sends its transaction.
LEMMA RegisterTxInv ==
    ASSUME Agreed, DisputeInv, NEW p \in Parts, RegisterTx(p)
    PROVE  DisputeInv'
<1>1. Quiet(p) /\ DisputeType /\ ChainOK /\ PanicOK(p)
  BY DisputeQuiet DEF DisputeStep, Agreed, DisputeInv
<1>2. /\ machine' = [machine EXCEPT ![p] = setPhase(@, "Registered")]
      /\ lock' = [lock EXCEPT ![p] = "free"] /\ paid' = paid
      /\ msgs' = msgs /\ discarded' = discarded
      /\ lock[p] \in {"registering", "refuting"} /\ watcher[p] # "panicked"
  BY DEF RegisterTx, SetRegistered, endRegister, registers, alive
<1>3. machine'[p].phase = "Registered"
  BY <1>1, <1>2, MachineChange DEF Phase
<1>4. \/ watcher' = watcher /\ event' = event
      \/ /\ watcher[p] = "registering"
         /\ watcher' = [watcher EXCEPT ![p] = "next"]
         /\ event' = [event EXCEPT ![p] = Nil]
  BY <1>1 DEF RegisterTx, endRegister, PanicOK
<1>5. /\ \A q \in Parts \ {p} : watcher'[q] = watcher[q] /\ event'[q] = event[q]
      /\ \/ watcher'[p] = watcher[p] /\ event'[p] = event[p]
         \/ /\ watcher[p] = "registering" /\ watcher'[p] = "next"
            /\ event'[p] = Nil
      /\ watcher' \in [Parts -> WatcherState]
      /\ event' \in [Parts -> AdjudicatorEvent \cup {Nil}]
  BY <1>1, <1>4 DEF DisputeType, WatcherState
<1>6. lock'[p] = "free"
  BY <1>2 DEF Agreed, Base, BaseType
<1>7. \A q \in Parts : current(q)' = current(q) /\ signedBy(q)' = signedBy(q)
  BY <1>1, QuietKeeps DEF Agreed
<1>8. ASSUME NEW q \in Parts PROVE ChainFrame(q)
  BY <1>1, <1>2, <1>3, <1>5, <1>6, <1>7 DEF ChainFrame, Quiet
<1>9. /\ current(p) \in State /\ current(p).version \in Nat
      /\ chain.phase # "none" => chain.state \in State /\ chain.state.version \in Nat
  BY <1>1, AgreedFacts DEF State, ChainOK
<1>10. ASSUME UNCHANGED onchain, watcher[p] # "returned" => CaughtUp(p)
       PROVE  DisputeInv'
  <2>1. chain' = chain /\ next' = next
    BY <1>10 DEF onchain
  <2>2. DisputeType'
    BY <1>1, <1>2, <1>5, <2>1 DEF DisputeType
  <2>3. QED
    BY <1>1, <1>2, <1>3, <1>5, <1>8, <1>10, <2>1, <2>2, NotNewerInv
<1>11. CASE current(p).isFinal
  <2>1. CASE chain.phase = "concluded" /\ UNCHANGED onchain
    BY <1>1, <1>10, <2>1, ClosedCaughtUp DEF ChainOK
  <2>2. CASE chain.phase # "concluded" /\ concludeTx(machine[p].currentTX)
    <3>1. /\ chain' = [phase |-> "concluded", state |-> current(p), open |-> FALSE]
          /\ emit(ConcludedEvent(current(p)))
      BY <2>2 DEF concludeTx, current
    <3>2. ConcludedEvent(current(p)) \in AdjudicatorEvent
      BY <1>9 DEF ConcludedEvent, AdjudicatorEvent
    <3>3. DisputeType'
      BY <1>1, <1>2, <1>5, <1>9, <3>1, <3>2, EmitFacts DEF DisputeType
    <3>4. QED
      BY <1>8, <1>11, <2>2, <3>1, <3>3, ConcludedInv
  <2>3. QED
    BY <1>11, <2>1, <2>2 DEF RegisterTx, sendRegister, AdjudicatorReq, current
<1>12. CASE ~current(p).isFinal
  <2>1. registerAllowed(machine[p].currentTX) /\ registerTx(machine[p].currentTX)
    BY <1>12 DEF RegisterTx, sendRegister, AdjudicatorReq, current
  <2>2. CASE chain.phase = "none" \/ current(p).version > chain.state.version
    <3>1. /\ chain' = [phase |-> "dispute", state |-> current(p), open |-> TRUE]
          /\ emit(RegisteredEvent(current(p)))
      BY <2>1, <2>2 DEF registerTx, fetchRegisterCallData, current
    <3>2. chain.phase # "none" => /\ chain.phase = "dispute"
                                  /\ current(p).version > chain.state.version
      BY <1>9, <2>1, <2>2 DEF registerAllowed, current
    <3>3. RegisteredEvent(current(p)) \in AdjudicatorEvent
      BY <1>9 DEF RegisteredEvent, AdjudicatorEvent
    <3>4. DisputeType'
      BY <1>1, <1>2, <1>5, <1>9, <3>1, <3>3, EmitFacts DEF DisputeType
    <3>5. QED
      BY <1>8, <1>12, <3>1, <3>2, <3>4, DisputedInv
  <2>3. CASE ~(chain.phase = "none" \/ current(p).version > chain.state.version)
    <3>1. UNCHANGED onchain
      BY <2>1, <2>3 DEF registerTx, current
    <3>2. CaughtUp(p)
      BY <1>9, <2>3 DEF CaughtUp
    <3>3. QED
      BY <1>10, <3>1, <3>2
  <2>4. QED
    BY <2>2, <2>3
<1>13. QED
  BY <1>11, <1>12

\* Settle concludes the channel.
LEMMA ConcludeInv ==
    ASSUME Agreed, DisputeInv, NEW p \in Parts, Conclude(p)
    PROVE  DisputeInv'
<1>1. Quiet(p) /\ DisputeType
  BY DisputeQuiet DEF DisputeStep, Agreed, DisputeInv
<1>2. /\ machine' = machine /\ lock' = lock /\ paid' = paid /\ msgs' = msgs
      /\ discarded' = discarded /\ watcher' = watcher /\ event' = event
  BY DEF Conclude, vars
<1>3. ASSUME NEW q \in Parts PROVE ChainFrame(q)
  BY <1>2 DEF ChainFrame, current, signedBy
<1>4. /\ chain' = [phase |-> "concluded", state |-> current(p), open |-> FALSE]
      /\ emit(ConcludedEvent(current(p)))
  BY DEF Conclude, concludeTx, AdjudicatorReq, current
<1>5. /\ chain.phase # "concluded"
      /\ \/ current(p).isFinal
         \/ chain.phase = "dispute" /\ ~chain.open /\ chain.state = current(p)
  BY DEF Conclude, concludeAllowed, AdjudicatorReq, current
<1>6. current(p) \in State
  BY AgreedFacts
<1>7. ConcludedEvent(current(p)) \in AdjudicatorEvent
  BY <1>6 DEF ConcludedEvent, AdjudicatorEvent
<1>8. DisputeType'
  BY <1>1, <1>2, <1>4, <1>6, <1>7, EmitFacts DEF DisputeType
<1>9. QED
  BY <1>3, <1>4, <1>5, <1>8, ConcludedInv

\* The challenge duration is over: every watcher had nothing left to do, so
\* each of them is safe.
LEMMA ElapseInv ==
    ASSUME Agreed, DisputeInv, Elapse
    PROVE  DisputeInv'
<1>1. /\ machine' = machine /\ lock' = lock /\ paid' = paid /\ msgs' = msgs
      /\ discarded' = discarded /\ watcher' = watcher /\ event' = event
      /\ next' = next /\ chain' = [chain EXCEPT !.open = FALSE]
      /\ chain.phase = "dispute" /\ chain.open
      /\ \A p \in Parts : settled(p)
  BY DEF Elapse, vars
<1>2. /\ chain'.phase = chain.phase /\ chain'.state = chain.state /\ ~chain'.open
      /\ DisputeType'
  BY <1>1 DEF DisputeInv, DisputeType
<1>3. ClosedFinal' = ClosedFinal /\ ~ClosedFinal
  BY <1>1, <1>2 DEF ClosedFinal
<1>4. ChainOK'
  BY <1>1, <1>2, <1>3 DEF DisputeInv, ChainOK, signedBy
<1>5. ASSUME NEW q \in Parts PROVE PartyOK(q)'
  <2>1. PartyOK(q) /\ settled(q)
    BY <1>1 DEF DisputeInv, PartyOK
  <2>2. watcher[q] # "returned" => Safe(q)
    BY <1>1, <1>3, <2>1 DEF PartyOK, WatchOK, PanicOK, settled, Safe, alive
  <2>3. WatchOK(q)'
    BY <1>1, <1>2, <2>2 DEF WatchOK, Safe, CaughtUp, Frozen, alive, current
  <2>4. EventOK(q)'
    BY <1>1, <1>2, <1>3, <2>1 DEF PartyOK, EventOK, PastEvent, signedBy
  <2>5. PanicOK(q)' /\ PaidOK(q)'
    BY <1>1, <1>2, <1>3, <2>1 DEF PartyOK, PanicOK, PaidOK, CaughtUp, current
  <2>6. QED
    BY <2>3, <2>4, <2>5 DEF PartyOK
<1>6. QED
  BY <1>2, <1>4, <1>5 DEF DisputeInv, PartyOK

\* Every step of an agreed channel preserves the invariant.
LEMMA DisputeNextInv == Agreed /\ DisputeInv /\ [DisputeNext]_allVars => DisputeInv'
<1> SUFFICES ASSUME Agreed, DisputeInv, [DisputeNext]_allVars PROVE DisputeInv'
  OBVIOUS
<1>1. CASE UNCHANGED allVars
  BY <1>1 DEF allVars, vars, disputeVars, DisputeInv, DisputeType, ChainOK,
              ClosedFinal, EventOK, PastEvent, WatchOK, Safe, CaughtUp, Frozen,
              PanicOK, PaidOK, alive, current, signedBy
<1>2. CASE Elapse
  BY <1>2, ElapseInv
<1>3. ASSUME NEW p \in Parts, UpdateStep(p) PROVE DisputeInv'
  BY <1>3, UpdateStepInv
<1>4. ASSUME NEW p \in Parts, DisputeStep(p) PROVE DisputeInv'
  BY <1>4, SubscriptionEndsInv, WatchNextInv, HandleRegisteredInv,
     HandleConcludedInv, LockInv, RegisterTxInv, GiveUpInv, ConcludeInv, WithdrawInv
  DEF DisputeStep
<1>5. QED
  BY <1>1, <1>2, <1>3, <1>4 DEF DisputeNext

-----------------------------------------------------------------------------
(* The theorems *)

\* The invariant of the dispute holds in every reachable state.
THEOREM DisputeInvariance == DisputeSpec => []DisputeInv
  BY AgreedInDispute, DisputeInitInv, DisputeNextInv, PTL DEF DisputeSpec

\* A channel is never closed with a state that is older than the current one of
\* a participant whose Watch (client/adjudicate.go) is running.
THEOREM OutcomeNotStaleAlways == DisputeSpec => []OutcomeNotStale
  BY AgreedInDispute, DisputeInvariance, DisputeInvImplies, PTL

\* Watch panics over a newer registered version only if the client discarded
\* that state after it had sent its signature.
THEOREM PanicOnlyAfterDiscardAlways == DisputeSpec => []PanicOnlyAfterDiscard
  BY AgreedInDispute, DisputeInvariance, DisputeInvImplies, PTL

\* Who watched and has settled was paid what the state on the chain says, or
\* that is a state it signed and discarded.
THEOREM PayoutIsOutcomeAlways == DisputeSpec => []PayoutIsOutcome
  BY AgreedInDispute, DisputeInvariance, DisputeInvImplies, PTL
=============================================================================
