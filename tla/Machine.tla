------------------------------ MODULE Machine ------------------------------
(***************************************************************************)
(* The channel state machine of channel/machine.go and                     *)
(* channel/statemachine.go as operators on a machine record                *)
(*                                                                         *)
(*   [phase, stagingTX, currentTX]                                         *)
(*                                                                         *)
(* A method that can fail is two operators: the conjunction of its checks  *)
(* (named ...Allowed) and the machine it leaves behind when they pass.     *)
(* When a check fails the method returns an error and changes nothing.     *)
(*                                                                         *)
(* A state keeps the version, the balances of one asset and the final      *)
(* flag; the channel ID, the app identity and the app data are the same in *)
(* every state a channel handles.  prevTXs is only ever written, so it is  *)
(* left out.  The app is the payment app of apps/payment.                  *)
(***************************************************************************)
EXTENDS Integers, Functions

CONSTANTS
    Parts,      \* the indices of the participants (Params.Parts)
    Nil         \* Go's nil: no state, no signature

-----------------------------------------------------------------------------
(* Data *)

Allocation == [Parts -> Int]

State == [version : Nat, bals : Allocation, isFinal : BOOLEAN]

\* A signature is the pair of what was signed and who signed it: nobody can
\* produce Sign(p, s) without the account of p.
Sig == [signer : Parts, state : State]

ASSUME NilAssumption == Nil \notin State /\ Nil \notin Sig

Sign(p, s) == [signer |-> p, state |-> s]
Verify(p, s, sig) == sig = Sign(p, s)

Transaction == [state : State \cup {Nil}, sigs : [Parts -> Sig \cup {Nil}]]

newTransaction(s) == [state |-> s, sigs |-> [p \in Parts |-> Nil]]
NoTX == newTransaction(Nil)

\* The sum EqualSum compares.
Sum(bals) == FoldFunction(LAMBDA x, y : x + y, 0, bals)

-----------------------------------------------------------------------------
(* Phases *)

Phase == {"InitActing", "InitSigning", "Funding", "Acting", "Signing",
          "Final", "Registering", "Registered", "Progressing", "Progressed",
          "Withdrawing", "Withdrawn"}

InitPhases == {"InitActing", "InitSigning"}     \* phase < Funding
signingPhases == {"InitSigning", "Signing", "Progressing"}

validPhaseTransitions ==
    { <<"InitActing", "InitSigning">>,  <<"InitSigning", "Funding">>,
      <<"Funding", "Acting">>,          <<"Acting", "Signing">>,
      <<"Signing", "Acting">>,          <<"Signing", "Final">>,
      <<"Funding", "Registering">>,     <<"Acting", "Registering">>,
      <<"Signing", "Registering">>,     <<"Final", "Registering">>,
      <<"Funding", "Registered">>,      <<"Acting", "Registered">>,
      <<"Signing", "Registered">>,      <<"Final", "Registered">>,
      <<"Registering", "Registered">>,  <<"Registered", "Withdrawing">>,
      <<"Registered", "Progressed">>,   <<"Progressing", "Progressed">>,
      <<"Progressed", "Withdrawing">>,  <<"Withdrawing", "Withdrawn">> }

expect(m, from, to) == m.phase = from /\ <<from, to>> \in validPhaseTransitions

MachineType == [phase : Phase, stagingTX : Transaction, currentTX : Transaction]

newMachine == [phase |-> "InitActing", stagingTX |-> NoTX, currentTX |-> NoTX]

setPhase(m, ph) == [m EXCEPT !.phase = ph]

setStaging(m, ph, s) ==
    [m EXCEPT !.phase = ph, !.stagingTX = newTransaction(s)]

-----------------------------------------------------------------------------
(* Staging a state *)

ValidAllocation(bals) == \A p \in Parts : bals[p] >= 0

\* Mutant: the direction of the payment is not looked at.
AnyTransition(from, to, actor) == TRUE

\* App.ValidTransition of the payment app: money flows only from the actor to
\* the other participants.
AppValidTransition(from, to, actor) ==
    \A p \in Parts : IF p = actor THEN to.bals[p] <= from.bals[p]
                                  ELSE to.bals[p] >= from.bals[p]

\* Mutant: a newer version is enough.
machineTransitionAnyVersion(from, to) ==
    /\ ~from.isFinal
    /\ to.version > from.version
    /\ ValidAllocation(to.bals)
    /\ Sum(to.bals) = Sum(from.bals)

\* Mutant: the sums are not compared.
machineTransitionAnySum(from, to) ==
    /\ ~from.isFinal
    /\ to.version = from.version + 1
    /\ ValidAllocation(to.bals)

machineValidTransition(from, to) ==
    /\ ~from.isFinal
    /\ to.version = from.version + 1
    /\ ValidAllocation(to.bals)
    /\ Sum(to.bals) = Sum(from.bals)

validTransition(m, to, actor) ==
    /\ machineValidTransition(m.currentTX.state, to)
    /\ AppValidTransition(m.currentTX.state, to, actor)

InitAllowed(m, bals) == expect(m, "InitActing", "InitSigning") /\ ValidAllocation(bals)
InitState(bals) == [version |-> 0, bals |-> bals, isFinal |-> FALSE]
Init_(m, bals) == setStaging(m, "InitSigning", InitState(bals))

UpdateAllowed(m, s, actor) ==
    expect(m, "Acting", "Signing") /\ validTransition(m, s, actor)
Update_(m, s) == setStaging(m, "Signing", s)

\* CheckUpdate is read-only and does not look at the phase.
CheckUpdate(m, s, actor, sig, sigIdx) ==
    validTransition(m, s, actor) /\ Verify(sigIdx, s, sig)

DiscardAllowed(m) == expect(m, "Signing", "Acting")
\* Mutants: the phase is not reset; the staged transaction is set to nil.
DiscardKeepsPhase(m) == [m EXCEPT !.stagingTX = NoTX]
DiscardToNil(m) == [m EXCEPT !.phase = "Acting", !.stagingTX = Nil]

DiscardUpdate(m) == [m EXCEPT !.phase = "Acting", !.stagingTX = NoTX]

-----------------------------------------------------------------------------
(* Signing the staged state *)

SigAllowed(m) == m.phase \in signingPhases

\* The own signature is calculated once and then kept.
OwnSig(m, idx) == IF m.stagingTX.sigs[idx] = Nil
                    THEN Sign(idx, m.stagingTX.state)
                    ELSE m.stagingTX.sigs[idx]
Sig_(m, idx) == [m EXCEPT !.stagingTX.sigs[idx] = OwnSig(m, idx)]

\* Mutant: the signature is not verified.
AddSigUnverified(m, idx, sig) ==
    m.phase \in signingPhases /\ m.stagingTX.sigs[idx] = Nil

AddSigAllowed(m, idx, sig) ==
    /\ m.phase \in signingPhases
    /\ m.stagingTX.sigs[idx] = Nil
    /\ Verify(idx, m.stagingTX.state, sig)
AddSig(m, idx, sig) == [m EXCEPT !.stagingTX.sigs[idx] = sig]

-----------------------------------------------------------------------------
(* Promoting the staged state *)

addTx(m, tx) == [m EXCEPT !.currentTX = tx, !.stagingTX = NoTX]

enableStagedAllowed(m, from, to) ==
    /\ expect(m, from, to)
    /\ (to = "Final") = m.stagingTX.state.isFinal
    /\ \A p \in Parts : m.stagingTX.sigs[p] # Nil
enableStaged(m, to) == addTx(setPhase(m, to), m.stagingTX)

EnableInitAllowed(m) == enableStagedAllowed(m, "InitSigning", "Funding")

EnableInit(m) == enableStaged(m, "Funding")

\* enableNotifyUpdate (client/update.go) picks EnableFinal or EnableUpdate by
\* the final flag of the staged state.
EnableTarget(m) == IF m.stagingTX.state.isFinal THEN "Final" ELSE "Acting"
EnableAllowed(m) == enableStagedAllowed(m, "Signing", EnableTarget(m))
Enable(m) == enableStaged(m, EnableTarget(m))

-----------------------------------------------------------------------------
(* Funding, dispute and withdrawal *)

SetFundedAllowed(m) == expect(m, "Funding", "Acting")
SetFunded(m) == setPhase(m, "Acting")

SetRegisteringAllowed(m) == m.phase \notin InitPhases
SetRegistering(m) == setPhase(m, "Registering")

SetRegisteredAllowed(m) == m.phase \notin InitPhases
SetRegistered(m) == setPhase(m, "Registered")

SetProgressingAllowed(m) == m.phase \in {"Registered", "Progressed"}
SetProgressing(m, s) == setStaging(m, "Progressing", s)

\* No phase check and no signatures.
forceState(m, ph, s) == addTx(setPhase(m, ph), newTransaction(s))
SetProgressed(m, s) == forceState(m, "Progressed", s)

SetWithdrawingAllowed(m) ==
    m.phase \in {"Final", "Registered", "Progressed", "Withdrawing"}
SetWithdrawing(m) == setPhase(m, "Withdrawing")

SetWithdrawnAllowed(m) == expect(m, "Withdrawing", "Withdrawn")
SetWithdrawn(m) == setPhase(m, "Withdrawn")
=============================================================================
