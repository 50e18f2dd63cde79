--------------------------- MODULE UpdateProtocol ---------------------------
(***************************************************************************)
(* The two-party update protocol of client/update.go on top of the channel *)
(* machine, with the message transport of client/channelconn.go.           *)
(*                                                                         *)
(* Update(p, s) is the first half of Channel.Update up to the point where  *)
(* it waits for the response, holding machMtx; the Recv... actions and     *)
(* DiscardProposed are its second half.  HandleUpdateAcc is handleUpdateReq *)
(* with a user that accepts, up to the point where the accept message has  *)
(* been handed to the network; EnableNotifyUpdate and DiscardAccepted are  *)
(* the two ways it goes on.                                                *)
(*                                                                         *)
(* msgs holds every message ever sent and is never shrunk.  A message in   *)
(* it may be in transit, queued on the bus, in the relay's response cache, *)
(* lost (never received) or duplicated (received twice: Bus.Publish sends  *)
(* again after an error).  A response is matched by its version only, as   *)
(* the predicate of NewUpdateResRecv does, so a stale one may answer a     *)
(* later proposal of the same version.                                     *)
(***************************************************************************)
EXTENDS Machine, FiniteSets

CONSTANTS
    InitBals,       \* the balances of the funded version 0 state
    Proposals,      \* the states the users of the channel may ask for
    MaxProposals    \* bound: how many different updates are proposed

ASSUME ProtocolAssumption ==
    /\ \E x, y \in Parts : x # y /\ Parts = {x, y}
    /\ InitBals \in Allocation
    /\ Proposals \subseteq State
    /\ MaxProposals \in Nat

VARIABLES
    machine,        \* machine[p]: the channel machine of p
    lock,           \* lock[p]: who holds machMtx of p
    msgs,           \* all messages sent so far
    discarded       \* history: the states p signed, sent and then discarded

vars == <<machine, lock, msgs, discarded>>

Other(p) == CHOOSE q \in Parts : q # p

InitialState == InitState(InitBals)

ReachableStates == {InitialState} \cup Proposals

\* The version 0 state, signed by all, in the Acting phase: what Channel.init
\* and the funding leave behind.
fundedMachine ==
    [phase     |-> "Acting",
     stagingTX |-> NoTX,
     currentTX |-> [state |-> InitialState,
                    sigs  |-> [p \in Parts |-> Sign(p, InitialState)]]]

Message ==
    [type : {"ChannelUpdate"}, from : Parts, actor : Parts, state : State, sig : Sig]
        \cup
    [type : {"ChannelUpdateAcc"}, from : Parts, version : Nat, sig : Sig]
        \cup
    [type : {"ChannelUpdateRej"}, from : Parts, version : Nat, of : State]

msgChannelUpdate(p, s, sig) ==
    [type |-> "ChannelUpdate", from |-> p, actor |-> p, state |-> s, sig |-> sig]
msgChannelUpdateAcc(p, v, sig) ==
    [type |-> "ChannelUpdateAcc", from |-> p, version |-> v, sig |-> sig]
\* The field "of" is history: which state was rejected is not on the wire.
msgChannelUpdateRej(p, s) ==
    [type |-> "ChannelUpdateRej", from |-> p, version |-> s.version, of |-> s]

LockHolder == {"free", "proposing", "accepting"}

Init ==
    /\ machine = [p \in Parts |-> fundedMachine]
    /\ lock = [p \in Parts |-> "free"]
    /\ msgs = {}
    /\ discarded = [p \in Parts |-> {}]

current(p) == machine[p].currentTX.state
staged(p) == machine[p].stagingTX.state

-----------------------------------------------------------------------------
(* The proposer *)

proposalsOf(p) == {m \in msgs : m.type = "ChannelUpdate" /\ m.from = p}

\* Channel.Update: lock, stage, sign, send.  The actor of an update is always
\* its proposer.
Update(p, s) ==
    LET m == Sig_(Update_(machine[p], s), p)
        msg == msgChannelUpdate(p, s, m.stagingTX.sigs[p])
    IN  /\ lock[p] = "free"
        /\ msg \notin msgs =>
             Cardinality(UNION {proposalsOf(q) : q \in Parts}) < MaxProposals
        /\ UpdateAllowed(machine[p], s, p)
        /\ machine' = [machine EXCEPT ![p] = m]
        /\ lock' = [lock EXCEPT ![p] = "proposing"]
        /\ msgs' = msgs \cup {msg}
        /\ UNCHANGED discarded

\* The predicate of the response receiver.
isResponse(p, msg) ==
    /\ msg.type \in {"ChannelUpdateAcc", "ChannelUpdateRej"}
    /\ msg.from = Other(p)
    /\ msg.version = staged(p).version

\* handleUpdateError, and the deferred discard of handleUpdateAcc.
discard(p) ==
    /\ machine' = [machine EXCEPT ![p] = DiscardUpdate(@)]
    /\ lock' = [lock EXCEPT ![p] = "free"]
    /\ discarded' = [discarded EXCEPT ![p] = @ \cup {staged(p)}]
    /\ UNCHANGED msgs

\* The peer accepted: add its signature and enable the update.
RecvAcc(p, msg) ==
    LET m == AddSig(machine[p], Other(p), msg.sig) IN
    /\ lock[p] = "proposing"
    /\ isResponse(p, msg) /\ msg.type = "ChannelUpdateAcc"
    /\ AddSigAllowed(machine[p], Other(p), msg.sig)
    /\ EnableAllowed(m)
    /\ machine' = [machine EXCEPT ![p] = Enable(m)]
    /\ lock' = [lock EXCEPT ![p] = "free"]
    /\ UNCHANGED <<msgs, discarded>>

\* The signature of the accept message is not on the staged state: a stale
\* accept message of the same version.
RecvBadAcc(p, msg) ==
    /\ lock[p] = "proposing"
    /\ isResponse(p, msg) /\ msg.type = "ChannelUpdateAcc"
    /\ ~AddSigAllowed(machine[p], Other(p), msg.sig)
    /\ DiscardAllowed(machine[p])
    /\ discard(p)

RecvRej(p, msg) ==
    /\ lock[p] = "proposing"
    /\ isResponse(p, msg) /\ msg.type = "ChannelUpdateRej"
    /\ DiscardAllowed(machine[p])
    /\ discard(p)

\* Mutant: without a timeout the call waits for a response.
DiscardAnswered(p) ==
    /\ lock[p] = "proposing"
    /\ \E msg \in msgs : isResponse(p, msg)
    /\ DiscardAllowed(machine[p])
    /\ discard(p)

\* The context of the call ended, or Send returned an error.
DiscardProposed(p) ==
    /\ lock[p] = "proposing"
    /\ DiscardAllowed(machine[p])
    /\ discard(p)

-----------------------------------------------------------------------------
(* The responder *)

validTwoPartyUpdate(up, sigIdx) == up.actor = sigIdx

\* What handleUpdateReq checks, with machMtx held, before it asks the user.
isValidRequest(p, msg) ==
    /\ lock[p] = "free"
    /\ msg.type = "ChannelUpdate" /\ msg.from = Other(p)
    /\ CheckUpdate(machine[p], msg.state, msg.actor, msg.sig, msg.from)
    /\ validTwoPartyUpdate(msg, msg.from)

\* handleUpdateAcc up to the sending of the accept message.
HandleUpdateAcc(p, msg) ==
    LET m1 == AddSig(Update_(machine[p], msg.state), msg.from, msg.sig)
        m2 == Sig_(m1, p)
    IN  /\ isValidRequest(p, msg)
        /\ UpdateAllowed(machine[p], msg.state, msg.actor)
        /\ machine' = [machine EXCEPT ![p] = m2]
        /\ lock' = [lock EXCEPT ![p] = "accepting"]
        /\ msgs' = msgs \cup
             {msgChannelUpdateAcc(p, msg.state.version, m2.stagingTX.sigs[p])}
        /\ UNCHANGED discarded

EnableNotifyUpdate(p) ==
    /\ lock[p] = "accepting"
    /\ EnableAllowed(machine[p])
    /\ machine' = [machine EXCEPT ![p] = Enable(@)]
    /\ lock' = [lock EXCEPT ![p] = "free"]
    /\ UNCHANGED <<msgs, discarded>>

\* Send returned an error; the message may have got through nevertheless.
DiscardAccepted(p) ==
    /\ lock[p] = "accepting"
    /\ DiscardAllowed(machine[p])
    /\ discard(p)

HandleUpdateRej(p, msg) ==
    /\ isValidRequest(p, msg)
    /\ msgs' = msgs \cup {msgChannelUpdateRej(p, msg.state)}
    /\ UNCHANGED <<machine, lock, discarded>>

-----------------------------------------------------------------------------
Step(p) ==
    \/ \E s \in Proposals : Update(p, s)
    \/ \E msg \in msgs : \/ RecvAcc(p, msg)
                         \/ RecvBadAcc(p, msg)
                         \/ RecvRej(p, msg)
                         \/ HandleUpdateAcc(p, msg)
                         \/ HandleUpdateRej(p, msg)
    \/ DiscardProposed(p)
    \/ EnableNotifyUpdate(p)
    \/ DiscardAccepted(p)

Next == \E p \in Parts : Step(p)

Spec == Init /\ [][Next]_vars

\* Every call that holds machMtx ends: Update has a context, and accepting an
\* update waits for nothing after the accept message is out.
Fairness ==
    \A p \in Parts : /\ WF_vars(DiscardProposed(p))
                     /\ WF_vars(EnableNotifyUpdate(p) \/ DiscardAccepted(p))

FairSpec == Spec /\ Fairness

-----------------------------------------------------------------------------
(* Properties *)

\* The machines, mutexes and messages have their types.
TypeOK ==
    /\ machine \in [Parts -> MachineType]
    /\ lock \in [Parts -> LockHolder]
    /\ msgs \subseteq Message
    /\ discarded \in [Parts -> SUBSET State]

\* The current transaction of a machine is what the adjudicator is given: it
\* carries a genuine signature of every participant on its state.
FullySigned ==
    \A p, q \in Parts :
        Verify(q, current(p), machine[p].currentTX.sigs[q])

\* Whoever releases machMtx leaves the machine in a phase from which the
\* channel can go on: never in Signing, from which Update is refused.
NotStuckSigning ==
    \A p \in Parts : (machine[p].phase = "Signing") <=> (lock[p] # "free")

\* The states p put its signature on, as far as anybody else can know.
signedBy(p) ==
    {InitialState} \cup
    {m.sig.state : m \in {x \in msgs : x.from = p /\ x.type # "ChannelUpdateRej"}}

assets(s) == Sum(s.bals)

A == INSTANCE AgreedStates
       WITH States <- ReachableStates, s0 <- InitialState, Value <- assets,
            cur <- [p \in Parts |-> current(p)],
            signed <- [p \in Parts |-> signedBy(p)]

\* The protocol implements the abstract one: a participant only moves to a
\* successor of its state, and only when everyone's signature on it is out.
ImplementsAgreedStates == A!Spec

\* Timeouts, lost, late and repeated messages never let the versions of the
\* two machines drift apart by more than one.
VersionGap == A!VersionGap

\* When one party has enabled a final state, the other one cannot be brought
\* past its version, whatever it proposed or accepted before.
FinalIsLast == A!FinalIsLast

\* All updates distribute the same assets.
Conservation == A!Conservation

\* Two machines disagree on a version only if each of them has discarded the
\* state of the other after it had sent its signature (the TODO at the two
\* discarding defers in client/update.go).
DivergenceOnlyAfterDiscard ==
    \A p, q \in Parts :
        current(p).version = current(q).version /\ current(p) # current(q)
            => current(q) \in discarded[p]

\* The balance of a party falls only by an update that it proposed itself.
NoTheft ==
    [][\A p \in Parts :
          current(p)'.bals[p] < current(p).bals[p]
              => \E m \in proposalsOf(p) : m.state = current(p)']_vars

\* machMtx is not held for ever, not even when both propose at the same time
\* and wait for each other.
MutexReleased == \A p \in Parts : lock[p] # "free" ~> lock[p] = "free"
=============================================================================
