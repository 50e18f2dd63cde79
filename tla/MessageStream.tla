--------------------------- MODULE MessageStream ---------------------------
(***************************************************************************)
(* An endpoint (wire/net/endpoint.go) sending envelopes over a connection  *)
(* (wire/net/ioconn.go) to the receive loop of the other side.  Several    *)
(* goroutines call Endpoint.Send; the encoder writes to the connection     *)
(* value by value, so a send can be cut off, by an encoding error, by a    *)
(* context that ends or by a connection that is closed, with part of its   *)
(* envelope already on the stream.                                         *)
(*                                                                         *)
(* The second half compares what was received: the Equal methods, the      *)
(* proposal identifiers and the conversion to and from the contracts' ABI. *)
(***************************************************************************)
EXTENDS Codec

CONSTANTS
  Calls,      \* the calls of Endpoint.Send, one per goroutine
  Envelopes,  \* Envelopes[c]: what call c may send
  NoCall,     \* nobody: the owner of a free mutex
  MayFail     \* whether contexts end and connections are closed

VARIABLES
  sending,   \* holder of the endpoint's mutex
  call,      \* call[c].pc, the envelope and the tokens still to write
  stream,    \* tokens written and not yet read
  closed,    \* the connection is closed
  written,   \* envelopes written completely, in order (history)
  received,  \* envelopes handed to the consumer, in order
  loop       \* receive loop: "running", or how it ended

vars == <<sending, call, stream, closed, written, received, loop>>

Idle == [pc |-> "idle"]

Init ==
  /\ sending = NoCall
  /\ call = [c \in Calls |-> Idle]
  /\ stream = <<>>
  /\ closed = FALSE
  /\ written = <<>>
  /\ received = <<>>
  /\ loop = "running"

-----------------------------------------------------------------------------
(* Endpoint.Send *)

\* What ioConn.Send writes for each envelope.
Encoding == [e \in UNION {Envelopes[c] : c \in Calls} |-> EnvelopeEnc(e)]

\* A caller arrives with an envelope and waits for the mutex.
Send(c, e) ==
  /\ call[c].pc = "idle"
  /\ call' = [call EXCEPT ![c] = [pc |-> "locking", env |-> e]]
  /\ UNCHANGED <<sending, stream, closed, written, received, loop>>

\* The mutex is taken and the sending goroutine is started.
Lock(c) ==
  /\ call[c].pc = "locking" /\ sending = NoCall
  /\ sending' = c
  /\ LET enc == Encoding[call[c].env]
     IN call' = [call EXCEPT ![c] = [pc |-> "writing", env |-> call[c].env,
                                     todo |-> enc.out, err |-> enc.err]]
  /\ UNCHANGED <<stream, closed, written, received, loop>>

\* TryLockCtx failed: the endpoint is closed.
LockFails(c) ==
  /\ MayFail
  /\ call[c].pc = "locking"
  /\ closed' = TRUE
  /\ call' = [call EXCEPT ![c] = [pc |-> "failed", env |-> call[c].env]]
  /\ UNCHANGED <<sending, stream, written, received, loop>>

\* The context ends first: Send closes the endpoint and returns, while the
\* goroutine goes on and keeps the mutex.
CtxDone(c) ==
  /\ MayFail
  /\ call[c].pc = "writing"
  /\ closed' = TRUE
  /\ call' = [call EXCEPT ![c].pc = "abandoned"]
  /\ UNCHANGED <<sending, stream, written, received, loop>>

\* How many of the n values left are written before anybody else moves.
Cuts(n) == {k \in {n \div 2, n} : k \in 1..n}

\* ioConn.Send: writes of the encoder; they fail on a closed connection.
\* After the last value an encoding error closes the connection.
Write(c) ==
  /\ call[c].pc \in {"writing", "abandoned"} /\ sending = c
  /\ LET todo == call[c].todo
         Returns(pc) == /\ sending' = NoCall
                        /\ call' = [call EXCEPT ![c] =
                             [pc |-> IF call[c].pc = "abandoned" THEN "failed" ELSE pc,
                              env |-> call[c].env]]
     IN \/ closed /\ Returns("failed") /\ UNCHANGED <<stream, closed, written>>
        \/ /\ ~closed
           /\ \E n \in Cuts(Len(todo)) :
                /\ stream' = stream \o SubSeq(todo, 1, n)
                /\ IF n < Len(todo) \/ call[c].err
                   THEN /\ call' = [call EXCEPT ![c].todo = SubSeq(todo, n+1, Len(todo))]
                        /\ UNCHANGED <<sending, closed, written>>
                   ELSE /\ Returns("sent")
                        /\ written' = Append(written, call[c].env)
                        /\ UNCHANGED closed
        \/ /\ ~closed /\ todo = <<>> /\ call[c].err
           /\ closed' = TRUE
           /\ Returns("failed")
           /\ UNCHANGED <<stream, written>>
  /\ UNCHANGED <<received, loop>>

-----------------------------------------------------------------------------
(* The other side: Endpoint.recvLoop and ioConn.Recv *)

\* One envelope, or an error that closes the connection, or the end of the
\* stream; otherwise the reader waits.
recvLoop ==
  /\ loop = "running"
  /\ \E d \in {EnvelopeDec(stream)} :
        \/ /\ d.st = "ok"
           /\ received' = Append(received, d.val)
           /\ stream' = d.rest
           /\ UNCHANGED <<closed, loop>>
        \/ /\ d.st = "err" \/ (d.st = "short" /\ closed)
           /\ loop' = IF d.st = "err" THEN "failed" ELSE "eof"
           /\ closed' = TRUE
           /\ stream' = <<>>
           /\ UNCHANGED received
  /\ UNCHANGED <<sending, call, written>>

\* Either side closes the endpoint; the network may drop what it still holds.
Close ==
  /\ MayFail
  /\ closed' = TRUE
  /\ \E n \in {Len(stream) \div 2, Len(stream)} : stream' = SubSeq(stream, 1, n)
  /\ UNCHANGED <<sending, call, written, received, loop>>

Terminated ==
  /\ \A c \in Calls : call[c].pc \in {"sent", "failed"}
  /\ UNCHANGED vars

Next ==
  \/ \E c \in Calls : (\E e \in Envelopes[c] : Send(c, e)) \/ Lock(c) \/ LockFails(c)
                        \/ CtxDone(c) \/ Write(c)
  \/ recvLoop \/ Close \/ Terminated

\* Goroutines and the receive loop keep running; nothing makes a caller call.
Fairness ==
  /\ \A c \in Calls : WF_vars(Lock(c)) /\ WF_vars(Write(c))
  /\ WF_vars(recvLoop)
Spec == Init /\ [][Next]_vars /\ Fairness

-----------------------------------------------------------------------------
(* Comparing values: channel.State.Equal and below *)

\* Equal lengths and equal values at every index.
AppShouldEqual(a, b) == a = b
EqualEncoding(x, y) == x.err = FALSE /\ y.err = FALSE /\ x.out = y.out
StateEqual(s, t) ==
  /\ s.ID = t.ID /\ s.Version = t.Version
  /\ AppShouldEqual(s.App, t.App)
  /\ AllocationEqual(s.Allocation, t.Allocation)
  /\ EqualEncoding(DataEnc(s.App, s.Data), DataEnc(t.App, t.Data))
  /\ s.IsFinal = t.IsFinal

-----------------------------------------------------------------------------
(* Proposal identifiers: the hash is modelled by what is hashed. *)

BaseProposalID(p) == BaseChannelProposalEnc(p).out
LedgerProposalID(p) ==
  EncodeAll(<<BaseChannelProposalEnc(p), Addr(p.Participant), Each(Addr, p.Peers)>>).out
\* Mutant: the parent is not hashed.
SubProposalIDNoParent(p) == BaseProposalID(p)
SubProposalID(p) == EncodeAll(<<BaseChannelProposalEnc(p), B32(p.Parent)>>).out
\* A virtual channel proposal has the identifier of its base.
ProposalID(e) ==
  CASE e.Type = "LedgerChannelProposal" -> LedgerProposalID(e.Msg)
    [] e.Type = "SubChannelProposal" -> SubProposalID(e.Msg)
    [] e.Type = "VirtualChannelProposal" -> BaseProposalID(e.Msg)

-----------------------------------------------------------------------------
(* backend/ethereum/channel: states as the contracts see them *)

Identity(n) == [i \in 1..n |-> i - 1]

\* Mutant: the locked funds are not registered.
ToEthStateNoLocked(s) ==
  [ChannelID |-> s.ID, Version |-> s.Version,
   Outcome |-> [Assets |-> s.Allocation.Assets, Balances |-> s.Allocation.Balances,
                Locked |-> <<>>],
   AppData |-> DataEnc(s.App, s.Data).out, IsFinal |-> s.IsFinal]

\* An empty index map becomes the identity; the app is not part of the state.
ToEthState(s) ==
  [ChannelID |-> s.ID, Version |-> s.Version,
   Outcome |-> [Assets |-> s.Allocation.Assets, Balances |-> s.Allocation.Balances,
                Locked |-> [i \in DOMAIN s.Allocation.Locked |->
                  LET l == s.Allocation.Locked[i]
                  IN [ID |-> l.ID, Balances |-> l.Bals,
                      IndexMap |-> IF l.IndexMap = <<>>
                                   THEN Identity(NumParts(s.Allocation))
                                   ELSE l.IndexMap]]],
   AppData |-> DataEnc(s.App, s.Data).out, IsFinal |-> s.IsFinal]

FromEthState(app, s) ==
  [ID |-> s.ChannelID, Version |-> s.Version,
   Allocation |-> [Assets |-> s.Outcome.Assets, Balances |-> s.Outcome.Balances,
                   Locked |-> [i \in DOMAIN s.Outcome.Locked |->
                     [ID |-> s.Outcome.Locked[i].ID,
                      Bals |-> s.Outcome.Locked[i].Balances,
                      IndexMap |-> s.Outcome.Locked[i].IndexMap]]],
   Data |-> DataDec(app, s.AppData).val,
   IsFinal |-> s.IsFinal]

\* No app becomes the zero address.
ToEthParams(p) ==
  [ChallengeDuration |-> p.ChallengeDuration, Nonce |-> p.Nonce,
   App |-> IF p.App = NoApp THEN "zeroAddress" ELSE p.App,
   Participants |-> p.Parts, LedgerChannel |-> p.LedgerChannel,
   VirtualChannel |-> p.VirtualChannel]

\* A hash, and a signature on it, is modelled by what goes into it.
CalcID(p) == ToEthParams(p)
Sign(acc, s) == [acc |-> acc, on |-> ToEthState(s)]
Verify(addr, s, sig) ==
  /\ AllocationValid(s.Allocation)
  /\ sig = [acc |-> addr, on |-> ToEthState(s)]

-----------------------------------------------------------------------------
(* Properties *)

Ragged(b) == \E i \in DOMAIN b : Len(b[i]) # Len(b[1])
Proposals == {"LedgerChannelProposal", "SubChannelProposal", "VirtualChannelProposal"}

\* What the encoder accepts although the decoder cannot read it: a funding
\* agreement with rows of different lengths, an index map or a list whose
\* length does not fit its length field, and an app the receiver does not know.
Undecodable(e) ==
  \/ /\ e.Type \in Proposals
     /\ \/ Ragged(e.Msg.FundingAgreement)
        \/ e.Msg.App \notin StateApps \cup {NoApp}
  \/ /\ e.Type = "VirtualChannelProposal"
     /\ \/ Len(e.Msg.Peers) >= SliceMod
        \/ \E i \in DOMAIN e.Msg.IndexMaps : Len(e.Msg.IndexMaps[i]) >= SliceMod
  \/ /\ e.Type = "ChannelUpdate"
     /\ \E i \in DOMAIN e.Msg.State.Allocation.Locked :
          Len(e.Msg.State.Allocation.Locked[i].IndexMap) >= SliceMod

UndecodableSent == \E c \in Calls : call[c].pc # "idle" /\ Undecodable(call[c].env)

\* The consumer gets the envelopes that were sent, each once, unchanged and
\* in the order in which the senders held the mutex, and never one that was
\* written in part only; unless an envelope was sent that the encoder accepts
\* and the decoder cannot read (Undecodable).
InSync == IsPrefix(received, written) \/ UndecodableSent

\* An envelope for which Send returned nil reaches the consumer, unless the
\* connection is closed or it was undecodable.
SentIsReceived ==
  \A c \in Calls : call[c].pc = "sent" ~>
    \/ closed \/ UndecodableSent
    \/ \E i \in DOMAIN received : call[c].pc = "sent" /\ received[i] = call[c].env

StatesOf(e) ==
  CASE e.Type = "ChannelUpdate" -> {e.Msg.State}
    [] e.Type = "VirtualChannelFundingProposal" -> {e.Msg.State, e.Msg.Initial}
    [] e.Type = "VirtualChannelSettlementProposal" -> {e.Msg.State, e.Msg.Final}
    [] e.Type = "ChannelSync" -> {e.Msg.CurrentTX.State} \ {NoState}
    [] OTHER -> {}
ReceivedStates == UNION {StatesOf(received[i]) : i \in DOMAIN received}
ReceivedParams ==
  {received[i].Msg.Params : i \in {j \in DOMAIN received : received[j].Type \in
     {"VirtualChannelFundingProposal", "VirtualChannelSettlementProposal"}}}

DropMaps(s) ==
  [s EXCEPT !.Allocation.Locked =
     [i \in DOMAIN s.Allocation.Locked |->
        [ID |-> s.Allocation.Locked[i].ID, Bals |-> s.Allocation.Locked[i].Bals]]]

\* Proposals with the same ProposalID are the same proposal, for ledger and
\* sub-channel proposals; virtual channel proposals share their base.
SameIDSameProposal ==
  \A i \in DOMAIN received : \A j \in 1..(i-1) :
    LET e == received[i]  f == received[j]
    IN /\ e.Type \in Proposals /\ f.Type \in Proposals
       /\ ProposalID(e) = ProposalID(f)
       => /\ e.Type = f.Type
          /\ e.Type # "VirtualChannelProposal" => e.Msg = f.Msg
          /\ BaseProposalID(e.Msg) = BaseProposalID(f.Msg)

\* A received state that is registered on chain and read back is the same
\* state (State.Equal); a signature on one state is valid for another only if
\* they differ in the app, or in an index map that is left out or written as
\* the identity; and parameters with the same channel id are the same.
ChainKeepsState ==
  /\ \A s \in ReceivedStates :
       StateEqual(FromEthState(s.App, ToEthState(s)) @@ [App |-> s.App], s)
  /\ \A s, t \in ReceivedStates :
       Verify("pa", s, Sign("pa", t)) =>
         DropMaps(s) = [DropMaps(t) EXCEPT !.App = s.App]
  /\ \A p, q \in ReceivedParams : CalcID(p) = CalcID(q) => p = q
=============================================================================
