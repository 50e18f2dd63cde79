--------------------------- MODULE MCMessageStream ---------------------------
(* One envelope of every message type, and those at the edges: an app that  *)
(* is not registered, a ragged funding agreement, a list as long as its     *)
(* length field can count, a number too long to encode, missing signatures. *)
EXTENDS MessageStream

CONSTANTS c1, c2

MCCalls == {c1, c2}
Env(t, m) == [Sender |-> "alice", Recipient |-> "bob", Type |-> t, Msg |-> m]

Alloc(bals, locked) ==
  [Assets |-> <<"eth">>, Balances |-> bals, Locked |-> locked]
Locked(map) == <<[ID |-> <<"sub">>, Bals |-> <<1>>, IndexMap |-> map]>>
St(v, app, data, alloc) ==
  [ID |-> <<"ch">>, Version |-> v, Allocation |-> alloc, IsFinal |-> v = 2,
   App |-> app, Data |-> data]
Plain == Alloc(<<<<1, 0>>>>, <<>>)
S1 == St(1, NoApp, NoData, Plain)
S2 == St(2, "mock", 7, Alloc(<<<<0, 1>>>>, Locked(<<>>)))
S3 == St(2, "mock", 7, Alloc(<<<<0, 1>>>>, Locked(<<1, 0>>)))
S4 == St(2, "mock", 8, Alloc(<<<<0, 1>>>>, Locked(<<1, 0>>)))
Par == [ChallengeDuration |-> 1, Parts |-> <<"pa", "pb">>, App |-> "pay",
        Nonce |-> 5, LedgerChannel |-> FALSE, VirtualChannel |-> TRUE]
Par2 == [Par EXCEPT !.App = NoApp]

Base(app, agreement) ==
  [ChallengeDuration |-> 1, NonceShare |-> <<"n">>, App |-> app,
   InitData |-> NoData, InitBals |-> Plain, FundingAgreement |-> agreement]
Ledger(app, agreement, peers) ==
  Base(app, agreement) @@ [Participant |-> "pa", Peers |-> peers]
Virtual(parents, maps) ==
  Base("pay", <<<<1, 0>>>>) @@ [Proposer |-> "pa", Peers |-> <<"alice", "bob">>,
    Parents |-> parents, IndexMaps |-> maps]
Update(s) == [State |-> s, ActorIdx |-> 1, Sig |-> "sigA"]
Acc == [ProposalID |-> <<"h">>, NonceShare |-> <<"m">>]

AllEnvelopes == {
  Env("Ping", newPingPongMsg(3)), Env("Shutdown", [Reason |-> 0]),
  Env("Shutdown", [Reason |-> SliceMod]), Env("AuthResponse", <<>>),
  Env("LedgerChannelProposal", Ledger("pay", <<<<0, 1>>>>, <<"alice", "bob">>)),
  Env("LedgerChannelProposal", Ledger("alien", <<<<0, 1>>>>, <<"alice", "bob">>)),
  Env("LedgerChannelProposal", Ledger("pay", <<<<1>>, <<1, 0>>>>, <<"alice", "bob">>)),
  Env("LedgerChannelProposal", Ledger("pay", <<<<0, 300>>>>, <<"alice", "bob">>)),
  Env("LedgerChannelProposal", Ledger("pay", <<<<0, 1>>>>, <<"alice">>)),
  Env("LedgerChannelProposalAcc", Acc @@ [Participant |-> "pb"]),
  Env("SubChannelProposal", Base("pay", <<<<1, 0>>>>) @@ [Parent |-> <<"ch">>]),
  Env("SubChannelProposal", Base("pay", <<<<1, 0>>>>) @@ [Parent |-> <<"ch2">>]),
  Env("SubChannelProposalAcc", Acc),
  Env("VirtualChannelProposal", Virtual(<<<<"ch">>, <<"ch2">>>>, <<<<0, 1>>, <<1, 0>>>>)),
  Env("VirtualChannelProposal", Virtual(<<<<"ch">>>>, <<<<0, 1, 0, 1>>>>)),
  Env("VirtualChannelProposalAcc", Acc @@ [Responder |-> "pb"]),
  Env("ChannelProposalRej", [ProposalID |-> <<"h">>, Reason |-> 2]),
  Env("ChannelUpdate", Update(S1)), Env("ChannelUpdate", Update(S2)),
  Env("ChannelUpdate", Update(S4)),
  Env("VirtualChannelFundingProposal", Update(S2) @@ [Params |-> Par,
      Initial |-> S1, IndexMap |-> <<1, 0>>, Sigs |-> <<NoSig, "sigB">>]),
  Env("VirtualChannelSettlementProposal", Update(S3) @@ [Params |-> Par,
      Final |-> S1, Sigs |-> <<"sigA", "sigB">>]),
  Env("ChannelUpdateAcc", [ChannelID |-> <<"ch">>, Version |-> 1, Sig |-> "sigB"]),
  Env("ChannelUpdateRej", [ChannelID |-> <<"ch">>, Version |-> 1, Reason |-> 1]),
  Env("ChannelSync", [Phase |-> 3, CurrentTX |-> [State |-> S1, Sigs |-> <<"sigA", NoSig>>]]),
  Env("ChannelSync", [Phase |-> 1, CurrentTX |-> [State |-> NoState, Sigs |-> <<>>]])}

\* The second call sends what can be compared with, or follow, the first.
MCEnvelopes == (c1 :> AllEnvelopes) @@ (c2 :> {
  Env("Pong", newPingPongMsg(4)),
  Env("VirtualChannelSettlementProposal", Update(S3) @@ [Params |-> Par2,
      Final |-> S1, Sigs |-> <<"sigA", "sigB">>]),
  Env("SubChannelProposal", Base("pay", <<<<1, 0>>>>) @@ [Parent |-> <<"ch2">>]),
  Env("VirtualChannelProposal", Virtual(<<<<"ch">>, <<"ch2">>>>, <<<<0, 1>>, <<1, 0>>>>))})
=============================================================================
