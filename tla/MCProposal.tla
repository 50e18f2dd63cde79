----------------------------- MODULE MCProposal -----------------------------
(* Alice proposes one channel to Bob and retries it.                        *)
EXTENDS Proposal

MCBals == [Assets |-> <<"eth">>, Balances |-> <<<<1, 1>>>>, Locked |-> <<>>]
MCRequest ==
  [t \in Tasks |->
     [duration |-> 1, bals |-> MCBals, random |-> 0,
      opts |-> [fundingAgreement |-> <<<<2, 0>>>>, nonce |-> 0],
      participant |-> "pa", peers |-> <<"alice", "bob">>, responder |-> "pb"]]
=============================================================================
