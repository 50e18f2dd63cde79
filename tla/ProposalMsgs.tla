---------------------------- MODULE ProposalMsgs ----------------------------
(***************************************************************************)
(* The messages of the channel proposal protocol (client/proposalmsgs.go,  *)
(* client/proposalopts.go) as values, with the checks client/proposal.go   *)
(* makes on them.  The bytes they are sent as are in module Codec.         *)
(*                                                                         *)
(* A hash is modelled by what is hashed, so two identifiers are equal      *)
(* exactly when their preimages are.                                       *)
(***************************************************************************)
EXTENDS Allocs

CONSTANTS
  NilAddr,    \* the nil address
  StateApps   \* the apps that are a StateApp or an ActionApp

proposerIdx == 1   \* participants are numbered from 1 here
proposeeIdx == 2

-----------------------------------------------------------------------------
(* Options: a function on the names of the options that were given.         *)

Option(opts, name, default) ==
  IF name \in DOMAIN opts THEN opts[name] ELSE default
isFundingAgreement(opts) == "fundingAgreement" \in DOMAIN opts
isNonce(opts) == "nonce" \in DOMAIN opts

-----------------------------------------------------------------------------
(* Proposals *)

\* An agreement given as an option must have the sums of the balances.
CanMakeBase(initBals, opts) ==
  isFundingAgreement(opts) =>
    EqualSum(initBals.Balances, opts["fundingAgreement"])
makeBaseChannelProposal(duration, initBals, opts, random) ==
  [ChallengeDuration |-> duration,
   NonceShare |-> Option(opts, "nonce", random),
   App |-> Option(opts, "app", "noApp"),
   InitData |-> Option(opts, "appData", "noData"),
   InitBals |-> initBals,
   FundingAgreement |-> Option(opts, "fundingAgreement", initBals.Balances)]

NewLedgerChannelProposal(base, participant, peers) ==
  [type |-> "LedgerChannelProposal", Base |-> base,
   Participant |-> participant, Peers |-> peers]
\* Sub-channels do not support funding agreements.
CanMakeSub(opts) == ~isFundingAgreement(opts)
NewSubChannelProposal(base, parent) ==
  [type |-> "SubChannelProposal", Base |-> base, Parent |-> parent]
NewVirtualChannelProposal(base, participant, peers, parents, indexMaps) ==
  [type |-> "VirtualChannelProposal", Base |-> base, Proposer |-> participant,
   Peers |-> peers, Parents |-> parents, IndexMaps |-> indexMaps]

\* A virtual channel proposal has no ProposalID of its own: the base's is used.
ProposalID(p) ==
  CASE p.type = "LedgerChannelProposal" -> <<p.Base, p.Participant, p.Peers>>
    [] p.type = "SubChannelProposal" -> <<p.Base, p.Parent>>
    [] OTHER -> <<p.Base>>

NumPeers(p) == Len(p.Base.InitBals.Balances[1])
ValidateProposalParameters(duration, numParts, app) ==
  /\ duration # 0
  /\ numParts \in 2..MaxNumParts
  /\ app \in StateApps
BaseValid(p) ==
  /\ ValidateProposalParameters(p.Base.ChallengeDuration, NumPeers(p), p.Base.App)
  /\ AllocationValid(p.Base.InitBals)
  /\ p.Base.InitBals.Locked = <<>>
Valid(p) ==
  BaseValid(p) /\ (p.type = "LedgerChannelProposal" => p.Participant # NilAddr)

-----------------------------------------------------------------------------
(* Answers *)

\* Accept panics without a nonce option, except for virtual channels.
CanAccept(p, opts) == p.type # "VirtualChannelProposal" => isNonce(opts)
AccType(p) ==
  CASE p.type = "LedgerChannelProposal" -> "LedgerChannelProposalAcc"
    [] p.type = "SubChannelProposal" -> "SubChannelProposalAcc"
    [] OTHER -> "VirtualChannelProposalAcc"
Accept(p, participant, opts, random) ==
  [type |-> AccType(p), ProposalID |-> ProposalID(p),
   NonceShare |-> Option(opts, "nonce", random), Participant |-> participant]
Matches(p, acc) == acc.type = AccType(p)
validChannelProposalAcc(p, acc) ==
  Matches(p, acc) /\ ProposalID(p) = acc.ProposalID

\* The channel's participants, nonce and, with them, its identifier.
nonceShares(p, acc) == <<p.Base.NonceShare, acc.NonceShare>>
mpcppParts(p, acc, parentParts) ==
  CASE p.type = "LedgerChannelProposal" -> <<p.Participant, acc.Participant>>
    [] p.type = "SubChannelProposal" -> parentParts
    [] OTHER -> <<p.Proposer, acc.Participant>>
NewParams(p, acc, parentParts) ==
  [ChallengeDuration |-> p.Base.ChallengeDuration,
   Parts |-> mpcppParts(p, acc, parentParts),
   App |-> p.Base.App,
   Nonce |-> nonceShares(p, acc),
   LedgerChannel |-> p.type = "LedgerChannelProposal",
   VirtualChannel |-> p.type = "VirtualChannelProposal"]

-----------------------------------------------------------------------------
(* The checks of both sides; i is the own index, parent the state of the    *)
(* own parent channel.                                                      *)

validTwoParty(p, peers, i, self, peer) ==
  /\ Valid(p)
  /\ NumPeers(p) = Len(peers)
  /\ Len(peers) = 2
  /\ peers[3 - i] = peer
  /\ peers[i] = self

validSubChannelProposal(p, parent) ==
  /\ AssetsAssertEqual(parent.Assets, p.Base.InitBals.Assets)
  /\ AssertGreaterOrEqual(parent.Balances, p.Base.InitBals.Balances)

\* With an unequal funding agreement the error that is returned wraps nil and
\* so is nil: the proposal is valid, and what follows is not checked.
validVirtualChannelProposal(p, i, parent) ==
  /\ Len(p.Parents) = NumPeers(p)
  /\ AssetsAssertEqual(parent.Assets, p.Base.InitBals.Assets)
  /\ \/ ~BalancesAssertEqual(p.Base.InitBals.Balances, p.Base.FundingAgreement)
     \/ /\ Len(p.IndexMaps) = NumPeers(p)
        /\ \A k \in DOMAIN p.IndexMaps[i] : p.IndexMaps[i][k] < NumPeers(p)
        /\ AssertGreaterOrEqual(parent.Balances,
             transformBalances(p.Base.InitBals.Balances, NumParts(parent),
                               p.IndexMaps[i]))
=============================================================================
