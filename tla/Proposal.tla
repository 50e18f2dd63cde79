------------------------------ MODULE Proposal ------------------------------
(***************************************************************************)
(* Opening ledger channels: Client.ProposeChannel on one side, the request *)
(* loop, ProposalResponder.Accept and Reject on the other, then the steps  *)
(* both share (completeCPP, the exchange of the initial signatures,        *)
(* funding, completeFunding), with the two message caches, the channel     *)
(* registry, the wallet's usage counts, Settle, Client.Close and a restart *)
(* with Client.Restore.                                                    *)
(*                                                                         *)
(* A task is one call of ProposeChannel with its proposal Prop(t); two     *)
(* tasks with the same proposal are a retry.  The random nonce share of    *)
(* the acceptance in task n is n.  Messages arrive in any order (an        *)
(* endpoint that is redialled delivers past an older one); a message that  *)
(* is lost is one that is never delivered.                                 *)
(* The funder and the settlement are external: their steps say what the    *)
(* client relies on.                                                       *)
(***************************************************************************)
EXTENDS ProposalMsgs, FiniteSets

CONSTANTS
  Tasks,        \* calls of ProposeChannel, numbered in the order of retries
  Request,      \* Request[t]: what the user proposes in task t
  MaxEvents     \* crashes with Restore, calls of Close and of Settle

VARIABLES
  op,        \* op[t][r]: the opening of task t at proposer (1), proposee (2)
  net,       \* messages in flight
  sigs,      \* sigs[c]: channels whose initial signature of the peer is here
  enabled,   \* version1Cache.enabled
  cache,     \* version1Cache.cache
  handling,  \* handling[c]: goroutines in handleChannelUpdate
  updated,   \* channels for which a version 1 update was sent (history)
  dropped,   \* dropped[c]: those whose version 1 update was dropped
  channels,  \* channels[c]: the registry
  stored,    \* stored[c][id]: persisted phase, or "none"
  signed,    \* <<c, id>>: c has signed the initial state (history)
  deposits,  \* <<c, id>>: c has deposited for the channel
  wallet,    \* wallet[c]: reference count of c's account, -1 once deleted
  settled,   \* settled[c]: channels c has settled
  life,      \* "open", then the steps of Close; "panic" ends the process
  events     \* number of crashes, Close and Settle calls so far

\* A call of ProposeChannel is numbered from 1 and names two clients: the code
\* does not stop a client from proposing a channel to itself.
ASSUME RequestAssumption ==
  /\ Tasks \subseteq Nat \ {0} /\ IsFiniteSet(Tasks)
  /\ \A t \in Tasks : Request[t].peers[1] # Request[t].peers[2]

clientVars == <<channels, stored, wallet, settled, life, events>>
cacheVars == <<enabled, cache, handling, dropped, updated>>
vars == <<op, net, sigs, enabled, cache, handling, dropped, updated,
          channels, stored, signed, deposits, wallet, settled, life, events>>

\* What the user passes is built with makeBaseChannelProposal.
Prop(t) ==
  NewLedgerChannelProposal(
    makeBaseChannelProposal(Request[t].duration, Request[t].bals,
                            Request[t].opts, Request[t].random),
    Request[t].participant, Request[t].peers)
AccOf(n) == Accept(Prop(n), Request[n].responder, [nonce |-> n], n)

Roles == {proposerIdx, proposeeIdx}
Clients == UNION {{Request[t].peers[1], Request[t].peers[2]} : t \in Tasks}
ClientOf(t, r) == Request[t].peers[r]
PeerOf(t, r) == Request[t].peers[3 - r]

\* Params.ID of the channel of Prop(t) and the acceptance n, named by the
\* first acceptance that gives these parameters.
CalcID(t, n) ==
  CHOOSE k \in Tasks : NewParams(Prop(k), AccOf(k), <<>>)
                         = NewParams(Prop(t), AccOf(n), <<>>)

NoOp == [pc |-> "idle", id |-> 0, res |-> "none"]
\* Between enableVer1Cache and releaseVer1Cache.
Opening(o) == o.pc \in {"await", "complete", "sigs", "fund", "funding",
                        "put", "release"}

Init ==
  /\ op = [t \in Tasks |-> [r \in Roles |-> NoOp]]
  /\ net = {}
  /\ sigs = [c \in Clients |-> {}]
  /\ enabled = [c \in Clients |-> 0]
  /\ cache = [c \in Clients |-> {}]
  /\ handling = [c \in Clients |-> {}]
  /\ updated = {}
  /\ dropped = [c \in Clients |-> {}]
  /\ channels = [c \in Clients |-> {}]
  /\ stored = [c \in Clients |-> [id \in Tasks |-> "none"]]
  /\ signed = {}
  /\ deposits = {}
  /\ wallet = [c \in Clients |-> 0]
  /\ settled = [c \in Clients |-> {}]
  /\ life = [c \in Clients |-> "open"]
  /\ events = 0

Runs(c) == life[c] # "panic"
SetOp(t, r, o) == op' = [op EXCEPT ![t][r] = o]
At(t, r, pc) == op[t][r].pc = pc /\ Runs(ClientOf(t, r))
Go(t, r, pc) == SetOp(t, r, [op[t][r] EXCEPT !.pc = pc])
End(t, r, res) == SetOp(t, r, [op[t][r] EXCEPT !.pc = "release", !.res = res])

\* The connection of the client to the bus.
pubMsg(type, n, to) == net' = net \cup {[type |-> type, n |-> n, to |-> to]}

\* newChannel subscribes the channel's connection at the client's relay, which
\* fails once the client is closed.
newChannel(c) == life[c] # "closed"

\* The channel registry.
Has(c, id) == id \in channels[c]
Put(c, id) == channels' = [channels EXCEPT ![c] = @ \cup {id}]
CloseAll(c) == channels' = [channels EXCEPT ![c] = {}]

\* The wallet: an account whose last use ends is deleted, and counting the use
\* of a deleted or unused account panics.
Unlocks(c) == wallet[c] >= 0
IncrementUsage(c) ==
  IF wallet[c] < 0
  THEN life' = [life EXCEPT ![c] = "panic"] /\ UNCHANGED wallet
  ELSE wallet' = [wallet EXCEPT ![c] = @ + 1] /\ UNCHANGED life
DecrementUsage(c) ==
  IF wallet[c] < 1
  THEN life' = [life EXCEPT ![c] = "panic"] /\ UNCHANGED wallet
  ELSE /\ wallet' = [wallet EXCEPT ![c] = IF @ = 1 THEN -1 ELSE @ - 1]
       /\ UNCHANGED life

enableVer1Cache(c) ==
  /\ enabled' = [enabled EXCEPT ![c] = @ + 1]
  /\ UNCHANGED <<cache, handling, dropped, updated>>

-----------------------------------------------------------------------------
(* The proposer *)

\* ProposeChannel up to the wait for the answer.  The user retries a proposal
\* only after the earlier call has returned.
ProposeChannel(t) ==
  /\ At(t, 1, "idle") /\ life[ClientOf(t, 1)] = "open"
  /\ CanMakeBase(Request[t].bals, Request[t].opts)
  /\ \A u \in Tasks : Prop(u) = Prop(t) /\ u < t =>
       op[u][1].pc \in {"ok", "err", "gone"}
  /\ IF validTwoParty(Prop(t), Prop(t).Peers, 1, ClientOf(t, 1), PeerOf(t, 1))
     THEN /\ enableVer1Cache(ClientOf(t, 1))
          /\ \/ /\ Go(t, 1, "await")
                /\ pubMsg("prop", t, PeerOf(t, 1))
             \/ End(t, 1, "err") /\ UNCHANGED net   \* publishing fails
     ELSE Go(t, 1, "err") /\ UNCHANGED <<net, cacheVars>>
  /\ UNCHANGED <<sigs, signed, deposits, clientVars>>

\* The answer goes to every subscribed receiver that waits for this proposal.
RecvAnswer(m) ==
  LET waiting == {t \in Tasks :
        /\ At(t, 1, "await") /\ ClientOf(t, 1) = m.to
        /\ ProposalID(Prop(t)) = ProposalID(Prop(m.n))}
      next(t) ==
        IF m.type = "acc" /\ validChannelProposalAcc(Prop(t), AccOf(m.n))
        THEN [op[t][1] EXCEPT !.pc = "complete", !.id = CalcID(t, m.n)]
        ELSE [op[t][1] EXCEPT !.pc = "release", !.res = "err"]
  IN /\ m \in net /\ m.type \in {"acc", "rej"}
     /\ net' = net \ {m}
     /\ op' = [t \in Tasks |-> IF t \in waiting
                               THEN [op[t] EXCEPT ![1] = next(t)] ELSE op[t]]
     /\ UNCHANGED <<sigs, signed, deposits, cacheVars, clientVars>>

-----------------------------------------------------------------------------
(* The proposee *)

\* Handle and handleChannelProposal: the user's handler is called if the
\* proposal is valid.  A message for a client that is closing is not handled.
handleChannelProposal(m) ==
  LET t == m.n
  IN /\ m \in net /\ m.type = "prop"
     /\ net' = net \ {m}
     /\ IF /\ life[m.to] = "open" /\ op[t][2].pc = "idle"
           /\ validTwoParty(Prop(t), Prop(t).Peers, 2, m.to, PeerOf(t, 2))
        THEN Go(t, 2, "prompt") ELSE UNCHANGED op
     /\ UNCHANGED <<sigs, signed, deposits, cacheVars, clientVars>>

\* The acceptance is sent, or publishing it fails.
handleChannelProposalAcc(t, acc) ==
  /\ validChannelProposalAcc(Prop(t), acc)
  /\ enableVer1Cache(ClientOf(t, 2))
  /\ \/ /\ SetOp(t, 2, [op[t][2] EXCEPT !.pc = "complete", !.id = CalcID(t, t)])
        /\ pubMsg("acc", t, PeerOf(t, 2))
     \/ End(t, 2, "err") /\ UNCHANGED net
  /\ UNCHANGED <<sigs, signed, deposits, clientVars>>

handleChannelProposalRej(t) ==
  /\ Go(t, 2, "err")
  /\ pubMsg("rej", t, PeerOf(t, 2))
  /\ UNCHANGED <<sigs, signed, deposits, cacheVars, clientVars>>

\* The user answers once: a second call of the responder panics.
AcceptProposal(t) ==
  /\ At(t, 2, "prompt")
  /\ CanAccept(Prop(t), [nonce |-> t])
  /\ handleChannelProposalAcc(t, AccOf(t))
RejectProposal(t) ==
  At(t, 2, "prompt") /\ handleChannelProposalRej(t)

-----------------------------------------------------------------------------
(* Both: completeCPP and funding *)

\* The channel is created in phase InitSigning, persisted, and our signature
\* sent; or the id is taken, the account unknown, the client's relay closed,
\* or a write fails.
completeCPP(t, r) ==
  LET c == ClientOf(t, r)
      id == op[t][r].id
  IN /\ At(t, r, "complete")
     /\ \/ /\ ~Has(c, id) /\ Unlocks(c) /\ newChannel(c)
           /\ stored' = [stored EXCEPT ![c][id] = "InitSigning"]
           /\ signed' = signed \cup {<<c, id>>}
           /\ pubMsg("sig", id, PeerOf(t, r))
           /\ Go(t, r, "sigs")
        \/ End(t, r, "err") /\ UNCHANGED <<net, stored, signed>>
     /\ UNCHANGED <<sigs, deposits, cacheVars, channels, wallet,
                    settled, life, events>>

\* Mutant: the channel is funded without waiting for the peer's signature.
exchangeEarly(t, r) ==
  /\ At(t, r, "sigs")
  /\ Go(t, r, "fund")
  /\ UNCHANGED <<net, sigs, signed, deposits, cacheVars, clientVars>>

\* AddSig and EnableInit; a failed send of our signature is reported last.
initExchangeSigsAndEnable(t, r) ==
  LET c == ClientOf(t, r)
      id == op[t][r].id
  IN /\ At(t, r, "sigs") /\ id \in sigs[c]
     /\ stored' = [stored EXCEPT ![c][id] = "Funding"]
     /\ \/ Go(t, r, "fund")
        \/ End(t, r, "err")
     /\ UNCHANGED <<net, sigs, signed, deposits, cacheVars, channels,
                    wallet, settled, life, events>>

\* Initial signatures that come too early are cached.
enableVer0Cache(c) ==
  \E t \in Tasks, r \in Roles : ClientOf(t, r) = c /\ Opening(op[t][r])

\* An initial signature arrives: kept if the channel's connection exists or
\* an opening in progress has enabled the version 0 cache.
RecvSig(m) ==
  LET c == m.to
      here == \/ enableVer0Cache(c)
              \/ \E t \in Tasks, r \in Roles :
                   /\ ClientOf(t, r) = c
                   /\ op[t][r].id = m.n /\ op[t][r].pc \notin {"complete", "gone"}
  IN /\ m \in net /\ m.type = "sig"
     /\ net' = net \ {m}
     /\ sigs' = IF here /\ life[c] \notin {"closed", "panic"}
                THEN [sigs EXCEPT ![c] = @ \cup {m.n}] ELSE sigs
     /\ UNCHANGED <<op, signed, deposits, cacheVars, clientVars>>

Fund(t, r) ==
  /\ At(t, r, "fund")
  /\ deposits' = deposits \cup {<<ClientOf(t, r), op[t][r].id>>}
  /\ Go(t, r, "funding")
  /\ UNCHANGED <<net, sigs, signed, cacheVars, clientVars>>

\* Fund returns when everybody has deposited, or with an error.
FundReturns(t, r) ==
  /\ At(t, r, "funding")
  /\ \/ /\ \A k \in Roles : <<ClientOf(t, k), op[t][r].id>> \in deposits
        /\ Go(t, r, "put")
     \/ End(t, r, "err")
  /\ UNCHANGED <<net, sigs, signed, deposits, cacheVars, clientVars>>

\* completeFunding: SetFunded is persisted, the channel registered, and its
\* account counted; the wallet panics for an account it has deleted.
completeFunding(t, r) ==
  LET c == ClientOf(t, r)
      id == op[t][r].id
  IN /\ At(t, r, "put")
     /\ \/ /\ stored' = [stored EXCEPT ![c][id] = "Acting"]
           /\ Put(c, id)
           /\ \/ Has(c, id) /\ End(t, r, "err") /\ UNCHANGED <<wallet, life>>
              \/ ~Has(c, id) /\ IncrementUsage(c) /\ End(t, r, "ok")
        \/ End(t, r, "err") /\ UNCHANGED <<stored, channels, wallet, life>>
     /\ UNCHANGED <<net, sigs, signed, deposits, cacheVars, settled, events>>

\* Mutant: the first opening that ends disables the cache of the others.
releaseAll(t, r) ==
  LET c == ClientOf(t, r)
  IN /\ At(t, r, "release")
     /\ Go(t, r, op[t][r].res)
     /\ enabled' = [enabled EXCEPT ![c] = 0]
     /\ handling' = [handling EXCEPT ![c] = @ \cup {[id |-> id, at |-> "get"] : id \in cache[c]}]
     /\ cache' = [cache EXCEPT ![c] = {}]
     /\ UNCHANGED <<net, sigs, signed, deposits, dropped, updated,
                    clientVars>>

\* The cached updates are replayed, each by a goroutine.
releaseVer1Cache(t, r) ==
  LET c == ClientOf(t, r)
  IN /\ At(t, r, "release")
     /\ Go(t, r, op[t][r].res)
     /\ enabled' = [enabled EXCEPT ![c] = @ - 1]
     /\ handling' = [handling EXCEPT ![c] = @ \cup {[id |-> id, at |-> "get"] : id \in cache[c]}]
     /\ cache' = [cache EXCEPT ![c] = {}]
     /\ UNCHANGED <<net, sigs, signed, deposits, dropped, updated,
                    clientVars>>

\* The context of the call ends while it waits.
Timeout(t, r) ==
  /\ At(t, r, "await") \/ At(t, r, "sigs") \/ At(t, r, "funding")
  /\ End(t, r, "err")
  /\ UNCHANGED <<net, sigs, signed, deposits, cacheVars, clientVars>>

-----------------------------------------------------------------------------
(* Version 1 updates of the new channel *)

Update(c, id) ==
  /\ id \in channels[c] \ updated /\ stored[c][id] = "Acting" /\ Runs(c)
  /\ updated' = updated \cup {id}
  /\ \E r \in Roles :
       /\ ClientOf(id, r) = c
       /\ pubMsg("upd", id, PeerOf(id, r))
  /\ UNCHANGED <<op, sigs, signed, deposits, enabled, cache, handling, dropped,
                 clientVars>>

\* Handle dispatches the update to a goroutine.
RecvUpdate(m) ==
  /\ m \in net /\ m.type = "upd"
  /\ net' = net \ {m}
  /\ handling' = IF life[m.to] = "open"
                 THEN [handling EXCEPT ![m.to] = @ \cup {[id |-> m.n, at |-> "get"]}]
                 ELSE handling
  /\ UNCHANGED <<op, sigs, enabled, cache, dropped, updated, signed, deposits,
                 clientVars>>

\* handleChannelUpdate: the look-up in the registry.
handleChannelUpdate(c, g) ==
  /\ Runs(c) /\ g \in handling[c] /\ g.at = "get"
  /\ IF Has(c, g.id)
     THEN handling' = [handling EXCEPT ![c] = @ \ {g}]
     ELSE handling' = [handling EXCEPT
            ![c] = (@ \ {g}) \cup {[g EXCEPT !.at = "cache"]}]
  /\ UNCHANGED <<op, net, sigs, enabled, cache, dropped, updated, signed,
                 deposits, clientVars>>

cacheVersion1Update(c, g) ==
  /\ Runs(c) /\ g \in handling[c] /\ g.at = "cache"
  /\ handling' = [handling EXCEPT ![c] = @ \ {g}]
  /\ IF enabled[c] > 0
     THEN cache' = [cache EXCEPT ![c] = @ \cup {g.id}] /\ UNCHANGED dropped
     ELSE dropped' = [dropped EXCEPT ![c] = @ \cup {g.id}] /\ UNCHANGED cache
  /\ UNCHANGED <<op, net, sigs, enabled, updated, signed, deposits, clientVars>>

-----------------------------------------------------------------------------
(* The life of a client *)

\* Settle ends with the removal of the channel and DecrementUsage; the wallet
\* deletes an account whose count falls to 0 and panics below.
Settle(c, id) ==
  /\ Runs(c) /\ Has(c, id) /\ stored[c][id] = "Acting"
  /\ events < MaxEvents /\ events' = events + 1
  /\ stored' = [stored EXCEPT ![c][id] = "none"]
  /\ settled' = [settled EXCEPT ![c] = @ \cup {id}]
  /\ DecrementUsage(c)
  /\ UNCHANGED <<op, net, sigs, signed, deposits, cacheVars, channels>>

\* Close: the request loop ends, then the registered channels are closed and
\* removed, then the connection.
Close(c) ==
  /\ \/ /\ life[c] = "open" /\ life' = [life EXCEPT ![c] = "closing"]
        /\ events < MaxEvents /\ events' = events + 1
        /\ UNCHANGED channels
     \/ /\ life[c] = "closing" /\ life' = [life EXCEPT ![c] = "closedAll"]
        /\ CloseAll(c)
        /\ UNCHANGED events
     \/ /\ life[c] = "closedAll" /\ life' = [life EXCEPT ![c] = "closed"]
        /\ UNCHANGED <<channels, events>>
  /\ UNCHANGED <<op, net, sigs, signed, deposits, cacheVars, stored,
                 wallet, settled>>

\* The process ends anywhere; Restore registers every persisted channel.  The
\* wallet that is opened again has no references.
Restart(c) ==
  /\ events < MaxEvents /\ life[c] \in {"open", "panic"}
  /\ wallet[c] >= 0
  /\ events' = events + 1
  /\ op' = [t \in Tasks |-> [r \in Roles |->
              IF ClientOf(t, r) = c /\ op[t][r].pc # "idle"
              THEN [op[t][r] EXCEPT !.pc = "gone"] ELSE op[t][r]]]
  /\ channels' = [channels EXCEPT ![c] = {id \in Tasks : stored[c][id] # "none"}]
  /\ sigs' = [sigs EXCEPT ![c] = {}]
  /\ enabled' = [enabled EXCEPT ![c] = 0]
  /\ cache' = [cache EXCEPT ![c] = {}]
  /\ handling' = [handling EXCEPT ![c] = {}]
  /\ wallet' = [wallet EXCEPT ![c] = 0]
  /\ life' = [life EXCEPT ![c] = "open"]
  /\ UNCHANGED <<net, signed, deposits, dropped, updated, stored, settled>>

-----------------------------------------------------------------------------
OpStep(t, r) ==
  \/ completeCPP(t, r) \/ initExchangeSigsAndEnable(t, r)
  \/ Fund(t, r) \/ FundReturns(t, r) \/ completeFunding(t, r)
  \/ releaseVer1Cache(t, r) \/ Timeout(t, r)

Deliver ==
  \E m \in net : \/ RecvAnswer(m) \/ handleChannelProposal(m)
                 \/ RecvSig(m) \/ RecvUpdate(m)

Next ==
  \/ \E t \in Tasks : ProposeChannel(t) \/ AcceptProposal(t) \/ RejectProposal(t)
  \/ \E t \in Tasks, r \in Roles : OpStep(t, r)
  \/ Deliver
  \/ \E c \in Clients :
       \/ \E id \in Tasks : Update(c, id) \/ Settle(c, id)
       \/ \E g \in handling[c] : handleChannelUpdate(c, g) \/ cacheVersion1Update(c, g)
       \/ Close(c) \/ Restart(c)

Spec == Init /\ [][Next]_vars

-----------------------------------------------------------------------------
(* Properties *)

\* A client deposits only into a channel whose initial state both parties have
\* signed, and it has both signatures in its database (so that it can settle
\* without the peer), through lost and reordered messages, retries with a late
\* answer to the earlier attempt, and a crash at any point.
FundedIsSigned ==
  \A d \in deposits :
    /\ \A t \in Tasks : CalcID(t, t) = d[2] =>
         \A r \in Roles : <<ClientOf(t, r), d[2]>> \in signed
    /\ stored[d[1]][d[2]] \in {"Funding", "Acting"} \/ d[2] \in settled[d[1]]

\* A version 1 update that overtakes the end of the opening is not dropped
\* while the receiver is still opening that channel: it is cached, and cached
\* again when another opening that ends replays it.
NoUpdateLostWhileOpening ==
  [][\A c \in Clients : \A id \in dropped'[c] \ dropped[c] :
       ~\E t \in Tasks, r \in Roles :
          ClientOf(t, r) = c /\ op[t][r].id = id /\ Opening(op[t][r])]_vars
=============================================================================
