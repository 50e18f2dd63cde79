----------------------------- MODULE SubChannel -----------------------------
(***************************************************************************)
(* A sub-channel of a ledger channel over its whole life at two clients:   *)
(* it is proposed and funded by an update of the parent, updated,          *)
(* finalised, and settled back into the parent, while the parent is        *)
(* updated, registered and settled as well.                                *)
(*                                                                         *)
(* Every call holds the machine mutexes it holds in the code; a handler of *)
(* a parent update that belongs to the sub-channel is blocked at an update *)
(* interceptor until the proposee's Accept or Settle takes it.  Messages   *)
(* arrive in any order or never; a response that is not read is kept for a *)
(* later receiver of its version.  Signatures are what UpdateProtocol      *)
(* shows: an acceptance names the state it signs.  The chain is external.  *)
(***************************************************************************)
EXTENDS Allocs, FiniteSets

CONSTANTS
  ParentBals, SubBals, \* initial balances of the two channels
  Options,             \* the options of the proposal
  Calls,               \* Calls[p][i]: what the i-th call of p's user may be
  Registers            \* the parties whose watcher registers the parent

VARIABLES
  mach,    \* mach[p][c]: phase and current state of p's machine
  lock,    \* lock[p][c]: the goroutine that holds the machine mutex
  op,      \* op[p][g]: the call goroutine g is in
  handler, \* handler[p]: the handler of a parent update at an interceptor
  ui,      \* ui[p]: the registered update interceptors
  channels,\* channels[p]: the registry
  net,     \* messages
  chain,   \* whether the parent is registered in the adjudicator
  dropped, \* funding updates that the proposee dropped (history)
  calls    \* calls[p]: calls so far

vars == <<mach, lock, op, handler, ui, channels, net, chain, dropped, calls>>

Parties == {1, 2}
Proposer == 1
Proposee == 2
Parent == 0
Sub == 1
Channels == {Parent, Sub}
Goroutines == {"open", "call", "watch"}

ASSUME BalsAssumption == ParentBals \in [1..2 -> Nat] /\ SubBals \in [1..2 -> Nat]
ASSUME CallsAssumption ==
  \A p \in Parties : \A i \in DOMAIN Calls[p] :
    Calls[p][i] \subseteq
      [op : {"update", "settle"}, ch : Channels, kind : {"pay", "final", "all"}]

State(version, bals, locked, final) ==
  [Version |-> version, Assets |-> <<"asset">>, Balances |-> <<bals>>,
   Locked |-> locked, IsFinal |-> final]
InitSub == State(0, SubBals, <<>>, FALSE)

NoOp == [op |-> "none", ch |-> Parent, kind |-> "none", pc |-> "idle",
         next |-> InitSub, ctx |-> TRUE, res |-> "none"]
NoHandler == [pc |-> "none", ui |-> "none", req |-> InitSub, orphan |-> FALSE]

Init ==
  /\ mach = [p \in Parties |-> [c \in Channels |->
       IF c = Parent THEN [phase |-> "Acting", cur |-> State(0, ParentBals, <<>>, FALSE)]
       ELSE [phase |-> "none", cur |-> InitSub]]]
  /\ lock = [p \in Parties |-> [c \in Channels |-> "free"]]
  /\ op = [p \in Parties |-> [g \in Goroutines |-> NoOp]]
  /\ handler = [p \in Parties |-> NoHandler]
  /\ ui = [p \in Parties |-> [fund |-> <<>>, settle |-> <<>>]]
  /\ channels = [p \in Parties |-> {Parent}]
  /\ net = {} /\ chain = FALSE /\ dropped = {}
  /\ calls = [p \in Parties |-> 0]

Peer(p) == 3 - p
SetOp(p, g, o) == op' = [op EXCEPT ![p][g] = o]
Goto(p, g, pc) == SetOp(p, g, [op[p][g] EXCEPT !.pc = pc])
Free(p, c) == lock[p][c] = "free"
TryLock(p, c, g) == Free(p, c) /\ lock' = [lock EXCEPT ![p][c] = g]
UnlockAll(p, g) ==
  lock' = [lock EXCEPT ![p] = [c \in Channels |-> IF @[c] = g THEN "free" ELSE @[c]]]

\* The call returns; its deferred unlocks run.
Return(p, g, res) ==
  /\ SetOp(p, g, [NoOp EXCEPT !.res = res])
  /\ UnlockAll(p, g)

SetPhase(p, cs, phase) ==
  mach' = [mach EXCEPT ![p] =
             [c \in Channels |-> IF c \in cs THEN [@[c] EXCEPT !.phase = phase] ELSE @[c]]]

-----------------------------------------------------------------------------
(* Updates *)

Msg(type, to, c, s) == [type |-> type, to |-> to, ch |-> c, state |-> s]

\* machine.validTransition with an app that allows everything.
validTransition(cur, s) ==
  /\ ~cur.IsFinal /\ s.Version = cur.Version + 1
  /\ AllocationValid(s) /\ AllocationSum(cur) = AllocationSum(s)
CanUpdate(p, c, s) ==
  mach[p][c].phase = "Acting" /\ validTransition(mach[p][c].cur, s)
Enabled(s) == [phase |-> IF s.IsFinal THEN "Final" ELSE "Acting", cur |-> s]

\* updateGeneric: the state is staged, signed and sent; the response is awaited.
updateGeneric(p, g, c, s) ==
  /\ CanUpdate(p, c, s)
  /\ mach' = [mach EXCEPT ![p][c].phase = "Signing"]
  /\ net' = net \cup {Msg("update", Peer(p), c, s)}
  /\ SetOp(p, g, [op[p][g] EXCEPT !.pc = "res", !.next = s])

\* The state that update(cur) has made of cur gets the next version.
updateBy(cur, updated) == [updated EXCEPT !.Version = cur.Version + 1]

\* What the user's calls of UpdateBy propose.
Pay(p, cur) ==
  [cur EXCEPT !.Balances[1][p] = @ - 1, !.Balances[1][Peer(p)] = @ + 1]
Finalise(cur) == [cur EXCEPT !.IsFinal = TRUE]
NextState(p, c, kind) ==
  LET cur == mach[p][c].cur
  IN updateBy(cur, IF kind = "pay" THEN Pay(p, cur) ELSE Finalise(cur))

\* Mutant: the balances are taken from the wrong participants.
fundSubChannelSwapped(cur) ==
  AddSubAlloc([cur EXCEPT !.Balances = Minus(@, <<<<SubBals[2], SubBals[1]>>>>)],
              NewSubAlloc(Sub, BalancesSum(InitSub.Balances), <<>>))

fundSubChannel(cur) ==
  AddSubAlloc([cur EXCEPT !.Balances = Minus(@, InitSub.Balances)],
              NewSubAlloc(Sub, BalancesSum(InitSub.Balances), <<>>))
withdrawSubChannel(cur, sub) ==
  RemoveSubAlloc([cur EXCEPT !.Balances = Plus(@, sub.Balances)], SubAlloc(cur, Sub))

\* The interceptors whose filter matches.
SubChannelFunding(p, s) ==
  /\ ui[p].fund # <<>>
  /\ ~HasSubAlloc(mach[p][Parent].cur, Sub) /\ HasSubAlloc(s, Sub)
  /\ SubAllocEqual(NewSubAlloc(Sub, ui[p].fund[1], <<>>), SubAlloc(s, Sub))
SubChannelSettlement(p, s) ==
  /\ ui[p].settle # <<>>
  /\ HasSubAlloc(mach[p][Parent].cur, Sub) /\ ~HasSubAlloc(s, Sub)
  /\ Plus(mach[p][Parent].cur.Balances, ui[p].settle[1]) = s.Balances
Filter(p, c, s) ==
  IF c # Parent THEN "none"
  ELSE IF SubChannelFunding(p, s) THEN "fund"
  ELSE IF SubChannelSettlement(p, s) THEN "settle" ELSE "none"

validTwoPartyUpdate(p, c, s) == SubAllocsAssertEqual(mach[p][c].cur.Locked, s.Locked)

\* handleUpdateAcc: a final sub-channel update registers its settlement.
handleUpdateAcc(p, c, s) ==
  /\ mach' = [mach EXCEPT ![p][c] = Enabled(s)]
  /\ net' = (net \ {Msg("update", p, c, s)}) \cup {Msg("acc", Peer(p), c, s)}
  /\ ui' = IF c = Sub /\ s.IsFinal THEN [ui EXCEPT ![p].settle = <<s.Balances>>] ELSE ui

\* handleUpdateReq, with the user's answer if no interceptor takes the update.
handleUpdateReq(p, c) ==
  \E m \in net :
    LET s == m.state
        valid == validTransition(mach[p][c].cur, s)
        u == Filter(p, c, s)
        drop == net' = net \ {m} /\ UNCHANGED <<mach, ui>>
    IN /\ m.type = "update" /\ m.to = p /\ m.ch = c
       /\ c \in channels[p] /\ Free(p, c)
       /\ \/ /\ valid /\ u # "none"
             /\ lock' = [lock EXCEPT ![p][c] = "handler"]
             /\ handler' = [handler EXCEPT ![p] =
                              [pc |-> "send", ui |-> u, req |-> s, orphan |-> FALSE]]
             /\ drop /\ UNCHANGED dropped
          \/ /\ valid /\ u = "none" /\ validTwoPartyUpdate(p, c, s)
             /\ \/ mach[p][c].phase = "Acting" /\ handleUpdateAcc(p, c, s)
                \/ mach[p][c].phase # "Acting" /\ drop
                \/ /\ net' = (net \ {m}) \cup {Msg("rej", Peer(p), c, s)}
                   /\ UNCHANGED <<mach, ui>>
             /\ UNCHANGED <<lock, handler, dropped>>
          \/ /\ ~valid \/ (u = "none" /\ ~validTwoPartyUpdate(p, c, s))
             /\ drop /\ UNCHANGED <<lock, handler>>
             /\ dropped' = IF valid THEN dropped \cup {[by |-> p, state |-> s]} ELSE dropped
       /\ UNCHANGED <<op, channels, chain, calls>>

\* Where the call goes on after its update was enabled.
AfterUpdate(o) ==
  CASE o.op = "open" -> "put"
    [] o.op = "settle" -> "withdrawn"
    [] OTHER -> "end"
UpdateOf(o) == IF o.op = "update" THEN o.ch ELSE Parent

\* The response receiver of updateGeneric: any response of the version.  A wrong
\* signature, a rejection and the end of the context discard the update.
RecvResponse(p, g) ==
  LET o == op[p][g]
      c == UpdateOf(o)
      discard == SetPhase(p, {c}, "Acting") /\ Return(p, g, "err")
  IN /\ o.pc = "res"
     /\ \/ \E m \in net :
             /\ m.type \in {"acc", "rej"} /\ m.to = p /\ m.ch = c
             /\ m.state.Version = o.next.Version
             /\ net' = net \ {m}
             /\ \/ /\ m.type = "acc" /\ m.state = o.next
                   /\ mach' = [mach EXCEPT ![p][c] = Enabled(o.next)]
                   /\ Goto(p, g, AfterUpdate(o)) /\ UNCHANGED lock
                \/ (m.type = "rej" \/ m.state # o.next) /\ discard
        \/ ~o.ctx /\ discard /\ UNCHANGED net
     /\ UNCHANGED <<handler, ui, channels, chain, dropped, calls>>

-----------------------------------------------------------------------------
(* Update interceptors *)

\* Release closes the response channel and forgets the interceptor.  A handler
\* that has not handed over its update waits for ever.
Release(p, u) ==
  /\ ui' = [ui EXCEPT ![p][u] = <<>>]
  /\ handler' = [handler EXCEPT ![p].orphan = @ \/ (handler[p].pc = "send" /\ handler[p].ui = u)]

InterceptorOf(o) == IF o.op = "open" THEN "fund" ELSE "settle"

\* awaitSubChannelUpdate: Accept takes the update of the handler and accepts it.
acceptIntercepted(p, g) ==
  LET o == op[p][g]
      u == InterceptorOf(o)
      h == handler[p]
  IN /\ o.pc = "intercept"
     /\ \/ /\ h.pc = "send" /\ h.ui = u /\ ~h.orphan
           /\ \/ /\ mach[p][Parent].phase = "Acting"
                 /\ mach' = [mach EXCEPT ![p][Parent] = Enabled(h.req)]
                 /\ net' = net \cup {Msg("acc", Peer(p), Parent, h.req)}
                 /\ handler' = [handler EXCEPT ![p].pc = "response"]
                 /\ Goto(p, g, "respond") /\ UNCHANGED <<lock, ui>>
              \* accepting fails; Release lets the handler return
              \/ /\ mach[p][Parent].phase # "Acting"
                 /\ ui' = [ui EXCEPT ![p][u] = <<>>]
                 /\ handler' = [handler EXCEPT ![p] = NoHandler]
                 /\ SetOp(p, g, [NoOp EXCEPT !.res = "err"])
                 /\ lock' = [lock EXCEPT ![p] = [c \in Channels |->
                       IF @[c] \in {g, "handler"} THEN "free" ELSE @[c]]]
                 /\ UNCHANGED <<mach, net>>
        \/ /\ ~o.ctx /\ Release(p, u) /\ Return(p, g, "err")
           /\ UNCHANGED <<mach, net>>
     /\ UNCHANGED <<channels, chain, dropped, calls>>

\* The handler gets the response and returns.
respondIntercepted(p, g) ==
  /\ op[p][g].pc = "respond"
  /\ handler' = [handler EXCEPT ![p] = NoHandler]
  /\ lock' = [lock EXCEPT ![p][Parent] = IF @ = "handler" THEN "free" ELSE @]
  /\ ui' = [ui EXCEPT ![p][InterceptorOf(op[p][g])] = <<>>]
  /\ Goto(p, g, AfterUpdate(op[p][g]))
  /\ UNCHANGED <<mach, channels, net, chain, dropped, calls>>

-----------------------------------------------------------------------------
(* Opening *)

Msgs == INSTANCE ProposalMsgs WITH NilAddr <- "nil", StateApps <- {"noApp"}

InitBals == [Assets |-> InitSub.Assets, Balances |-> InitSub.Balances, Locked |-> <<>>]
Prop ==
  Msgs!NewSubChannelProposal(
    Msgs!makeBaseChannelProposal(1, InitBals, Options, "random"), Parent)

\* The parent is locked by the caller.
validSubChannelProposal(p) ==
  /\ Msgs!Valid(Prop)
  /\ Msgs!validSubChannelProposal(Prop, mach[p][Parent].cur)

\* ProposeChannel locks the parent, checks and sends the proposal.
ProposeChannel ==
  /\ op[Proposer]["open"] = NoOp
  /\ Msgs!CanMakeSub(Options)
  /\ TryLock(Proposer, Parent, "open")
  /\ validSubChannelProposal(Proposer)
  /\ net' = net \cup {Msg("proposal", Proposee, Sub, InitSub)}
  /\ SetOp(Proposer, "open", [NoOp EXCEPT !.op = "open", !.pc = "await"])
  /\ UNCHANGED <<mach, handler, ui, channels, chain, dropped, calls>>

\* The proposal handler runs with the parent locked.  The user rejects, or
\* accepts in this goroutine or in another one.
handleChannelProposal ==
  \E m \in net :
    /\ m.type = "proposal" /\ Free(Proposee, Parent)
    /\ \/ /\ validSubChannelProposal(Proposee)
          /\ net' = net \ {m}
          /\ SetOp(Proposee, "open", [NoOp EXCEPT !.op = "open", !.pc = "accept"])
          /\ lock' = lock \/ lock' = [lock EXCEPT ![Proposee][Parent] = "open"]
       \/ /\ validSubChannelProposal(Proposee)
          /\ net' = (net \ {m}) \cup {Msg("proposalRej", Proposer, Sub, InitSub)}
          /\ UNCHANGED <<op, lock>>
       \/ /\ ~validSubChannelProposal(Proposee)
          /\ net' = net \ {m} /\ UNCHANGED <<op, lock>>
    /\ UNCHANGED <<mach, handler, ui, channels, chain, dropped, calls>>

\* acceptChannelProposal sends the acceptance, the proposer reads the answer.
acceptChannelProposal ==
  /\ op[Proposee]["open"].pc = "accept"
  /\ net' = net \cup {Msg("proposalAcc", Proposer, Sub, InitSub)}
  /\ Goto(Proposee, "open", "complete")
  /\ UNCHANGED <<mach, lock, handler, ui, channels, chain, dropped, calls>>
proposeTwoPartyChannel ==
  /\ op[Proposer]["open"].pc = "await"
  /\ \/ \E m \in net :
          /\ net' = net \ {m}
          /\ \/ m.type = "proposalAcc" /\ Goto(Proposer, "open", "complete") /\ UNCHANGED lock
             \/ m.type = "proposalRej" /\ Return(Proposer, "open", "err")
     \/ ~op[Proposer]["open"].ctx /\ Return(Proposer, "open", "err") /\ UNCHANGED net
  /\ UNCHANGED <<mach, handler, ui, channels, chain, dropped, calls>>

\* Mutant: the proposee does not register the interceptor here.
completeCPPLate(p) ==
  /\ op[p]["open"].pc = "complete"
  /\ mach' = [mach EXCEPT ![p][Sub].phase = "InitSigning"]
  /\ net' = net \cup {Msg("sig0", Peer(p), Sub, InitSub)}
  /\ Goto(p, "open", "sigs")
  /\ UNCHANGED <<lock, handler, ui, channels, chain, dropped, calls>>

\* completeCPP: the channel is created, the proposee registers the funding
\* interceptor, the initial signature is sent.
completeCPP(p) ==
  /\ op[p]["open"].pc = "complete"
  /\ mach' = [mach EXCEPT ![p][Sub].phase = "InitSigning"]
  /\ ui' = IF p = Proposee THEN [ui EXCEPT ![p].fund = <<BalancesSum(InitSub.Balances)>>] ELSE ui
  /\ net' = net \cup {Msg("sig0", Peer(p), Sub, InitSub)}
  /\ Goto(p, "open", "sigs")
  /\ UNCHANGED <<lock, handler, channels, chain, dropped, calls>>

\* Mutant: the signature of the peer is not awaited.
initExchangeSigsUnsigned(p) ==
  /\ op[p]["open"].pc = "sigs"
  /\ Goto(p, "open", "fund")
  /\ UNCHANGED <<mach, net, lock, handler, ui, channels, chain, dropped, calls>>

initExchangeSigsAndEnable(p) ==
  /\ op[p]["open"].pc = "sigs"
  /\ \/ /\ Msg("sig0", p, Sub, InitSub) \in net
        /\ net' = net \ {Msg("sig0", p, Sub, InitSub)}
        /\ mach' = [mach EXCEPT ![p][Sub].phase = "Funding"]
        /\ Goto(p, "open", "fund") /\ UNCHANGED lock
     \* the registered interceptor stays when this fails
     \/ ~op[p]["open"].ctx /\ Return(p, "open", "err") /\ UNCHANGED <<mach, net>>
  /\ UNCHANGED <<handler, ui, channels, chain, dropped, calls>>

\* fundSubchannel: the proposer updates the parent, the proposee awaits it.
fundSubchannel(p) ==
  LET cur == mach[p][Parent].cur
      s == updateBy(cur, fundSubChannel(cur))
  IN /\ op[p]["open"].pc = "fund"
     /\ \/ p = Proposer /\ updateGeneric(p, "open", Parent, s) /\ UNCHANGED lock
        \/ /\ p = Proposer /\ ~CanUpdate(p, Parent, s) /\ Return(p, "open", "err")
           /\ UNCHANGED <<mach, net>>
        \/ p = Proposee /\ Goto(p, "open", "intercept") /\ UNCHANGED <<mach, net, lock>>
     /\ UNCHANGED <<handler, ui, channels, chain, dropped, calls>>

completeFunding(p) ==
  /\ op[p]["open"].pc = "put"
  /\ SetPhase(p, {Sub}, "Acting")
  /\ channels' = [channels EXCEPT ![p] = @ \cup {Sub}]
  /\ Return(p, "open", "nil")
  /\ UNCHANGED <<handler, ui, net, chain, dropped, calls>>

-----------------------------------------------------------------------------
(* Calls of the user, and of the watcher *)

Begin(p, g, o) == SetOp(p, g, [NoOp EXCEPT !.op = o.op, !.ch = o.ch, !.kind = o.kind, !.pc = "lock"])

UserCall(p) ==
  \E o \in UNION {Calls[p][i] : i \in DOMAIN Calls[p] \cap {calls[p] + 1}} :
    /\ op[p]["call"].pc = "idle" /\ o.ch \in channels[p]
    /\ calls' = [calls EXCEPT ![p] = @ + 1]
    /\ Begin(p, "call", o)
    /\ UNCHANGED <<mach, lock, handler, ui, channels, net, chain, dropped>>
\* Watch saw an older state registered, or the user disputes: Register.
Watch(p) ==
  /\ p \in Registers /\ op[p]["watch"] = NoOp
  /\ Begin(p, "watch", [op |-> "register", ch |-> Parent, kind |-> "all"])
  /\ UNCHANGED <<mach, lock, handler, ui, channels, net, chain, dropped, calls>>

\* UpdateBy with the lock taken.
UpdateBy(p) ==
  LET o == op[p]["call"]
      s == NextState(p, o.ch, o.kind)
  IN /\ o.op = "update"
     /\ \/ /\ o.pc = "lock" /\ TryLock(p, o.ch, "call") /\ Goto(p, "call", "locked")
           /\ UNCHANGED <<mach, net>>
        \/ o.pc = "locked" /\ updateGeneric(p, "call", o.ch, s) /\ UNCHANGED lock
        \/ /\ o.pc = "locked" /\ ~CanUpdate(p, o.ch, s)
           /\ Return(p, "call", "err") /\ UNCHANGED <<mach, net>>
        \/ o.pc = "end" /\ Return(p, "call", "nil") /\ UNCHANGED <<mach, net>>
     /\ UNCHANGED <<handler, ui, channels, chain, dropped, calls>>

\* The channels a call on c locks, after c itself: applyToSubChannelsRecursive.
SubChannelsOf(p, c) ==
  IF c = Parent /\ HasSubAlloc(mach[p][Parent].cur, Sub) THEN {Sub} ELSE {}
Tree(p, c) == {c} \cup SubChannelsOf(p, c)

\* Mutant: when a lock fails, the locks that were taken are not released.
tryLockRecursiveKeeps(p, g) ==
  LET o == op[p][g]
  IN /\ o.op \in {"settle", "register"}
     /\ \/ o.pc = "lock" /\ TryLock(p, o.ch, g) /\ Goto(p, g, "lockSub")
        \/ /\ o.pc = "lockSub" /\ SubChannelsOf(p, o.ch) \subseteq channels[p]
           /\ \A c \in SubChannelsOf(p, o.ch) : Free(p, c)
           /\ lock' = [lock EXCEPT ![p] = [c \in Channels |->
                         IF c \in SubChannelsOf(p, o.ch) THEN g ELSE @[c]]]
           /\ Goto(p, g, "locked")
        \/ /\ o.pc = "lockSub" /\ (~o.ctx \/ ~(SubChannelsOf(p, o.ch) \subseteq channels[p]))
           /\ SetOp(p, g, [NoOp EXCEPT !.res = "err"]) /\ UNCHANGED lock
     /\ UNCHANGED <<mach, net, handler, ui, channels, chain, dropped, calls>>

\* Locks are taken one after the other; a sub-channel must be in the registry.
tryLockRecursive(p, g) ==
  LET o == op[p][g]
  IN /\ o.op \in {"settle", "register"}
     /\ \/ o.pc = "lock" /\ TryLock(p, o.ch, g) /\ Goto(p, g, "lockSub")
        \/ /\ o.pc = "lockSub" /\ SubChannelsOf(p, o.ch) \subseteq channels[p]
           /\ \A c \in SubChannelsOf(p, o.ch) : Free(p, c)
           /\ lock' = [lock EXCEPT ![p] = [c \in Channels |->
                         IF c \in SubChannelsOf(p, o.ch) THEN g ELSE @[c]]]
           /\ Goto(p, g, "locked")
        \/ /\ o.pc = "lockSub" /\ (~o.ctx \/ ~(SubChannelsOf(p, o.ch) \subseteq channels[p]))
           /\ Return(p, g, "err")
     /\ UNCHANGED <<mach, net, handler, ui, channels, chain, dropped, calls>>

\* A call that waits for its first lock gives up with its context.
LockTimeout(p) ==
  /\ op[p]["call"].pc = "lock" /\ ~op[p]["call"].ctx
  /\ Return(p, "call", "err")
  /\ UNCHANGED <<mach, net, handler, ui, channels, chain, dropped, calls>>

Register(p) ==
  LET tree == Tree(p, Parent)
  IN /\ op[p]["watch"].op = "register"
     /\ \/ /\ op[p]["watch"].pc = "locked"
           /\ SetPhase(p, tree, "Registering")
           /\ Goto(p, "watch", "tx") /\ UNCHANGED <<lock, chain>>
        \/ /\ op[p]["watch"].pc = "tx"
           /\ \/ /\ chain' = TRUE /\ SetPhase(p, tree, "Registered")
                 /\ Return(p, "watch", "nil")
              \/ Return(p, "watch", "err") /\ UNCHANGED <<mach, chain>>
     /\ UNCHANGED <<net, handler, ui, channels, dropped, calls>>

MayWithdraw(p, c) ==
  mach[p][c].phase \in {"Final", "Registered", "Progressed", "Withdrawing", "Withdrawn"}

\* Settle: the machines of the tree go to Withdrawing, up to one that may not.
SettleLocked(p) ==
  LET o == op[p]["call"]
      cs == {c \in Tree(p, o.ch) : mach[p][c].phase # "Withdrawn"}
      ok == \A c \in cs : MayWithdraw(p, c)
  IN /\ o.op = "settle" /\ o.pc = "locked"
     /\ SetPhase(p, IF ok THEN cs ELSE {c \in cs \cap {o.ch} : MayWithdraw(p, c)},
                 "Withdrawing")
     /\ \/ ok /\ Goto(p, "call", "settle") /\ UNCHANGED lock
        \/ ~ok /\ Return(p, "call", "err")
     /\ UNCHANGED <<net, handler, ui, channels, chain, dropped, calls>>

\* settle: a ledger channel is withdrawn on the chain, ...
settle(p) ==
  /\ op[p]["call"].op = "settle" /\ op[p]["call"].pc = "settle"
  /\ op[p]["call"].ch = Parent
  /\ \/ chain /\ Goto(p, "call", "withdrawn") /\ UNCHANGED lock
     \/ Return(p, "call", "err")
  /\ UNCHANGED <<mach, net, handler, ui, channels, chain, dropped, calls>>

\* ... a sub-channel into its parent, by an update the proposer proposes.  The
\* proposer panics when the parent has no allocation for the sub-channel.
withdrawSubChannelIntoParent(p) ==
  LET o == op[p]["call"]
      sub == mach[p][Sub].cur
      cur == mach[p][Parent].cur
      s == updateBy(cur, withdrawSubChannel(cur, sub))
      fails(res) == Return(p, "call", res) /\ UNCHANGED <<mach, net>>
  IN /\ o.op = "settle" /\ o.ch = Sub
     /\ \/ o.pc = "settle" /\ ~sub.IsFinal /\ fails("err")
        \/ /\ o.pc = "settle" /\ sub.IsFinal /\ p = Proposee
           /\ \/ ui[p].settle # <<>> /\ Goto(p, "call", "intercept") /\ UNCHANGED <<mach, net, lock>>
              \/ ui[p].settle = <<>> /\ fails("err")
        \/ /\ o.pc = "settle" /\ sub.IsFinal /\ p = Proposer
           /\ \/ /\ TryLock(p, Parent, "call") /\ Goto(p, "call", "lockedParent")
                 /\ UNCHANGED <<mach, net>>
              \/ ~o.ctx /\ fails("err")
        \/ /\ o.pc = "lockedParent" /\ HasSubAlloc(cur, Sub)
           /\ \/ updateGeneric(p, "call", Parent, s) /\ UNCHANGED lock
              \/ ~CanUpdate(p, Parent, s) /\ fails("err")
        \/ o.pc = "lockedParent" /\ ~HasSubAlloc(cur, Sub) /\ fails("panic")
     /\ UNCHANGED <<handler, ui, channels, chain, dropped, calls>>

\* All machines of the tree go to Withdrawn; Settle returns.
SettleEnds(p) ==
  LET o == op[p]["call"]
  IN /\ o.op = "settle" /\ o.pc = "withdrawn"
     /\ SetPhase(p, Tree(p, o.ch), "Withdrawn")
     /\ Return(p, "call", "nil")
     /\ UNCHANGED <<net, handler, ui, channels, chain, dropped, calls>>

\* The context of a user's call ends; the watcher's lives as the channel.
CtxDone(p, g) ==
  /\ g # "watch" /\ op[p][g].pc # "idle" /\ op[p][g].ctx
  /\ SetOp(p, g, [op[p][g] EXCEPT !.ctx = FALSE])
  /\ UNCHANGED <<mach, lock, handler, ui, channels, net, chain, dropped, calls>>

-----------------------------------------------------------------------------
Step(p) ==
  \/ \E c \in Channels : handleUpdateReq(p, c)
  \/ completeCPP(p) \/ initExchangeSigsAndEnable(p) \/ fundSubchannel(p)
  \/ completeFunding(p) \/ UpdateBy(p) \/ Register(p) \/ LockTimeout(p)
  \/ SettleLocked(p) \/ settle(p) \/ withdrawSubChannelIntoParent(p)
  \/ SettleEnds(p)
  \/ \E g \in Goroutines :
       \/ RecvResponse(p, g) \/ acceptIntercepted(p, g) \/ respondIntercepted(p, g)
       \/ tryLockRecursive(p, g)

Progress ==
  \/ handleChannelProposal \/ acceptChannelProposal \/ proposeTwoPartyChannel
  \/ \E p \in Parties : Step(p)

Next ==
  \/ Progress \/ ProposeChannel
  \/ \E p \in Parties :
       \/ UserCall(p) \/ Watch(p)
       \/ \E g \in Goroutines : CtxDone(p, g)

\* Goroutines run on, and the contexts of the user's calls have a deadline.
\* Every call has finitely many steps, so the fairness of all is that of each.
Fairness == WF_vars(Progress \/ \E p \in Parties, g \in Goroutines : CtxDone(p, g))
Spec == Init /\ [][Next]_vars /\ Fairness

-----------------------------------------------------------------------------
(* Properties *)

\* What a party can claim of both channels with the states it holds.
Claim(p) ==
  LET cur == mach[p][Parent].cur
  IN cur.Balances[1][p]
       + IF HasSubAlloc(cur, Sub) THEN mach[p][Sub].cur.Balances[1][p] ELSE 0

\* No step lowers what a party can claim of parent and sub-channel together,
\* except a payment it made itself: funds move between the channels in single
\* updates of the parent, under every order of calls, answers and timeouts.  It
\* is said of Calls with which at most one party pays on the parent: if both do,
\* their machines may diverge after discards, and since the filter of the funding
\* interceptor looks at the sub-allocation only, the proposee then accepts the
\* funding with the balances of the other state.
ClaimKept ==
  [][\A p \in Parties :
       Claim(p)' >= Claim(p)
         \/ (op[p]["call"].kind = "pay" /\ op[p]["call"].pc = "res")]_vars

\* Funds are locked in the parent only for a sub-channel whose initial state is
\* signed by both, and as much as the sub-channel distributes, so that the
\* parent can be registered and settled with it.
LockedIsBacked ==
  \A p \in Parties :
    LET cur == mach[p][Parent].cur
    IN HasSubAlloc(cur, Sub) =>
         /\ mach[p][Sub].phase \notin {"none", "InitSigning"}
         /\ SubAlloc(cur, Sub).Bals = BalancesSum(mach[p][Sub].cur.Balances)

\* While it opens the sub-channel, the proposee never drops an update that locks
\* the funds: it cannot overtake the registration of the interceptor, although
\* messages overtake each other.  An opening that has failed may drop it.
FundingNotDropped ==
  \A d \in dropped :
    d.by = Proposee /\ HasSubAlloc(d.state, Sub) => op[Proposee]["open"].res # "none"

\* As long as a machine mutex is held by anything but a handler that waits at an
\* interceptor, some goroutine can go on or a context can end, although Settle
\* of the sub-channel locks it before the parent and Register and Settle of the
\* parent lock them the other way round.  Calls have finitely many steps, so no
\* mutex is held for ever but at an interceptor.
LocksReleased ==
  \/ \A p \in Parties, c \in Channels :
       Free(p, c) \/ (lock[p][c] = "handler" /\ handler[p].pc = "send")
  \/ ENABLED (Progress \/ \E p \in Parties, g \in Goroutines : CtxDone(p, g))
=============================================================================
