--------------------------- MODULE VirtualChannel ---------------------------
(***************************************************************************)
(* A virtual channel between two clients that only share a hub.  Each end  *)
(* has a ledger channel with the hub, its parent.  An end funds the        *)
(* virtual channel by an update of its parent that locks it there and      *)
(* settles it by one that unlocks it; the hub answers such an update only  *)
(* when the one of the other end matches it, and waits for that with the   *)
(* parent locked and for a limited time.  The hub keeps the virtual        *)
(* channel itself, to withdraw from it after a dispute, and a watcher      *)
(* forces registered states into it.                                       *)
(*                                                                         *)
(* The ends are the participants 1 and 2 of the virtual channel; in a      *)
(* parent the end comes first and the hub second.  Messages may be late or *)
(* lost, every wait may time out, the sends of the hub may fail.  Updates  *)
(* of the virtual channel are taken from UpdateProtocol: both ends enable  *)
(* the state, or the one that accepted it does.  The chain is external.    *)
(***************************************************************************)
EXTENDS Allocs, FiniteSets

CONSTANTS
  ParentBals,  \* ParentBals[e]: balances of the end and the hub
  VirtualBals, \* initial balances of the virtual channel
  Requests,    \* the index maps and the options a proposal may have
  MaxVersion,  \* bound on the version of the virtual channel
  MaxSettles,  \* bound on the calls of Settle per end
  Disputers,   \* the ends that may register the virtual channel
  SendsFail    \* the parents on which a send of the hub may fail

VARIABLES
  parent,  \* parent[e]: phase and state of e's machine of its parent
  virtual, \* virtual[e]: the same for the virtual channel
  prop,    \* the proposal both ends have agreed to (constant in a behaviour)
  op,      \* op[e]: the call e is in
  hub,     \* hub[e]: the hub's state of the parent it shares with e
  handler, \* handler[e]: the hub's handler of an update of that parent
  store,   \* the hub's machine of the virtual channel
  watch,   \* the hub's watcher of the virtual channel
  chain,   \* the registered state of the virtual channel
  net, panicked,
  settles  \* settles[e]: calls of Settle so far

endVars == <<parent, virtual, prop, op, chain, settles>>
hubVars == <<hub, handler, store, watch, panicked>>
vars == <<endVars, hubVars, net>>

Ends == {1, 2}
Other(e) == 3 - e
hubIdx == 2
ID == "virtual"

\* Two participants and one asset; the entries of an index map are unsigned.
ASSUME BalsAssumption ==
  ParentBals \in [Ends -> [1..2 -> Nat]] /\ VirtualBals \in [1..2 -> Nat]
ASSUME MapsAssumption == \A r \in Requests : r.maps \in [Ends -> Seq(Nat)]

State(version, bals, final) ==
  [Version |-> version, Assets |-> <<"asset">>, Balances |-> <<bals>>,
   Locked |-> <<>>, IsFinal |-> final]
InitVirtual == State(0, VirtualBals, FALSE)
NotRegistered == State(-1, VirtualBals, FALSE)
NoHandler == [pc |-> "none", kind |-> "none", req |-> InitVirtual, vstate |-> InitVirtual,
              entry |-> FALSE, matched |-> FALSE, called |-> FALSE]

-----------------------------------------------------------------------------
(* The proposal *)

Msgs == INSTANCE ProposalMsgs WITH NilAddr <- "nil", StateApps <- {"noApp"}

InitBals == [Assets |-> InitVirtual.Assets, Balances |-> InitVirtual.Balances,
             Locked |-> <<>>]
Prop(r) ==
  Msgs!NewVirtualChannelProposal(
    Msgs!makeBaseChannelProposal(1, InitBals, r.opts, "random"),
    "participant", <<"end1", "end2">>, <<1, 2>>, r.maps)

\* A parent is named by the end it belongs to.
proposalParent(p, e) == State(0, ParentBals[p.Parents[e]], FALSE)

\* The proposals that pass the checks of both ends, each with its own parent.
Agreed ==
  {p \in {Prop(r) : r \in {x \in Requests : Msgs!CanMakeBase(InitBals, x.opts)}} :
     /\ Msgs!BaseValid(p)
     /\ \A e \in Ends : Msgs!validVirtualChannelProposal(p, e, proposalParent(p, e))}

\* Where the participants of the virtual channel are in e's parent.
IndexMap(e) == prop.IndexMaps[e]

Init ==
  /\ prop \in Agreed
  /\ parent = [e \in Ends |-> [phase |-> "Acting", cur |-> proposalParent(prop, e)]]
  /\ virtual = [e \in Ends |-> [phase |-> "Funding", cur |-> InitVirtual]]
  /\ op = [e \in Ends |-> [pc |-> "fund", next |-> InitVirtual]]
  /\ hub = [e \in Ends |-> State(0, ParentBals[e], FALSE)]
  /\ handler = [e \in Ends |-> NoHandler]
  /\ store = [in |-> FALSE, phase |-> "none", cur |-> InitVirtual,
              staging |-> InitVirtual, signed |-> FALSE]
  /\ watch = [pc |-> "none", ev |-> NotRegistered]
  /\ chain = NotRegistered
  /\ net = {} /\ panicked = FALSE
  /\ settles = [e \in Ends |-> 0]

Msg(type, e, s, v) == [type |-> type, end |-> e, state |-> s, vstate |-> v]

validTransition(cur, s) ==
  /\ ~cur.IsFinal /\ s.Version = cur.Version + 1
  /\ AllocationValid(s) /\ AllocationSum(cur) = AllocationSum(s)

-----------------------------------------------------------------------------
(* The ends *)

\* updateGeneric: the update is staged and sent with the state v of the virtual
\* channel.
CanUpdate(e, s) == parent[e].phase = "Acting" /\ validTransition(parent[e].cur, s)
updateGeneric(e, type, s, v) ==
  /\ CanUpdate(e, s)
  /\ parent' = [parent EXCEPT ![e].phase = "Signing"]
  /\ net' = net \cup {Msg(type, e, s, v)}
  /\ op' = [op EXCEPT ![e] = [pc |-> type, next |-> s]]

translateBalances(v, indexMap) == transformBalances(v.Balances, NumParts(v), indexMap)

\* The parent is locked since the proposal was checked against its balances.
\* An index map with an entry beyond the participants panics.
proposeVirtualChannelFunding(e) ==
  LET v == virtual[e].cur
      cur == parent[e].cur
      bals == translateBalances(v, IndexMap(e))
      s == AddSubAlloc([cur EXCEPT !.Version = @ + 1, !.Balances = Minus(@, bals)],
                       NewSubAlloc(ID, BalancesSum(bals), IndexMap(e)))
      inRange == \A k \in DOMAIN IndexMap(e) : IndexMap(e)[k] < NumParts(v)
  IN /\ op[e].pc = "fund"
     /\ \/ inRange /\ updateGeneric(e, "funding", s, v)
        \/ /\ ~inRange /\ op' = [op EXCEPT ![e].pc = "panicked"]
           /\ UNCHANGED <<parent, net>>
     /\ UNCHANGED <<hubVars, prop, virtual, chain, settles>>

\* Settle of a final virtual channel.  It may be called again when it failed.
withdrawVirtualChannel(e) ==
  LET v == virtual[e].cur
      cur == parent[e].cur
      l == SubAlloc(cur, ID)
      bals == translateBalances(v, l.IndexMap)
      s == RemoveSubAlloc([cur EXCEPT !.Version = @ + 1, !.Balances = Plus(@, bals)], l)
  IN /\ op[e].pc = "opened" /\ settles[e] < MaxSettles
     /\ virtual[e].phase \in {"Final", "Withdrawing"}
     /\ settles' = [settles EXCEPT ![e] = @ + 1]
     /\ virtual' = [virtual EXCEPT ![e].phase = "Withdrawing"]
     /\ \/ updateGeneric(e, "settlement", s, v)
        \/ ~CanUpdate(e, s) /\ UNCHANGED <<parent, op, net>>
     /\ UNCHANGED <<hubVars, prop, chain>>

\* The response, or the end of the context, which discards the update.
RecvResponse(e) ==
  LET funding == op[e].pc = "funding"
      discard == /\ parent' = [parent EXCEPT ![e].phase = "Acting"]
                 /\ op' = [op EXCEPT ![e].pc = IF funding THEN "failed" ELSE "opened"]
                 /\ UNCHANGED virtual
  IN /\ op[e].pc \in {"funding", "settlement"}
     /\ \/ \E m \in net :
             /\ m.type \in {"acc", "rej"} /\ m.end = e
             /\ m.state.Version = op[e].next.Version
             /\ net' = net \ {m}
             /\ \/ /\ m.type = "acc" /\ m.state = op[e].next
                   /\ parent' = [parent EXCEPT ![e] = [phase |-> "Acting", cur |-> m.state]]
                   /\ op' = [op EXCEPT ![e].pc = IF funding THEN "opened" ELSE "settled"]
                   /\ virtual' = [virtual EXCEPT ![e].phase =
                                    IF funding THEN "Acting" ELSE "Withdrawn"]
                \/ (m.type = "rej" \/ m.state # op[e].next) /\ discard
        \/ discard /\ UNCHANGED net
     /\ UNCHANGED <<hubVars, prop, chain, settles>>

\* An update between the ends: participant 1 pays, or the channel is finalised
\* with or without a payment.
UpdateVirtual ==
  LET cur == virtual[1].cur
  IN /\ \A e \in Ends : op[e].pc = "opened" /\ virtual[e] = [phase |-> "Acting", cur |-> cur]
     /\ cur.Version < MaxVersion
     /\ \E pay \in {0, 1}, final \in BOOLEAN, enabling \in {{1, 2}, {1}, {2}} :
          /\ pay <= cur.Balances[1][1] /\ (final \/ pay = 1)
          /\ virtual' = [e \in Ends |->
               IF e \notin enabling THEN virtual[e]
               ELSE [phase |-> IF final THEN "Final" ELSE "Acting",
                     cur |-> State(cur.Version + 1, <<cur.Balances[1][1] - pay,
                                                      cur.Balances[1][2] + pay>>, final)]]
     /\ UNCHANGED <<hubVars, prop, parent, op, chain, net, settles>>

\* External: an end registers its parent and with it the virtual channel.
Dispute(e) ==
  /\ e \in Disputers /\ op[e].pc = "opened" /\ parent[e].phase = "Acting"
  /\ virtual[e].cur.Version > chain.Version
  /\ chain' = virtual[e].cur
  /\ parent' = [parent EXCEPT ![e].phase = "Registered"]
  /\ UNCHANGED <<hubVars, prop, virtual, op, net, settles>>

-----------------------------------------------------------------------------
(* The hub's answers *)

SetHandler(e, h) == handler' = [handler EXCEPT ![e] = h]
Goto(e, pc) == SetHandler(e, [handler[e] EXCEPT !.pc = pc])

\* Accept of an UpdateResponder (handleUpdateAcc): ok if the acceptance could be
\* sent, otherwise the update is discarded.  A second response panics.
Accept(e, ok) ==
  LET h == handler[e]
  IN /\ ok \/ e \in SendsFail \/ h.called
     /\ panicked' = h.called
     /\ IF ok /\ ~h.called
        THEN /\ hub' = [hub EXCEPT ![e] = h.req]
             /\ net' = net \cup {Msg("acc", e, h.req, InitVirtual)}
        ELSE UNCHANGED <<hub, net>>

rejectProposal(e, next) ==
  LET h == handler[e]
  IN /\ panicked' = h.called
     /\ \/ ~h.called /\ net' = net \cup {Msg("rej", e, h.req, InitVirtual)}
        \/ (h.called \/ e \in SendsFail) /\ UNCHANGED net
     /\ SetHandler(e, [h EXCEPT !.called = TRUE, !.pc = next])

validateVirtualChannelFundingProposal(e, s, v) ==
  /\ v.Locked = <<>> /\ Len(IndexMap(e)) = NumParts(v)
  /\ ~HasSubAlloc(hub[e], ID) /\ HasSubAlloc(s, ID)
  /\ LET l == SubAlloc(s, ID)
     IN /\ SubAllocEqual(l, NewSubAlloc(ID, AllocationSum(v), IndexMap(e)))
        /\ AssetsAssertEqual(hub[e].Assets, v.Assets)
        /\ AssertGreaterOrEqual(hub[e].Balances,
             transformBalances(v.Balances, NumParts(hub[e]), l.IndexMap))

validateVirtualChannelSettlementProposal(e, s, v) ==
  /\ AssetsAssertEqual(hub[e].Assets, v.Assets)
  /\ HasSubAlloc(hub[e], ID) /\ ~HasSubAlloc(s, ID)
  /\ LET l == SubAlloc(hub[e], ID)
     IN /\ SlicesEqual(l.Bals, AllocationSum(v))
        /\ BalancesAssertEqual(s.Balances,
             Plus(hub[e].Balances, transformBalances(v.Balances, NumParts(hub[e]), l.IndexMap)))

\* handleUpdateReq takes the mutex of the parent; an update the machine refuses
\* is dropped, an invalid proposal is rejected and goes on.
handleUpdateReq(e) ==
  \E m \in net :
    /\ m.type \in {"funding", "settlement"} /\ m.end = e
    /\ handler[e].pc = "none"
    /\ net' = net \ {m}
    /\ IF ~validTransition(hub[e], m.state) THEN UNCHANGED handler
       ELSE SetHandler(e, [NoHandler EXCEPT
              !.kind = m.type, !.req = m.state, !.vstate = m.vstate,
              !.pc = IF \/ m.type = "funding"
                            /\ validateVirtualChannelFundingProposal(e, m.state, m.vstate)
                        \/ m.type = "settlement"
                            /\ validateVirtualChannelSettlementProposal(e, m.state, m.vstate)
                     THEN "register" ELSE "invalid"])
    /\ UNCHANGED <<endVars, hub, store, watch, panicked>>

rejectInvalid(e) ==
  /\ handler[e].pc = "invalid"
  /\ rejectProposal(e, "register")
  /\ UNCHANGED <<endVars, hub, store, watch>>

-----------------------------------------------------------------------------
(* The state watchers: one for fundings, one for settlements *)

Matching == {"force", "sign", "enable", "acceptFirst", "acceptSecond", "close"}
WatcherLocked == \E e \in Ends : handler[e].pc \in Matching

\* The mutex of the watcher, and the only entry there can be.
CanLock(e) == handler[e].kind = "settlement" => ~WatcherLocked
Entry(e) == handler[Other(e)].entry /\ handler[Other(e)].kind = handler[e].kind

\* matchFundingProposal: the initial states are equal, the hub stands in for
\* every participant in one of the parents, and the channel is new.
HubCovers == \A j \in DOMAIN IndexMap(1) : \E x \in Ends : IndexMap(x)[j] + 1 = hubIdx
matchFundingProposal(e) ==
  /\ Entry(e) /\ handler[e].vstate = handler[Other(e)].vstate
  /\ HubCovers
  /\ ~store.in

\* persistVirtualChannel, after which the watcher is started.
persistVirtualChannel(v) ==
  /\ store' = [in |-> TRUE, phase |-> "Acting", cur |-> v, staging |-> v, signed |-> FALSE]
  /\ watch' = [pc |-> "next", ev |-> NotRegistered]

\* matchSettlementProposal up to its first change.
matchSettlementProposal(e) ==
  Entry(e) /\ handler[e].vstate = handler[Other(e)].vstate /\ store.in

\* Both wait to be told; the entry is deleted.
Matched(e) ==
  handler' = [x \in Ends |->
    IF x = e THEN [handler[x] EXCEPT !.pc = "await", !.matched = TRUE]
    ELSE [handler[x] EXCEPT !.entry = FALSE, !.matched = TRUE]]
NotMatched(e) == SetHandler(e, [handler[e] EXCEPT !.pc = "await", !.entry = TRUE])

\* Mutant: the entries are not looked at.
registerBlind(e) ==
  /\ handler[e].pc = "register" /\ CanLock(e)
  /\ NotMatched(e) /\ UNCHANGED <<store, watch>>
  /\ UNCHANGED <<endVars, hub, net, panicked>>

\* register: a match found in the funding watcher is complete at once.
register(e) ==
  /\ handler[e].pc = "register" /\ CanLock(e)
  /\ \/ /\ handler[e].kind = "funding" /\ matchFundingProposal(e)
        /\ persistVirtualChannel(handler[e].vstate) /\ Matched(e)
     \/ /\ handler[e].kind = "settlement" /\ matchSettlementProposal(e)
        /\ Goto(e, "force") /\ UNCHANGED <<store, watch>>
     \/ /\ IF handler[e].kind = "funding" THEN ~matchFundingProposal(e)
           ELSE ~matchSettlementProposal(e)
        /\ NotMatched(e) /\ UNCHANGED <<store, watch>>
  /\ UNCHANGED <<endVars, hub, net, panicked>>

\* Steps of ForceUpdate, AddSig and Enable on the hub's machine.
ForceUpdate(s) ==
  store' = [store EXCEPT !.phase = "Signing", !.staging = s, !.signed = FALSE]
CanAddSigs(s) == store.phase = "Signing" /\ store.staging = s /\ ~store.signed
AddSigs == store' = [store EXCEPT !.signed = TRUE]
CanEnable(final) == store.phase = "Signing" /\ store.signed /\ store.staging.IsFinal = final
Enable ==
  store' = [store EXCEPT !.phase = IF store.staging.IsFinal THEN "Final" ELSE "Acting",
                         !.cur = store.staging, !.staging = InitVirtual, !.signed = FALSE]

\* Mutant: the settlement is accepted and the final state not kept.
forceFinalStateSkipped(e) ==
  /\ handler[e].pc = "force"
  /\ Goto(e, "acceptFirst") /\ UNCHANGED store
  /\ UNCHANGED <<endVars, hub, watch, net, panicked>>

\* forceFinalState, without the mutex of the virtual channel.
forceFinalState(e) ==
  LET f == handler[e].vstate
  IN /\ \/ handler[e].pc = "force" /\ ForceUpdate(f) /\ Goto(e, "sign")
        \/ handler[e].pc = "sign" /\ CanAddSigs(f) /\ AddSigs /\ Goto(e, "enable")
        \/ handler[e].pc = "enable" /\ CanEnable(TRUE) /\ Enable /\ Goto(e, "acceptFirst")
        \/ /\ \/ handler[e].pc = "sign" /\ ~CanAddSigs(f)
              \/ handler[e].pc = "enable" /\ ~CanEnable(TRUE)
           /\ NotMatched(e) /\ UNCHANGED store
     /\ UNCHANGED <<endVars, hub, watch, net, panicked>>

\* The parent updates are accepted one after the other: first the one of the
\* handler that found the match, then the one of the entry.
acceptMatched(e, next, x) ==
  \E ok \in BOOLEAN :
    /\ Accept(x, ok)
    /\ handler' = [handler EXCEPT
         ![x].called = TRUE,
         ![e].pc = IF ok THEN next ELSE "await",
         ![e].entry = ~ok]
    /\ UNCHANGED <<endVars, store, watch>>
acceptFirst(e) == handler[e].pc = "acceptFirst" /\ acceptMatched(e, "acceptSecond", e)
acceptSecond(e) == handler[e].pc = "acceptSecond" /\ acceptMatched(e, "close", Other(e))

\* Close, and removal from the registry.  SetWithdrawn expects the phase
\* Withdrawing, its error is not returned: the machine stays Final.
closeVirtual(e) ==
  /\ handler[e].pc = "close"
  /\ store' = [store EXCEPT !.in = FALSE]
  /\ Matched(e)
  /\ UNCHANGED <<endVars, hub, watch, net, panicked>>

\* Await returns because of the match.
awaitMatched(e) ==
  /\ handler[e].pc = "await" /\ handler[e].matched /\ CanLock(e)
  /\ IF handler[e].kind = "funding" THEN Goto(e, "accept") ELSE SetHandler(e, NoHandler)
  /\ UNCHANGED <<endVars, hub, store, watch, net, panicked>>

\* Await returns because of the timeout, even if there is a match as well; the
\* entry stays until deregister has the mutex.
awaitTimeout(e) ==
  /\ handler[e].pc = "await"
  /\ Goto(e, "deregister")
  /\ UNCHANGED <<endVars, hub, store, watch, net, panicked>>
deregister(e) ==
  /\ handler[e].pc = "deregister" /\ CanLock(e)
  /\ SetHandler(e, [handler[e] EXCEPT !.pc = "reject", !.entry = FALSE])
  /\ UNCHANGED <<endVars, hub, store, watch, net, panicked>>

\* The handler of a funding goes on to accept what it rejected.
handlerRejects(e) ==
  /\ handler[e].pc = "reject"
  /\ rejectProposal(e, IF handler[e].kind = "funding" THEN "accept" ELSE "return")
  /\ UNCHANGED <<endVars, hub, store, watch>>
handlerAccepts(e) ==
  /\ handler[e].pc = "accept"
  /\ \E ok \in BOOLEAN : Accept(e, ok)
  /\ Goto(e, "return")
  /\ UNCHANGED <<endVars, store, watch>>
handlerReturns(e) ==
  /\ handler[e].pc = "return"
  /\ SetHandler(e, NoHandler)
  /\ UNCHANGED <<endVars, hub, store, watch, net, panicked>>

-----------------------------------------------------------------------------
(* The hub's watcher of the virtual channel *)

\* An event is compared with the current version before the mutex is taken.
watchVirtual ==
  /\ watch.pc = "next" /\ store.in /\ chain.Version > store.cur.Version
  /\ watch' = [pc |-> "force", ev |-> chain]
  /\ UNCHANGED <<endVars, hub, handler, store, net, panicked>>
pushVirtualUpdate ==
  /\ \/ /\ watch.pc = "force" /\ ForceUpdate(watch.ev)
        /\ watch' = [watch EXCEPT !.pc = "sign"]
     \/ /\ watch.pc = "sign" /\ CanAddSigs(watch.ev) /\ AddSigs
        /\ watch' = [watch EXCEPT !.pc = "enable"]
     \/ /\ watch.pc = "enable" /\ CanEnable(watch.ev.IsFinal) /\ Enable
        /\ watch' = [watch EXCEPT !.pc = "next"]
     \/ /\ \/ watch.pc = "sign" /\ ~CanAddSigs(watch.ev)
           \/ watch.pc = "enable" /\ ~CanEnable(watch.ev.IsFinal)
        /\ watch' = [watch EXCEPT !.pc = "next"] /\ UNCHANGED store
  /\ UNCHANGED <<endVars, hub, handler, net, panicked>>

-----------------------------------------------------------------------------

Hub ==
  /\ ~panicked
  /\ \/ \E e \in Ends :
          \/ handleUpdateReq(e) \/ rejectInvalid(e) \/ register(e) \/ forceFinalState(e)
          \/ acceptFirst(e) \/ acceptSecond(e) \/ closeVirtual(e)
          \/ awaitMatched(e) \/ awaitTimeout(e) \/ deregister(e)
          \/ handlerRejects(e) \/ handlerAccepts(e) \/ handlerReturns(e)
     \/ watchVirtual \/ pushVirtualUpdate
Next ==
  \/ \E e \in Ends : \/ proposeVirtualChannelFunding(e) \/ withdrawVirtualChannel(e)
                     \/ RecvResponse(e) \/ Dispute(e)
  \/ UpdateVirtual
  \/ Hub
Spec == Init /\ [][Next]_vars

-----------------------------------------------------------------------------
(* Properties *)

LockedAt(e) == HasSubAlloc(hub[e], ID)

\* What the hub gets from e's parent if the virtual channel ends in v.
HubGets(e, v) ==
  hub[e].Balances[1][hubIdx]
    + IF LockedAt(e)
      THEN transformBalances(v.Balances, 2, SubAlloc(hub[e], ID).IndexMap)[1][hubIdx]
      ELSE 0

\* The states the virtual channel may end in on chain: the one the hub holds and
\* every newer one that an end holds.
Outcomes ==
  {store.cur} \cup {virtual[e].cur : e \in {x \in Ends : virtual[x].cur.Version > store.cur.Version}}

\* The hub is neutral: whatever is lost, late or timed out, and even if it stops
\* between the two acceptances of virtual_channel.go or of
\* virtual_channel_settlement.go, no outcome of the virtual channel leaves it with
\* less than it brought into its two ledger channels.
HubClaimKept ==
  \A v \in Outcomes :
    HubGets(1, v) + HubGets(2, v) >= ParentBals[1][hubIdx] + ParentBals[2][hubIdx]

\* stateWatcher: two proposals that match are never left waiting for each other
\* until their timeouts.  They may be if the responder of one was used up, or if
\* the watcher of the virtual channel got in between the steps of forceFinalState.
MatchNotMissed ==
  \/ \E e \in Ends : handler[e].called \/ ~handler[e].entry
  \/ handler[1].kind # handler[2].kind \/ handler[1].vstate # handler[2].vstate
  \/ handler[1].kind = "funding" /\ ~HubCovers
  \/ handler[1].kind = "settlement" /\ chain # NotRegistered

\* A responder is used once ("every further call causes a panic").
RespondedOnce == ~panicked
=============================================================================
