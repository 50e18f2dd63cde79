------------------------ MODULE VirtualChannelProofs ------------------------
(***************************************************************************)
(* Proofs about the hub of a virtual channel, for any balances, index      *)
(* maps, number of updates and of calls of Settle, any end that disputes   *)
(* and any send that fails: the hub is never left with less than it        *)
(* brought in, and two proposals that match do not miss each other.        *)
(***************************************************************************)
EXTENDS VirtualChannel, TLAPS

-----------------------------------------------------------------------------
(* The states a parent goes through at the hub *)

\* Before the funding, and after it with the index map im.
H0(e) == State(0, ParentBals[e], FALSE)
Funded(e, im) ==
  LET bals == translateBalances(InitVirtual, im)
  IN AddSubAlloc([H0(e) EXCEPT !.Version = @ + 1, !.Balances = Minus(@, bals)],
                 NewSubAlloc(ID, BalancesSum(bals), im))
F(e) == Funded(e, IndexMap(e))

\* What the hub gets of v in the place of a participant.
Share(im, v) == transformBalances(v.Balances, 2, im)[1][hubIdx]
FundedBal(e, im) == ParentBals[e][hubIdx] - Share(im, InitVirtual)

\* A state that settles v into e's parent.
Settles(e, im, s, v) ==
  /\ s.Version = 2 /\ ~HasSubAlloc(s, ID)
  /\ s.Balances[1][hubIdx] = FundedBal(e, im) + Share(im, v)
Settling(e, s, v) == Settles(e, IndexMap(e), s, v)

\* A state of the virtual channel: participant 1 has paid something to 2.
IsV(v) ==
  /\ v = State(v.Version, <<v.Balances[1][1], v.Balances[1][2]>>, v.IsFinal)
  /\ v.Version \in Int /\ v.IsFinal \in BOOLEAN
  /\ v.Balances[1][1] \in Int /\ v.Balances[1][2] \in Int
  /\ v.Balances[1][1] + v.Balances[1][2] = VirtualBals[1] + VirtualBals[2]
  /\ v.Balances[1][2] >= VirtualBals[2]

-----------------------------------------------------------------------------
(* The inductive invariant *)

\* The variables are functions and records with the fields the actions use.
EndShape ==
  /\ parent = [e \in Ends |-> [phase |-> parent[e].phase, cur |-> parent[e].cur]]
  /\ virtual = [e \in Ends |-> [phase |-> virtual[e].phase, cur |-> virtual[e].cur]]
  /\ op = [e \in Ends |-> [pc |-> op[e].pc, next |-> op[e].next]]
  /\ \A e \in Ends : IndexMap(e) \in Seq(Nat)
IsHandler(h) ==
  /\ h = [pc |-> h.pc, kind |-> h.kind, req |-> h.req, vstate |-> h.vstate,
          entry |-> h.entry, matched |-> h.matched, called |-> h.called]
  /\ h.entry \in BOOLEAN /\ h.matched \in BOOLEAN /\ h.called \in BOOLEAN
HandlerShape ==
  /\ handler = [e \in Ends |-> handler[e]]
  /\ \A e \in Ends : IsHandler(handler[e])
  /\ panicked \in BOOLEAN
HubShape ==
  /\ hub = [e \in Ends |-> hub[e]]
  /\ store = [in |-> store.in, phase |-> store.phase, cur |-> store.cur,
              staging |-> store.staging, signed |-> store.signed]
  /\ store.in \in BOOLEAN /\ store.signed \in BOOLEAN
  /\ watch = [pc |-> watch.pc, ev |-> watch.ev]

\* All states of the virtual channel, wherever they are kept.
States ==
  /\ \A e \in Ends : IsV(virtual[e].cur) /\ virtual[e].cur.Version >= 0
  /\ IsV(store.cur) /\ store.cur.Version >= 0
  /\ IsV(store.staging) /\ store.staging.Version >= 0
  /\ IsV(chain) /\ IsV(watch.ev)
  /\ watch.pc \in {"none", "next"} \/ watch.ev.Version >= 0

Unopened == {"fund", "funding", "failed", "panicked"}
EndInv(e) ==
  /\ op[e].pc \in Unopened \cup {"opened", "settlement", "settled"}
  /\ op[e].pc = "fund" => parent[e].cur = H0(e)
  /\ op[e].pc = "funding" => op[e].next = F(e)
  /\ op[e].pc \in {"opened", "settlement"} => parent[e].cur = F(e)
  /\ op[e].pc \in {"funding", "settlement"} => parent[e].phase = "Signing"
  /\ op[e].pc \in Unopened => virtual[1].cur = InitVirtual /\ virtual[2].cur = InitVirtual
  /\ op[e].pc \notin Unopened => hub[e].Version # 0
  /\ op[e].pc = "settlement" => virtual[e].cur.IsFinal
  /\ virtual[1].cur.IsFinal /\ virtual[2].cur.IsFinal => virtual[1].cur = virtual[2].cur
  /\ virtual[e].phase \in {"Funding", "Acting", "Final", "Withdrawing", "Withdrawn"}
  /\ virtual[e].cur.IsFinal <=> virtual[e].phase \in {"Final", "Withdrawing", "Withdrawn"}

MsgInv(m) ==
  /\ m.end \in Ends
  /\ m = Msg(m.type, m.end, m.state, m.vstate)
  /\ m.type = "funding" =>
       /\ m.state = F(m.end) /\ m.vstate = InitVirtual
       /\ op[m.end].pc # "fund" /\ handler[m.end].kind # "funding"
       /\ hub[m.end].Version = 0 /\ store.phase = "none"
  /\ m.type = "settlement" =>
       /\ m.vstate = virtual[m.end].cur /\ m.vstate.IsFinal
       /\ m.state.Version = 2 /\ hub[m.end].Version # 0
       /\ m.state.Balances \in [1..1 -> [1..2 -> Int]]
  /\ m.type = "acc" => hub[m.end].Version # 0

Waiting == {"await", "deregister"}
FundingInv(e) ==
  LET h == handler[e]
  IN h.kind = "funding" =>
       /\ h.pc \in Waiting \cup {"invalid", "register", "reject", "accept", "return"}
       /\ h.req = F(e) /\ h.vstate = InitVirtual
       /\ op[e].pc # "fund"
       /\ h.pc # "return" => hub[e].Version = 0
       /\ ~h.called /\ h.pc # "invalid" => Len(IndexMap(e)) = 2
       /\ h.pc = "accept" /\ ~h.called => h.matched
       /\ h.matched => store.phase # "none"
       /\ h.matched /\ h.pc # "return" => store.in
       /\ store.phase # "none" => h.matched /\ ~h.entry /\ h.pc \notin {"invalid", "register"}

Forcing == {"force", "sign", "enable"}
Accepting == {"acceptFirst", "acceptSecond", "close"}
SettlementInv(e) ==
  LET h == handler[e]
      o == Other(e)
  IN h.kind = "settlement" =>
       /\ h.pc \in Waiting \cup Matching \cup {"invalid", "register", "reject", "return"}
       /\ h.vstate = virtual[e].cur /\ h.vstate.IsFinal
       /\ h.req.Version = 2 /\ hub[e].Version # 0
       /\ ~h.called /\ h.pc # "invalid" => hub[e] = F(e) /\ store.in /\ Settling(e, h.req, h.vstate)
       /\ h.pc \in Forcing \cup {"invalid", "register", "acceptFirst"} => hub[e].Version = 1
       /\ h.matched => hub[e].Version = 2
       /\ h.pc = "invalid" => ~h.called
       /\ h.pc \in Matching =>
            /\ handler[o].kind = "settlement" /\ handler[o].entry
            /\ handler[o].vstate = h.vstate
       /\ h.pc \in Forcing \cup {"acceptFirst"} => hub[o].Version = 1
       /\ h.pc \in Accepting => store.cur = h.vstate
       /\ h.pc = "acceptSecond" /\ ~panicked => hub[e].Version = 2 /\ hub[o].Version = 1
       /\ h.pc = "close" /\ ~panicked => hub[e].Version = 2 /\ hub[o].Version = 2

HandlerInv(e) ==
  /\ handler[e].kind \in {"none", "funding", "settlement"}
  /\ handler[e].kind = "none" => handler[e] = NoHandler
  /\ handler[e].pc = "none" => handler[e].kind = "none"
  /\ handler[e].entry => handler[e].pc \in Waiting
  /\ FundingInv(e) /\ SettlementInv(e)

HubInv(e) ==
  /\ hub[e].Version \in {0, 1, 2}
  /\ hub[e].Version = 0 =>
       /\ hub[e] = H0(e)
       /\ store.cur = InitVirtual /\ chain.Version <= 0 /\ watch.pc \in {"none", "next"}
  /\ hub[e].Version = 1 => hub[e] = F(e) /\ store.in
  /\ hub[e].Version = 2 =>
       /\ Settling(e, hub[e], virtual[e].cur)
       /\ virtual[e].cur.IsFinal /\ store.cur = virtual[e].cur
       /\ virtual[Other(e)].cur = virtual[e].cur
  /\ hub[e].Version # 0 => Len(IndexMap(e)) = 2 /\ store.phase # "none"

\* One parent is settled and the other is not: the handler of the other waits, or
\* its responder is used up.
HalfSettled(e) ==
  LET o == Other(e)
  IN hub[e].Version = 2 /\ hub[o].Version # 2 =>
       /\ hub[o].Version = 1
       /\ handler[o].kind = "settlement"
       /\ handler[o].pc \in Waiting \cup {"reject", "return"}
       /\ handler[o].pc = "return" => panicked
       /\ handler[o].called \/ handler[e].pc = "acceptSecond"

StoreInv ==
  /\ store.in => store.phase # "none"
  /\ watch.pc # "none" => store.phase # "none"
  /\ watch.pc \in {"none", "next", "force", "sign", "enable"}
  /\ store.phase # "none" => HubCovers /\ op[1].pc # "fund" /\ op[2].pc # "fund"

\* No end can have both registered an older state and asked for a settlement.
Sent(e) ==
  \/ \E m \in net : m.type = "settlement" /\ m.end = e
  \/ handler[e].kind = "settlement" \/ hub[e].Version = 2
ForcedFinal ==
  store.phase = "Signing" =>
    store.staging.IsFinal /\ \E x \in Ends : store.staging = virtual[x].cur
DisputeInv ==
  \/ chain = NotRegistered /\ watch.pc \in {"none", "next"} /\ ForcedFinal
  \/ \E e \in Ends : parent[e].phase = "Registered" /\ ~Sent(e)
  \/ /\ chain.IsFinal /\ \E e \in Ends : chain = virtual[e].cur
     /\ watch.pc \in {"none", "next"} \/ watch.ev = chain
     /\ ForcedFinal

\* Without a dispute nothing gets in between the steps of forceFinalState.
Undisturbed ==
  chain = NotRegistered =>
    /\ watch.pc \in {"none", "next"}
    /\ \A e \in Ends :
         /\ handler[e].pc = "sign" => CanAddSigs(handler[e].vstate)
         /\ handler[e].pc = "enable" =>
              /\ store.phase = "Signing" /\ store.signed
              /\ store.staging = handler[e].vstate

IInv ==
  /\ EndShape /\ HandlerShape /\ HubShape /\ States /\ StoreInv
  /\ \A e \in Ends : EndInv(e) /\ HandlerInv(e) /\ HubInv(e) /\ HalfSettled(e)
  /\ \A m \in net : MsgInv(m)
  /\ DisputeInv /\ Undisturbed /\ MatchNotMissed

-----------------------------------------------------------------------------
(* Steps of the hub that change no more than its handlers and the network *)

LEMMA OtherFacts ==
  ASSUME NEW e \in Ends
  PROVE  /\ Other(e) \in Ends /\ Other(e) # e /\ Other(Other(e)) = e
         /\ \A x \in Ends : x = e \/ x = Other(e)
  BY DEF Ends, Other

LEMMA EndsFacts == 1 \in Ends /\ 2 \in Ends /\ Other(1) = 2 /\ Other(2) = 1
  BY DEF Ends, Other

LEMMA NoHandlerFacts ==
  /\ NoHandler.pc = "none" /\ NoHandler.kind = "none" /\ IsHandler(NoHandler)
  /\ NoHandler.entry = FALSE /\ NoHandler.matched = FALSE /\ NoHandler.called = FALSE
  BY DEF NoHandler, IsHandler

LEMMA ExceptPcEntry ==
  ASSUME NEW h, IsHandler(h), NEW pc, NEW en
  PROVE  [h EXCEPT !.pc = pc, !.entry = en] =
              [pc |-> pc, kind |-> h.kind, req |-> h.req, vstate |-> h.vstate,
               entry |-> en, matched |-> h.matched, called |-> h.called]
<1>1. PICK a, k, r, v, b, c, d :
        /\ h = [pc |-> a, kind |-> k, req |-> r, vstate |-> v,
               entry |-> b, matched |-> c, called |-> d]
        /\ a = h.pc /\ k = h.kind /\ r = h.req /\ v = h.vstate
        /\ b = h.entry /\ c = h.matched /\ d = h.called
  BY DEF IsHandler
<1> DEFINE g == [h EXCEPT !.pc = pc]
<1>2. g = [pc |-> pc, kind |-> k, req |-> r, vstate |-> v,
               entry |-> b, matched |-> c, called |-> d]
  BY <1>1
<1>3. [g EXCEPT !.entry = en] =
        [pc |-> pc, kind |-> k, req |-> r, vstate |-> v,
               entry |-> en, matched |-> c, called |-> d]
  <2> HIDE DEF g
  <2> QED BY <1>2
<1>4. [h EXCEPT !.pc = pc, !.entry = en] = [g EXCEPT !.entry = en]
  OBVIOUS
<1> QED BY <1>1, <1>3, <1>4

LEMMA ExceptPcMatched ==
  ASSUME NEW h, IsHandler(h), NEW pc, NEW ma
  PROVE  [h EXCEPT !.pc = pc, !.matched = ma] =
              [pc |-> pc, kind |-> h.kind, req |-> h.req, vstate |-> h.vstate,
               entry |-> h.entry, matched |-> ma, called |-> h.called]
<1>1. PICK a, k, r, v, b, c, d :
        /\ h = [pc |-> a, kind |-> k, req |-> r, vstate |-> v,
               entry |-> b, matched |-> c, called |-> d]
        /\ a = h.pc /\ k = h.kind /\ r = h.req /\ v = h.vstate
        /\ b = h.entry /\ c = h.matched /\ d = h.called
  BY DEF IsHandler
<1> DEFINE g == [h EXCEPT !.pc = pc]
<1>2. g = [pc |-> pc, kind |-> k, req |-> r, vstate |-> v,
               entry |-> b, matched |-> c, called |-> d]
  BY <1>1
<1>3. [g EXCEPT !.matched = ma] =
        [pc |-> pc, kind |-> k, req |-> r, vstate |-> v,
               entry |-> b, matched |-> ma, called |-> d]
  <2> HIDE DEF g
  <2> QED BY <1>2
<1>4. [h EXCEPT !.pc = pc, !.matched = ma] = [g EXCEPT !.matched = ma]
  OBVIOUS
<1> QED BY <1>1, <1>3, <1>4

LEMMA ExceptEntryMatched ==
  ASSUME NEW h, IsHandler(h), NEW en, NEW ma
  PROVE  [h EXCEPT !.entry = en, !.matched = ma] =
              [pc |-> h.pc, kind |-> h.kind, req |-> h.req, vstate |-> h.vstate,
               entry |-> en, matched |-> ma, called |-> h.called]
<1>1. PICK a, k, r, v, b, c, d :
        /\ h = [pc |-> a, kind |-> k, req |-> r, vstate |-> v,
               entry |-> b, matched |-> c, called |-> d]
        /\ a = h.pc /\ k = h.kind /\ r = h.req /\ v = h.vstate
        /\ b = h.entry /\ c = h.matched /\ d = h.called
  BY DEF IsHandler
<1> DEFINE g == [h EXCEPT !.entry = en]
<1>2. g = [pc |-> a, kind |-> k, req |-> r, vstate |-> v,
               entry |-> en, matched |-> c, called |-> d]
  BY <1>1
<1>3. [g EXCEPT !.matched = ma] =
        [pc |-> a, kind |-> k, req |-> r, vstate |-> v,
               entry |-> en, matched |-> ma, called |-> d]
  <2> HIDE DEF g
  <2> QED BY <1>2
<1>4. [h EXCEPT !.entry = en, !.matched = ma] = [g EXCEPT !.matched = ma]
  OBVIOUS
<1> QED BY <1>1, <1>3, <1>4

LEMMA ExceptCalled ==
  ASSUME NEW h, IsHandler(h), NEW ca
  PROVE  [h EXCEPT !.called = ca] =
              [pc |-> h.pc, kind |-> h.kind, req |-> h.req, vstate |-> h.vstate,
               entry |-> h.entry, matched |-> h.matched, called |-> ca]
  BY DEF IsHandler

LEMMA ExceptPc ==
  ASSUME NEW h, IsHandler(h), NEW pc
  PROVE  [h EXCEPT !.pc = pc] =
              [pc |-> pc, kind |-> h.kind, req |-> h.req, vstate |-> h.vstate,
               entry |-> h.entry, matched |-> h.matched, called |-> h.called]
  BY DEF IsHandler

LEMMA SameProp ==
  ASSUME prop' = prop
  PROVE  /\ \A x : IndexMap(x)' = IndexMap(x)
         /\ \A x : F(x)' = F(x)
         /\ HubCovers' <=> HubCovers
  BY DEF IndexMap, F, HubCovers

LEMMA Frame ==
  ASSUME IInv, UNCHANGED <<endVars, hub, store, watch>>
  PROVE  /\ EndShape' /\ HubShape' /\ States' /\ StoreInv'
         /\ \A e \in Ends : EndInv(e)' /\ HubInv(e)'
<1>1. /\ UNCHANGED <<parent, virtual, op, hub, store, watch, chain>> /\ prop' = prop
  BY DEF endVars
<1>2. States' /\ StoreInv'
  BY <1>1, SameProp DEF IInv, States, StoreInv
<1>3. ASSUME NEW e \in Ends PROVE EndInv(e)' /\ HubInv(e)'
  <2>1. EndInv(e)'
    BY <1>1, SameProp DEF IInv, EndInv
  <2>2. HubInv(e)'
    BY <1>1, SameProp DEF IInv, HubInv, Settling
  <2> QED BY <2>1, <2>2
<1>4. EndShape' /\ HubShape'
  BY <1>1, SameProp DEF IInv, EndShape, HubShape
<1> QED BY <1>2, <1>3, <1>4

\* SetHandler, with the fields of the new record g.
LEMMA SetHandlerFacts ==
  ASSUME HandlerShape, NEW e \in Ends, NEW g, IsHandler(g), SetHandler(e, g), panicked' \in BOOLEAN
  PROVE  /\ handler'[e] = g /\ handler'[Other(e)] = handler[Other(e)]
         /\ HandlerShape'
<1>1. /\ handler'[e] = g /\ \A x \in Ends : x # e => handler'[x] = handler[x]
      /\ handler' = [x \in Ends |-> handler'[x]]
  BY DEF HandlerShape, SetHandler
<1>2. \A x \in Ends : IsHandler(handler'[x])
  BY <1>1 DEF HandlerShape
<1> QED BY <1>1, <1>2, OtherFacts DEF HandlerShape

\* Goto keeps all but the pc.
LEMMA GotoFacts ==
  ASSUME IInv, NEW e \in Ends, NEW pc, Goto(e, pc), panicked' \in BOOLEAN
  PROVE  /\ handler'[e].pc = pc /\ handler'[e].kind = handler[e].kind
         /\ handler'[e].req = handler[e].req /\ handler'[e].vstate = handler[e].vstate
         /\ (handler'[e].entry <=> handler[e].entry) /\ (handler'[e].matched <=> handler[e].matched)
         /\ (handler'[e].called <=> handler[e].called)
         /\ handler'[Other(e)] = handler[Other(e)] /\ HandlerShape'
<1> DEFINE g == [handler[e] EXCEPT !.pc = pc]
<1>1. /\ g.pc = pc /\ g.kind = handler[e].kind /\ g.req = handler[e].req
      /\ g.vstate = handler[e].vstate /\ (g.entry <=> handler[e].entry)
      /\ (g.matched <=> handler[e].matched) /\ (g.called <=> handler[e].called) /\ IsHandler(g)
  BY DEF IInv, HandlerShape, IsHandler
<1>2. SetHandler(e, g)
  BY DEF Goto
<1> HIDE DEF g
<1>3. handler'[e] = g /\ handler'[Other(e)] = handler[Other(e)] /\ HandlerShape'
  BY <1>1, <1>2, SetHandlerFacts DEF IInv
<1> QED BY <1>1, <1>3

LEMMA awaitTimeoutStep ==
  ASSUME IInv, NEW e \in Ends, awaitTimeout(e), ~panicked
  PROVE  IInv'
<1> DEFINE h == handler[e]
           o == Other(e)
<1>0. o \in Ends /\ o # e /\ Other(o) = e /\ (\A x \in Ends : x = e \/ x = o)
  BY OtherFacts
<1>1. /\ UNCHANGED <<endVars, hub, store, watch, net, panicked>> /\ h.pc = "await"
      /\ prop' = prop /\ UNCHANGED <<parent, virtual, op, chain>>
  BY DEF awaitTimeout, endVars
<1>2. /\ handler'[e].pc = "deregister" /\ handler'[e].kind = h.kind /\ handler'[e].req = h.req
      /\ handler'[e].vstate = h.vstate /\ (handler'[e].entry <=> h.entry)
      /\ (handler'[e].matched <=> h.matched) /\ (handler'[e].called <=> h.called)
      /\ handler'[o] = handler[o] /\ HandlerShape'
  <2>1. Goto(e, "deregister") /\ panicked' \in BOOLEAN
    BY <1>1 DEF awaitTimeout, IInv, HandlerShape
  <2> QED BY <2>1, GotoFacts
<1>3. /\ EndShape' /\ HubShape' /\ States' /\ StoreInv'
      /\ \A x \in Ends : EndInv(x)' /\ HubInv(x)'
  BY <1>1, Frame
<1>4. ASSUME NEW x \in Ends PROVE HandlerInv(x)'
  <2>1. FundingInv(x)'
    BY <1>0, <1>1, <1>2, SameProp DEF IInv, HandlerInv, FundingInv, Waiting
  <2>2. SettlementInv(x)'
    BY <1>0, <1>1, <1>2, SameProp
    DEF IInv, HandlerInv, SettlementInv, Waiting, Matching, Forcing, Accepting, Settling
  <2> QED BY <1>0, <1>1, <1>2, <2>1, <2>2, NoHandlerFacts DEF IInv, HandlerInv, Waiting
<1>5. ASSUME NEW x \in Ends PROVE HalfSettled(x)'
  BY <1>0, <1>1, <1>2 DEF IInv, HalfSettled, Waiting
<1>6. ASSUME NEW m \in net' PROVE MsgInv(m)'
  BY <1>0, <1>1, <1>2, SameProp DEF IInv, MsgInv
<1>7. DisputeInv'
  BY <1>0, <1>1, <1>2 DEF IInv, DisputeInv, Sent, ForcedFinal
<1>8. Undisturbed'
  BY <1>0, <1>1, <1>2 DEF IInv, Undisturbed, CanAddSigs
<1>9. MatchNotMissed'
  BY <1>0, <1>1, <1>2, EndsFacts, SameProp DEF IInv, MatchNotMissed
<1> QED BY <1>2, <1>3, <1>4, <1>5, <1>6, <1>7, <1>8, <1>9 DEF IInv

LEMMA awaitMatchedFunding ==
  ASSUME IInv, NEW e \in Ends, awaitMatched(e), handler[e].kind = "funding", ~panicked
  PROVE  IInv'
<1> DEFINE h == handler[e]
           o == Other(e)
<1>0. o \in Ends /\ o # e /\ Other(o) = e /\ (\A x \in Ends : x = e \/ x = o)
  BY OtherFacts
<1>1. /\ UNCHANGED <<endVars, hub, store, watch, net, panicked>> /\ h.pc = "await" /\ h.matched
      /\ prop' = prop /\ UNCHANGED <<parent, virtual, op, chain>>
      /\ h.kind = "funding"
  BY DEF awaitMatched, endVars
<1>2. /\ handler'[e].pc = "accept" /\ handler'[e].kind = h.kind /\ handler'[e].req = h.req
      /\ handler'[e].vstate = h.vstate /\ (handler'[e].entry <=> h.entry)
      /\ (handler'[e].matched <=> h.matched) /\ (handler'[e].called <=> h.called)
      /\ handler'[o] = handler[o] /\ HandlerShape'
  <2>1. Goto(e, "accept") /\ panicked' \in BOOLEAN
    BY <1>1 DEF awaitMatched, IInv, HandlerShape
  <2> QED BY <2>1, GotoFacts
<1>3. /\ EndShape' /\ HubShape' /\ States' /\ StoreInv'
      /\ \A x \in Ends : EndInv(x)' /\ HubInv(x)'
  BY <1>1, Frame
<1>4. ASSUME NEW x \in Ends PROVE HandlerInv(x)'
  <2>1. FundingInv(x)'
    BY <1>0, <1>1, <1>2, SameProp DEF IInv, HandlerInv, FundingInv, Waiting
  <2>2. SettlementInv(x)'
    BY <1>0, <1>1, <1>2, SameProp
    DEF IInv, HandlerInv, SettlementInv, Waiting, Matching, Forcing, Accepting, Settling
  <2> QED BY <1>0, <1>1, <1>2, <2>1, <2>2, NoHandlerFacts DEF IInv, HandlerInv, FundingInv, Waiting
<1>5. ASSUME NEW x \in Ends PROVE HalfSettled(x)'
  BY <1>0, <1>1, <1>2 DEF IInv, HalfSettled, Waiting
<1>6. ASSUME NEW m \in net' PROVE MsgInv(m)'
  BY <1>0, <1>1, <1>2, SameProp DEF IInv, MsgInv
<1>7. DisputeInv'
  BY <1>0, <1>1, <1>2 DEF IInv, DisputeInv, Sent, ForcedFinal
<1>8. Undisturbed'
  BY <1>0, <1>1, <1>2 DEF IInv, Undisturbed, CanAddSigs
<1>9. MatchNotMissed'
  BY <1>0, <1>1, <1>2, EndsFacts, SameProp DEF IInv, MatchNotMissed
<1> QED BY <1>2, <1>3, <1>4, <1>5, <1>6, <1>7, <1>8, <1>9 DEF IInv

\* A handler returns: its update was rejected or accepted, or it was matched.
LEMMA handlerGone ==
  ASSUME IInv, NEW e \in Ends, SetHandler(e, NoHandler), UNCHANGED <<endVars, hub, store, watch, net, panicked>>,
         ~panicked,
         \/ handler[e].pc = "return"
         \/ /\ handler[e].kind = "settlement" /\ handler[e].matched /\ handler[e].pc = "await"
            /\ handler[Other(e)].pc \notin Matching
  PROVE  IInv'
<1> DEFINE h == handler[e]
           o == Other(e)
<1>0. o \in Ends /\ o # e /\ Other(o) = e /\ (\A x \in Ends : x = e \/ x = o)
  BY OtherFacts
<1>1. /\ UNCHANGED <<endVars, hub, store, watch, net, panicked>>
      /\ prop' = prop /\ UNCHANGED <<parent, virtual, op, chain>>
  BY DEF endVars
<1>2. handler'[e] = NoHandler /\ handler'[o] = handler[o] /\ HandlerShape'
  BY <1>1, SetHandlerFacts, NoHandlerFacts DEF IInv, HandlerShape
<1>3. /\ EndShape' /\ HubShape' /\ States' /\ StoreInv'
      /\ \A x \in Ends : EndInv(x)' /\ HubInv(x)'
  BY <1>1, Frame
<1>4. ASSUME NEW x \in Ends PROVE HandlerInv(x)'
  <2>1. FundingInv(x)'
    BY <1>0, <1>1, <1>2, NoHandlerFacts, SameProp DEF IInv, HandlerInv, FundingInv, Waiting
  <2>2. SettlementInv(x)'
    BY <1>0, <1>1, <1>2, NoHandlerFacts, SameProp
    DEF IInv, HandlerInv, SettlementInv, Waiting, Matching, Forcing, Accepting, Settling
  <2> QED BY <1>0, <1>1, <1>2, <2>1, <2>2, NoHandlerFacts DEF IInv, HandlerInv, Waiting
<1>5. ASSUME NEW x \in Ends PROVE HalfSettled(x)'
  BY <1>0, <1>1, <1>2, NoHandlerFacts DEF IInv, HalfSettled, HandlerInv, SettlementInv, Waiting
<1>6. ASSUME NEW m \in net' PROVE MsgInv(m)'
  BY <1>0, <1>1, <1>2, NoHandlerFacts, SameProp DEF IInv, MsgInv
<1>7. DisputeInv'
  BY <1>0, <1>1, <1>2, NoHandlerFacts DEF IInv, DisputeInv, Sent, ForcedFinal
<1>8. Undisturbed'
  BY <1>0, <1>1, <1>2, NoHandlerFacts DEF IInv, Undisturbed, CanAddSigs
<1>9. MatchNotMissed'
  BY <1>0, <1>1, <1>2, NoHandlerFacts, EndsFacts DEF IInv, MatchNotMissed
<1> QED BY <1>2, <1>3, <1>4, <1>5, <1>6, <1>7, <1>8, <1>9 DEF IInv

LEMMA deregisterStep ==
  ASSUME IInv, NEW e \in Ends, deregister(e), ~panicked
  PROVE  IInv'
<1> DEFINE h == handler[e]
           o == Other(e)
<1>0. o \in Ends /\ o # e /\ Other(o) = e /\ (\A x \in Ends : x = e \/ x = o)
  BY OtherFacts
<1>1. /\ UNCHANGED <<endVars, hub, store, watch, net, panicked>> /\ h.pc = "deregister"
      /\ prop' = prop /\ UNCHANGED <<parent, virtual, op, chain>>
      /\ h.kind = "settlement" => handler[o].pc \notin Matching
  BY <1>0 DEF deregister, endVars, CanLock, WatcherLocked
<1>2. /\ handler'[e].pc = "reject" /\ handler'[e].kind = h.kind /\ handler'[e].req = h.req
      /\ handler'[e].vstate = h.vstate /\ ~handler'[e].entry
      /\ (handler'[e].matched <=> h.matched) /\ (handler'[e].called <=> h.called)
      /\ handler'[o] = handler[o] /\ HandlerShape'
  <2> DEFINE g == [h EXCEPT !.pc = "reject", !.entry = FALSE]
  <2>1. /\ g.pc = "reject" /\ g.kind = h.kind /\ g.req = h.req /\ g.vstate = h.vstate
        /\ ~g.entry /\ (g.matched <=> h.matched) /\ (g.called <=> h.called) /\ IsHandler(g)
    <3>1. g = [pc |-> "reject", kind |-> h.kind, req |-> h.req, vstate |-> h.vstate,
               entry |-> FALSE, matched |-> h.matched, called |-> h.called]
      <4>1. IsHandler(h)
        BY DEF IInv, HandlerShape
      <4> QED BY <4>1, ExceptPcEntry
    <3> HIDE DEF g
    <3> QED BY <3>1 DEF IInv, HandlerShape, IsHandler
  <2>2. SetHandler(e, g) /\ panicked' \in BOOLEAN
    BY <1>1 DEF deregister, IInv, HandlerShape
  <2> HIDE DEF g
  <2>3. handler'[e] = g /\ handler'[o] = handler[o] /\ HandlerShape'
    BY <2>1, <2>2, SetHandlerFacts DEF IInv
  <2> QED BY <2>1, <2>3
<1>3. /\ EndShape' /\ HubShape' /\ States' /\ StoreInv'
      /\ \A x \in Ends : EndInv(x)' /\ HubInv(x)'
  BY <1>1, Frame
<1>4. ASSUME NEW x \in Ends PROVE HandlerInv(x)'
  <2>1. FundingInv(x)'
    BY <1>0, <1>1, <1>2, SameProp DEF IInv, HandlerInv, FundingInv, Waiting
  <2>2. SettlementInv(x)'
    BY <1>0, <1>1, <1>2, SameProp
    DEF IInv, HandlerInv, SettlementInv, Waiting, Matching, Forcing, Accepting, Settling
  <2> QED BY <1>0, <1>1, <1>2, <2>1, <2>2, NoHandlerFacts DEF IInv, HandlerInv, Waiting
<1>5. ASSUME NEW x \in Ends PROVE HalfSettled(x)'
  BY <1>0, <1>1, <1>2 DEF IInv, HalfSettled, Waiting
<1>6. ASSUME NEW m \in net' PROVE MsgInv(m)'
  BY <1>0, <1>1, <1>2, SameProp DEF IInv, MsgInv
<1>7. DisputeInv'
  BY <1>0, <1>1, <1>2 DEF IInv, DisputeInv, Sent, ForcedFinal
<1>8. Undisturbed'
  BY <1>0, <1>1, <1>2 DEF IInv, Undisturbed, CanAddSigs
<1>9. MatchNotMissed'
  BY <1>0, <1>1, <1>2, EndsFacts, SameProp DEF IInv, MatchNotMissed
<1> QED BY <1>2, <1>3, <1>4, <1>5, <1>6, <1>7, <1>8, <1>9 DEF IInv

LEMMA RejectFacts ==
  ASSUME IInv, NEW e \in Ends, NEW next, rejectProposal(e, next)
  PROVE  /\ handler'[e].pc = next /\ handler'[e].kind = handler[e].kind
         /\ handler'[e].req = handler[e].req /\ handler'[e].vstate = handler[e].vstate
         /\ (handler'[e].entry <=> handler[e].entry) /\ (handler'[e].matched <=> handler[e].matched)
         /\ handler'[e].called
         /\ handler'[Other(e)] = handler[Other(e)] /\ HandlerShape'
         /\ panicked' <=> handler[e].called
         /\ \A m \in net' : m \in net \/ m = Msg("rej", e, handler[e].req, InitVirtual)
         /\ net \subseteq net'
<1> DEFINE h == handler[e]
           g == [h EXCEPT !.called = TRUE, !.pc = next]
<1>1. IsHandler(h)
  BY DEF IInv, HandlerShape
<1>2. g = [pc |-> next, kind |-> h.kind, req |-> h.req, vstate |-> h.vstate,
           entry |-> h.entry, matched |-> h.matched, called |-> TRUE]
  <2> DEFINE k == [h EXCEPT !.called = TRUE]
  <2>1. k = [pc |-> h.pc, kind |-> h.kind, req |-> h.req, vstate |-> h.vstate,
             entry |-> h.entry, matched |-> h.matched, called |-> TRUE]
    BY <1>1, ExceptCalled
  <2>2. IsHandler(k)
    <3> HIDE DEF k
    <3> QED BY <1>1, <2>1 DEF IsHandler
  <2>3. [k EXCEPT !.pc = next] = [pc |-> next, kind |-> h.kind, req |-> h.req, vstate |-> h.vstate,
             entry |-> h.entry, matched |-> h.matched, called |-> TRUE]
    <3> HIDE DEF k
    <3> QED BY <2>1, <2>2, ExceptPc
  <2>4. g = [k EXCEPT !.pc = next]
    OBVIOUS
  <2> QED BY <2>3, <2>4
<1>3. SetHandler(e, g) /\ panicked' = h.called
  BY DEF rejectProposal
<1> HIDE DEF g
<1>4. IsHandler(g)
  BY <1>1, <1>2 DEF IsHandler
<1>5. panicked' \in BOOLEAN /\ (panicked' <=> h.called)
  BY <1>1, <1>3 DEF IsHandler
<1>6. handler'[e] = g /\ handler'[Other(e)] = handler[Other(e)] /\ HandlerShape'
  BY <1>3, <1>4, <1>5, SetHandlerFacts DEF IInv
<1>7. /\ \A m \in net' : m \in net \/ m = Msg("rej", e, handler[e].req, InitVirtual)
      /\ net \subseteq net'
  BY DEF rejectProposal
<1> QED BY <1>2, <1>5, <1>6, <1>7

LEMMA NotMatchedFacts ==
  ASSUME IInv, NEW e \in Ends, NotMatched(e), panicked' = panicked
  PROVE  /\ handler'[e].pc = "await" /\ handler'[e].kind = handler[e].kind
         /\ handler'[e].req = handler[e].req /\ handler'[e].vstate = handler[e].vstate
         /\ handler'[e].entry /\ (handler'[e].matched <=> handler[e].matched)
         /\ (handler'[e].called <=> handler[e].called)
         /\ handler'[Other(e)] = handler[Other(e)] /\ HandlerShape'
<1> DEFINE h == handler[e]
           g == [h EXCEPT !.pc = "await", !.entry = TRUE]
<1>1. IsHandler(h) /\ panicked' \in BOOLEAN
  BY DEF IInv, HandlerShape
<1>2. g = [pc |-> "await", kind |-> h.kind, req |-> h.req, vstate |-> h.vstate,
           entry |-> TRUE, matched |-> h.matched, called |-> h.called]
  BY <1>1, ExceptPcEntry
<1>3. SetHandler(e, g)
  BY DEF NotMatched
<1> HIDE DEF g
<1>4. IsHandler(g)
  BY <1>1, <1>2 DEF IsHandler
<1>5. handler'[e] = g /\ handler'[Other(e)] = handler[Other(e)] /\ HandlerShape'
  BY <1>1, <1>3, <1>4, SetHandlerFacts DEF IInv
<1> QED BY <1>2, <1>5

LEMMA RejMsg ==
  ASSUME NEW e \in Ends, NEW s, NEW v
  PROVE  /\ Msg("rej", e, s, v).type = "rej" /\ Msg("rej", e, s, v).end = e
         /\ \A m : m = Msg("rej", e, s, v) => m = Msg(m.type, m.end, m.state, m.vstate)
  BY DEF Msg

LEMMA rejectInvalidStep ==
  ASSUME IInv, NEW e \in Ends, rejectInvalid(e), ~panicked
  PROVE  IInv'
<1> DEFINE h == handler[e]
           o == Other(e)
<1>0. o \in Ends /\ o # e /\ Other(o) = e /\ (\A x \in Ends : x = e \/ x = o)
  BY OtherFacts
<1>1. /\ UNCHANGED <<endVars, hub, store, watch>> /\ h.pc = "invalid"
      /\ prop' = prop /\ UNCHANGED <<parent, virtual, op, chain>>
  BY DEF rejectInvalid, endVars
<1>2. /\ handler'[e].pc = "register" /\ handler'[e].kind = h.kind /\ handler'[e].req = h.req
      /\ handler'[e].vstate = h.vstate /\ (handler'[e].entry <=> h.entry)
      /\ (handler'[e].matched <=> h.matched) /\ handler'[e].called
      /\ handler'[o] = handler[o] /\ HandlerShape' /\ (panicked' <=> h.called)
      /\ \A m \in net' : m \in net \/ m = Msg("rej", e, h.req, InitVirtual)
      /\ net \subseteq net'
  BY RejectFacts DEF rejectInvalid
<1>3. /\ EndShape' /\ HubShape' /\ States' /\ StoreInv'
      /\ \A x \in Ends : EndInv(x)' /\ HubInv(x)'
  BY <1>1, Frame
<1>4. ASSUME NEW x \in Ends PROVE HandlerInv(x)'
  <2>1. FundingInv(x)'
    BY <1>0, <1>1, <1>2, SameProp DEF IInv, HandlerInv, FundingInv, Waiting
  <2>2. SettlementInv(x)'
    BY <1>0, <1>1, <1>2, SameProp
    DEF IInv, HandlerInv, SettlementInv, Waiting, Matching, Forcing, Accepting, Settling
  <2> QED BY <1>0, <1>1, <1>2, <2>1, <2>2, NoHandlerFacts DEF IInv, HandlerInv, Waiting
<1>5. ASSUME NEW x \in Ends PROVE HalfSettled(x)'
  BY <1>0, <1>1, <1>2 DEF IInv, HalfSettled, Waiting
<1>6. ASSUME NEW m \in net' PROVE MsgInv(m)'
  BY <1>0, <1>1, <1>2, SameProp, RejMsg DEF IInv, MsgInv
<1>7. DisputeInv'
  BY <1>0, <1>1, <1>2, RejMsg DEF IInv, DisputeInv, Sent, ForcedFinal
<1>8. Undisturbed'
  BY <1>0, <1>1, <1>2 DEF IInv, Undisturbed, CanAddSigs
<1>9. MatchNotMissed'
  BY <1>0, <1>1, <1>2, EndsFacts, SameProp DEF IInv, MatchNotMissed
<1> QED BY <1>2, <1>3, <1>4, <1>5, <1>6, <1>7, <1>8, <1>9 DEF IInv

LEMMA handlerRejectsStep ==
  ASSUME IInv, NEW e \in Ends, handlerRejects(e), ~panicked
  PROVE  IInv'
<1> DEFINE h == handler[e]
           o == Other(e)
<1>0. o \in Ends /\ o # e /\ Other(o) = e /\ (\A x \in Ends : x = e \/ x = o)
  BY OtherFacts
<1>1. /\ UNCHANGED <<endVars, hub, store, watch>> /\ h.pc = "reject"
      /\ prop' = prop /\ UNCHANGED <<parent, virtual, op, chain>>
  BY DEF handlerRejects, endVars
<1>2. /\ handler'[e].pc = (IF h.kind = "funding" THEN "accept" ELSE "return") /\ handler'[e].kind = h.kind /\ handler'[e].req = h.req
      /\ handler'[e].vstate = h.vstate /\ (handler'[e].entry <=> h.entry)
      /\ (handler'[e].matched <=> h.matched) /\ handler'[e].called
      /\ handler'[o] = handler[o] /\ HandlerShape' /\ (panicked' <=> h.called)
      /\ \A m \in net' : m \in net \/ m = Msg("rej", e, h.req, InitVirtual)
      /\ net \subseteq net'
  BY RejectFacts DEF handlerRejects
<1>3. /\ EndShape' /\ HubShape' /\ States' /\ StoreInv'
      /\ \A x \in Ends : EndInv(x)' /\ HubInv(x)'
  BY <1>1, Frame
<1>4. ASSUME NEW x \in Ends PROVE HandlerInv(x)'
  <2>1. FundingInv(x)'
    BY <1>0, <1>1, <1>2, SameProp DEF IInv, HandlerInv, FundingInv, Waiting
  <2>2. SettlementInv(x)'
    BY <1>0, <1>1, <1>2, SameProp
    DEF IInv, HandlerInv, SettlementInv, Waiting, Matching, Forcing, Accepting, Settling
  <2> QED BY <1>0, <1>1, <1>2, <2>1, <2>2, NoHandlerFacts DEF IInv, HandlerInv, Waiting
<1>5. ASSUME NEW x \in Ends PROVE HalfSettled(x)'
  <2>1. handler[o].pc # "acceptSecond"
    <3>1. h.pc \notin Waiting
      BY <1>1 DEF Waiting
    <3>2. handler[o].kind # "settlement" \/ handler[o].pc \notin Matching
      BY <1>0, <1>1, <3>1 DEF IInv, HandlerInv, SettlementInv
    <3> QED BY <1>0, <3>2, NoHandlerFacts DEF IInv, HandlerInv, FundingInv, Waiting, Matching
  <2> QED BY <1>0, <1>1, <1>2, <2>1 DEF IInv, HalfSettled, Waiting
<1>6. ASSUME NEW m \in net' PROVE MsgInv(m)'
  BY <1>0, <1>1, <1>2, SameProp, RejMsg DEF IInv, MsgInv
<1>7. DisputeInv'
  BY <1>0, <1>1, <1>2, RejMsg DEF IInv, DisputeInv, Sent, ForcedFinal
<1>8. Undisturbed'
  BY <1>0, <1>1, <1>2 DEF IInv, Undisturbed, CanAddSigs
<1>9. MatchNotMissed'
  BY <1>0, <1>1, <1>2, EndsFacts, SameProp DEF IInv, MatchNotMissed
<1> QED BY <1>2, <1>3, <1>4, <1>5, <1>6, <1>7, <1>8, <1>9 DEF IInv

\* register finds a match in the settlement watcher.
LEMMA registerSettlement ==
  ASSUME IInv, NEW e \in Ends, handler[e].pc = "register", CanLock(e), ~panicked,
         handler[e].kind = "settlement", matchSettlementProposal(e), Goto(e, "force"),
         UNCHANGED <<endVars, hub, store, watch, net, panicked>>
  PROVE  IInv'
<1> DEFINE h == handler[e]
           o == Other(e)
<1>0. o \in Ends /\ o # e /\ Other(o) = e /\ (\A x \in Ends : x = e \/ x = o)
  BY OtherFacts
<1>1. /\ UNCHANGED <<endVars, hub, store, watch, net, panicked>>
      /\ prop' = prop /\ UNCHANGED <<parent, virtual, op, chain>>
      /\ handler[o].entry /\ handler[o].kind = "settlement" /\ h.vstate = handler[o].vstate
      /\ h.pc = "register" /\ h.kind = "settlement" /\ handler[o].pc \notin Matching
  BY <1>0 DEF endVars, matchSettlementProposal, Entry, CanLock, WatcherLocked
<1>2. /\ handler'[e].pc = "force" /\ handler'[e].kind = h.kind /\ handler'[e].req = h.req
      /\ handler'[e].vstate = h.vstate /\ (handler'[e].entry <=> h.entry)
      /\ (handler'[e].matched <=> h.matched) /\ (handler'[e].called <=> h.called)
      /\ handler'[o] = handler[o] /\ HandlerShape'
  <2>1. panicked' \in BOOLEAN
    BY <1>1 DEF IInv, HandlerShape
  <2> QED BY <2>1, GotoFacts
<1>21. hub[e].Version = 1 /\ hub[o].Version = 1
  <2>1. hub[e].Version = 1 /\ hub[o].Version # 0
    BY <1>0, <1>1 DEF IInv, HandlerInv, SettlementInv
  <2>2. hub[o].Version # 2
    BY <1>0, <1>1, <2>1 DEF IInv, HalfSettled, Waiting
  <2> QED BY <1>0, <2>1, <2>2 DEF IInv, HubInv
<1>3. /\ EndShape' /\ HubShape' /\ States' /\ StoreInv'
      /\ \A x \in Ends : EndInv(x)' /\ HubInv(x)'
  BY <1>1, Frame
<1>4. ASSUME NEW x \in Ends PROVE HandlerInv(x)'
  <2>1. FundingInv(x)'
    BY <1>0, <1>1, <1>2, SameProp DEF IInv, HandlerInv, FundingInv, Waiting
  <2>2. SettlementInv(x)'
    BY <1>0, <1>1, <1>2, <1>21, SameProp
    DEF IInv, HandlerInv, SettlementInv, Waiting, Matching, Forcing, Accepting, Settling
  <2> QED BY <1>0, <1>1, <1>2, <2>1, <2>2, NoHandlerFacts DEF IInv, HandlerInv, Waiting
<1>5. ASSUME NEW x \in Ends PROVE HalfSettled(x)'
  BY <1>0, <1>1, <1>2 DEF IInv, HalfSettled, Waiting
<1>6. ASSUME NEW m \in net' PROVE MsgInv(m)'
  BY <1>0, <1>1, <1>2, SameProp DEF IInv, MsgInv
<1>7. DisputeInv'
  BY <1>0, <1>1, <1>2 DEF IInv, DisputeInv, Sent, ForcedFinal
<1>8. Undisturbed'
  BY <1>0, <1>1, <1>2 DEF IInv, Undisturbed, CanAddSigs
<1>9. MatchNotMissed'
  BY <1>0, <1>1, <1>2, EndsFacts, SameProp DEF IInv, MatchNotMissed
<1> QED BY <1>2, <1>3, <1>4, <1>5, <1>6, <1>7, <1>8, <1>9 DEF IInv

\* register finds no match: an entry is made.
LEMMA registerEntry ==
  ASSUME IInv, NEW e \in Ends, handler[e].pc = "register", CanLock(e), ~panicked,
         IF handler[e].kind = "funding" THEN ~matchFundingProposal(e) ELSE ~matchSettlementProposal(e),
         NotMatched(e), UNCHANGED <<endVars, hub, store, watch, net, panicked>>
  PROVE  IInv'
<1> DEFINE h == handler[e]
           o == Other(e)
<1>0. o \in Ends /\ o # e /\ Other(o) = e /\ (\A x \in Ends : x = e \/ x = o)
  BY OtherFacts
<1>1. /\ UNCHANGED <<endVars, hub, store, watch, net, panicked>>
      /\ prop' = prop /\ UNCHANGED <<parent, virtual, op, chain>>
      /\ h.pc = "register" /\ (h.kind = "settlement" => handler[o].pc \notin Matching)
  BY <1>0 DEF endVars, CanLock, WatcherLocked
<1>2. /\ handler'[e].pc = "await" /\ handler'[e].kind = h.kind /\ handler'[e].req = h.req
      /\ handler'[e].vstate = h.vstate /\ handler'[e].entry
      /\ (handler'[e].matched <=> h.matched) /\ (handler'[e].called <=> h.called)
      /\ handler'[o] = handler[o] /\ HandlerShape'
  BY <1>1, NotMatchedFacts
<1>3. /\ EndShape' /\ HubShape' /\ States' /\ StoreInv'
      /\ \A x \in Ends : EndInv(x)' /\ HubInv(x)'
  BY <1>1, Frame
<1>4. ASSUME NEW x \in Ends PROVE HandlerInv(x)'
  <2>1. FundingInv(x)'
    BY <1>0, <1>1, <1>2, SameProp DEF IInv, HandlerInv, FundingInv, Waiting
  <2>2. SettlementInv(x)'
    BY <1>0, <1>1, <1>2, SameProp
    DEF IInv, HandlerInv, SettlementInv, Waiting, Matching, Forcing, Accepting, Settling
  <2> QED BY <1>0, <1>1, <1>2, <2>1, <2>2, NoHandlerFacts DEF IInv, HandlerInv, Waiting
<1>5. ASSUME NEW x \in Ends PROVE HalfSettled(x)'
  BY <1>0, <1>1, <1>2 DEF IInv, HandlerInv, SettlementInv, HalfSettled, Waiting
<1>6. ASSUME NEW m \in net' PROVE MsgInv(m)'
  BY <1>0, <1>1, <1>2, SameProp DEF IInv, MsgInv
<1>7. DisputeInv'
  BY <1>0, <1>1, <1>2 DEF IInv, DisputeInv, Sent, ForcedFinal
<1>8. Undisturbed'
  BY <1>0, <1>1, <1>2 DEF IInv, Undisturbed, CanAddSigs
<1>9. MatchNotMissed'
  <2>1. CASE h.kind = "funding"
    <3>1. ~store.in
      BY <1>0, <1>1, <2>1 DEF IInv, HandlerInv, FundingInv, StoreInv
    <3>2. ~(handler[o].entry /\ handler[o].kind = h.kind /\ h.vstate = handler[o].vstate) \/ ~HubCovers
      BY <2>1, <3>1 DEF matchFundingProposal, Entry
    <3> QED BY <1>0, <1>1, <1>2, <2>1, <3>2, EndsFacts, SameProp DEF MatchNotMissed
  <2>2. CASE h.kind = "settlement"
    <3>1. h.called \/ store.in
      BY <1>0, <1>1, <2>2 DEF IInv, HandlerInv, SettlementInv
    <3>2. h.called \/ ~(handler[o].entry /\ handler[o].kind = h.kind /\ h.vstate = handler[o].vstate)
      BY <2>2, <3>1 DEF matchSettlementProposal, Entry
    <3> QED BY <1>0, <1>1, <1>2, <2>2, <3>2, EndsFacts DEF MatchNotMissed
  <2> QED BY <1>1, <2>1, <2>2, NoHandlerFacts DEF IInv, HandlerInv
<1> QED BY <1>2, <1>3, <1>4, <1>5, <1>6, <1>7, <1>8, <1>9 DEF IInv

\* forceFinalState fails: an entry is made.
LEMMA forceFails ==
  ASSUME IInv, NEW e \in Ends, ~panicked, NotMatched(e), UNCHANGED <<endVars, hub, store, watch, net, panicked>>,
         \/ handler[e].pc = "sign" /\ ~CanAddSigs(handler[e].vstate)
         \/ handler[e].pc = "enable" /\ ~CanEnable(TRUE)
  PROVE  IInv'
<1> DEFINE h == handler[e]
           o == Other(e)
<1>0. o \in Ends /\ o # e /\ Other(o) = e /\ (\A x \in Ends : x = e \/ x = o)
  BY OtherFacts
<1>1. /\ UNCHANGED <<endVars, hub, store, watch, net, panicked>>
      /\ prop' = prop /\ UNCHANGED <<parent, virtual, op, chain>>
      /\ h.pc \in {"sign", "enable"} /\ h.kind = "settlement" /\ handler[o].pc \in Waiting
      /\ h.vstate.IsFinal = TRUE
  <2>1. h.pc \in {"sign", "enable"}
    OBVIOUS
  <2>2. h.kind = "settlement"
    BY <2>1, NoHandlerFacts DEF IInv, HandlerInv, FundingInv, Waiting
  <2>3. h.vstate = virtual[e].cur /\ h.vstate.IsFinal /\ handler[o].pc \in Waiting
    BY <1>0, <2>1, <2>2 DEF IInv, HandlerInv, SettlementInv, Matching
  <2> QED BY <2>1, <2>2, <2>3 DEF endVars, IInv, States, IsV
<1>2. /\ handler'[e].pc = "await" /\ handler'[e].kind = h.kind /\ handler'[e].req = h.req
      /\ handler'[e].vstate = h.vstate /\ handler'[e].entry
      /\ (handler'[e].matched <=> h.matched) /\ (handler'[e].called <=> h.called)
      /\ handler'[o] = handler[o] /\ HandlerShape'
  BY <1>1, NotMatchedFacts
<1>21. chain # NotRegistered
  <2>1. CASE h.pc = "sign"
    BY <2>1 DEF IInv, Undisturbed
  <2>2. CASE h.pc = "enable"
    BY <1>1, <2>2 DEF IInv, Undisturbed, CanEnable
  <2> QED BY <1>1, <2>1, <2>2
<1>3. /\ EndShape' /\ HubShape' /\ States' /\ StoreInv'
      /\ \A x \in Ends : EndInv(x)' /\ HubInv(x)'
  BY <1>1, Frame
<1>4. ASSUME NEW x \in Ends PROVE HandlerInv(x)'
  <2>1. FundingInv(x)'
    BY <1>0, <1>1, <1>2, SameProp DEF IInv, HandlerInv, FundingInv, Waiting
  <2>2. SettlementInv(x)'
    BY <1>0, <1>1, <1>2, SameProp
    DEF IInv, HandlerInv, SettlementInv, Waiting, Matching, Forcing, Accepting, Settling
  <2> QED BY <1>0, <1>1, <1>2, <2>1, <2>2, NoHandlerFacts DEF IInv, HandlerInv, Waiting
<1>5. ASSUME NEW x \in Ends PROVE HalfSettled(x)'
  BY <1>0, <1>1, <1>2 DEF IInv, HandlerInv, SettlementInv, HalfSettled, Waiting
<1>6. ASSUME NEW m \in net' PROVE MsgInv(m)'
  BY <1>0, <1>1, <1>2, SameProp DEF IInv, MsgInv
<1>7. DisputeInv'
  BY <1>0, <1>1, <1>2 DEF IInv, DisputeInv, Sent, ForcedFinal
<1>8. Undisturbed'
  BY <1>0, <1>1, <1>2 DEF IInv, Undisturbed, CanAddSigs
<1>9. MatchNotMissed'
  BY <1>0, <1>1, <1>2, <1>21, EndsFacts DEF MatchNotMissed
<1> QED BY <1>2, <1>3, <1>4, <1>5, <1>6, <1>7, <1>8, <1>9 DEF IInv
-----------------------------------------------------------------------------
(* Steps of the hub that change its machines *)

LEMMA InitV ==
  /\ IsV(InitVirtual) /\ InitVirtual.Version = 0 /\ InitVirtual.IsFinal = FALSE
  /\ IsV(NotRegistered) /\ NotRegistered.Version = -1
<1>1. VirtualBals[1] \in Nat /\ VirtualBals[2] \in Nat /\ VirtualBals = <<VirtualBals[1], VirtualBals[2]>>
  BY BalsAssumption
<1>2. ASSUME NEW n \in Int PROVE IsV(State(n, VirtualBals, FALSE))
  <2> DEFINE v == State(n, VirtualBals, FALSE)
  <2>1. /\ v.Version = n /\ v.IsFinal = FALSE /\ v.Balances[1] = VirtualBals
    BY DEF State
  <2>2. v = State(v.Version, <<v.Balances[1][1], v.Balances[1][2]>>, v.IsFinal)
    <3> HIDE DEF v
    <3>1. <<v.Balances[1][1], v.Balances[1][2]>> = VirtualBals
      BY <1>1, <2>1
    <3>2. v = State(n, VirtualBals, FALSE)
      BY DEF v
    <3> QED BY <2>1, <3>1, <3>2
  <2>3. IsV(v)
    <3> HIDE DEF v
    <3>1. v.Balances[1][1] \in Int /\ v.Balances[1][2] \in Int /\ v.Version \in Int
      BY <1>1, <2>1
    <3>2. /\ v.Balances[1][1] + v.Balances[1][2] = VirtualBals[1] + VirtualBals[2]
          /\ v.Balances[1][2] >= VirtualBals[2]
      BY <1>1, <2>1
    <3>3. v.IsFinal \in BOOLEAN
      BY <2>1
    <3> QED BY <2>2, <3>1, <3>2, <3>3, Zenon DEF IsV
  <2> QED BY <2>3
<1>3. /\ InitVirtual.Version = 0 /\ InitVirtual.IsFinal = FALSE /\ NotRegistered.Version = -1
  BY DEF InitVirtual, NotRegistered, State
<1>4. IsV(InitVirtual)
  BY <1>2, 0 \in Int, Zenon DEF InitVirtual
<1>5. -1 \in Int
  OBVIOUS
<1>6. IsV(NotRegistered)
  BY <1>2, <1>5, Zenon DEF NotRegistered
<1> QED BY <1>3, <1>4, <1>6

LEMMA FundedVersion ==
  ASSUME NEW e \in Ends
  PROVE  F(e).Version = 1 /\ H0(e).Version = 0
  BY DEF F, Funded, H0, AddSubAlloc, State

LEMMA MatchedFacts ==
  ASSUME IInv, NEW e \in Ends, Matched(e), panicked' = panicked
  PROVE  /\ handler'[e].pc = "await" /\ handler'[e].kind = handler[e].kind
         /\ handler'[e].req = handler[e].req /\ handler'[e].vstate = handler[e].vstate
         /\ (handler'[e].entry <=> handler[e].entry) /\ handler'[e].matched
         /\ (handler'[e].called <=> handler[e].called)
         /\ handler'[Other(e)].pc = handler[Other(e)].pc
         /\ handler'[Other(e)].kind = handler[Other(e)].kind
         /\ handler'[Other(e)].req = handler[Other(e)].req
         /\ handler'[Other(e)].vstate = handler[Other(e)].vstate
         /\ ~handler'[Other(e)].entry /\ handler'[Other(e)].matched
         /\ (handler'[Other(e)].called <=> handler[Other(e)].called)
         /\ HandlerShape'
<1> DEFINE h == handler[e]
           k == handler[Other(e)]
           g == [h EXCEPT !.pc = "await", !.matched = TRUE]
           f == [k EXCEPT !.entry = FALSE, !.matched = TRUE]
<1>1. IsHandler(h) /\ IsHandler(k) /\ panicked' \in BOOLEAN
  BY OtherFacts DEF IInv, HandlerShape
<1>2. g = [pc |-> "await", kind |-> h.kind, req |-> h.req, vstate |-> h.vstate,
           entry |-> h.entry, matched |-> TRUE, called |-> h.called]
  BY <1>1, ExceptPcMatched
<1>3. f = [pc |-> k.pc, kind |-> k.kind, req |-> k.req, vstate |-> k.vstate,
           entry |-> FALSE, matched |-> TRUE, called |-> k.called]
  BY <1>1, ExceptEntryMatched
<1>4. /\ handler'[e] = g /\ handler'[Other(e)] = f
      /\ handler' = [x \in Ends |-> handler'[x]]
  BY OtherFacts DEF Matched
<1> HIDE DEF g, f
<1>5. IsHandler(g) /\ IsHandler(f)
  BY <1>1, <1>2, <1>3 DEF IsHandler
<1>6. HandlerShape'
  BY <1>1, <1>4, <1>5, OtherFacts DEF HandlerShape
<1> QED BY <1>2, <1>3, <1>4, <1>6

\* register finds a match in the funding watcher: the virtual channel is kept.
LEMMA registerFunding ==
  ASSUME IInv, NEW e \in Ends, ~panicked, handler[e].pc = "register", handler[e].kind = "funding",
         matchFundingProposal(e), persistVirtualChannel(handler[e].vstate), Matched(e),
         UNCHANGED <<endVars, hub, net, panicked>>
  PROVE  IInv'
<1> DEFINE h == handler[e]
           o == Other(e)
<1>0. o \in Ends /\ o # e /\ Other(o) = e /\ (\A x \in Ends : x = e \/ x = o)
  BY OtherFacts
<1>1. /\ UNCHANGED <<endVars, hub, net, panicked>> /\ prop' = prop /\ UNCHANGED <<parent, virtual, op, chain>>
      /\ Matched(e) /\ h.kind = "funding" /\ h.pc = "register"
      /\ handler[o].entry /\ handler[o].kind = "funding" /\ HubCovers
      /\ store' = [in |-> TRUE, phase |-> "Acting", cur |-> h.vstate, staging |-> h.vstate, signed |-> FALSE]
      /\ watch' = [pc |-> "next", ev |-> NotRegistered]
  BY DEF endVars, matchFundingProposal, Entry, persistVirtualChannel
<1>2. /\ handler'[e].pc = "await" /\ handler'[e].kind = h.kind /\ handler'[e].req = h.req
      /\ handler'[e].vstate = h.vstate /\ (handler'[e].entry <=> h.entry)
      /\ handler'[e].matched /\ (handler'[e].called <=> h.called)
      /\ handler'[o].pc = handler[o].pc /\ handler'[o].kind = handler[o].kind
      /\ handler'[o].req = handler[o].req /\ handler'[o].vstate = handler[o].vstate
      /\ ~handler'[o].entry /\ handler'[o].matched
      /\ (handler'[o].called <=> handler[o].called) /\ HandlerShape'
  BY <1>1, MatchedFacts
<1>21. /\ h.vstate = InitVirtual /\ store.phase = "none" /\ h.pc # "return"
       /\ hub[e].Version = 0 /\ hub[o].Version = 0
       /\ op[e].pc # "fund" /\ op[o].pc # "fund" /\ op[1].pc # "fund" /\ op[2].pc # "fund"
       /\ handler[o].pc \in Waiting /\ ~h.entry
  <2>1. /\ h.vstate = InitVirtual /\ store.phase = "none"
        /\ hub[e].Version = 0 /\ op[e].pc # "fund" /\ ~h.entry
    BY <1>1 DEF IInv, HandlerInv, FundingInv, Waiting
  <2>2. handler[o].pc \in Waiting
    BY <1>0, <1>1 DEF IInv, HandlerInv
  <2>3. hub[o].Version = 0 /\ op[o].pc # "fund"
    BY <1>0, <1>1, <2>2 DEF IInv, HandlerInv, FundingInv, Waiting
  <2> QED BY <1>0, <1>1, <2>1, <2>2, <2>3, EndsFacts
<1>3. /\ EndShape' /\ HubShape' /\ States' /\ StoreInv'
      /\ \A x \in Ends : EndInv(x)' /\ HubInv(x)'
  <2>1. EndShape' /\ HubShape'
    BY <1>0, <1>1, <1>2, <1>21, SameProp DEF IInv, EndShape, HubShape
  <2>2. States'
    BY <1>0, <1>1, <1>2, <1>21, InitV DEF IInv, States
  <2>3. StoreInv'
    BY <1>0, <1>1, <1>2, <1>21, SameProp DEF IInv, StoreInv
  <2>4. ASSUME NEW x \in Ends PROVE EndInv(x)'
    BY <1>0, <1>1, <1>2, <1>21, SameProp DEF IInv, EndInv
  <2>5. ASSUME NEW x \in Ends PROVE HubInv(x)'
    BY <1>0, <1>1, <1>2, <1>21, SameProp DEF IInv, HubInv, Settling
  <2> QED BY <2>1, <2>2, <2>3, <2>4, <2>5
<1>4. ASSUME NEW x \in Ends PROVE HandlerInv(x)'
  <2>1. FundingInv(x)'
    BY <1>0, <1>1, <1>2, <1>21, SameProp DEF IInv, HandlerInv, FundingInv, Waiting
  <2>2. SettlementInv(x)'
    BY <1>0, <1>1, <1>2, <1>21, SameProp
    DEF IInv, HandlerInv, SettlementInv, Waiting, Matching, Forcing, Accepting, Settling
  <2> QED BY <1>0, <1>1, <1>2, <2>1, <2>2, NoHandlerFacts DEF IInv, HandlerInv, Waiting
<1>5. ASSUME NEW x \in Ends PROVE HalfSettled(x)'
  BY <1>0, <1>1, <1>2, <1>21 DEF IInv, HalfSettled, Waiting
<1>6. ASSUME NEW m \in net' PROVE MsgInv(m)'
  BY <1>0, <1>1, <1>2, <1>21, SameProp DEF IInv, MsgInv
<1>7. DisputeInv'
  BY <1>0, <1>1, <1>2, <1>21 DEF IInv, DisputeInv, Sent, ForcedFinal
<1>8. Undisturbed'
  BY <1>0, <1>1, <1>2, <1>21 DEF IInv, Undisturbed, CanAddSigs
<1>9. MatchNotMissed'
  BY <1>0, <1>1, <1>2, <1>21, EndsFacts, SameProp DEF IInv, MatchNotMissed
<1> QED BY <1>2, <1>3, <1>4, <1>5, <1>6, <1>7, <1>8, <1>9 DEF IInv
\* A pc of forceFinalState or of the acceptances belongs to a settlement.
LEMMA MatchingFacts ==
  ASSUME IInv, NEW e \in Ends, handler[e].pc \in Matching
  PROVE  /\ handler[e].kind = "settlement" /\ handler[Other(e)].kind = "settlement"
         /\ handler[Other(e)].entry /\ handler[Other(e)].pc \in Waiting /\ ~handler[e].entry
         /\ virtual[e].cur = handler[e].vstate /\ virtual[Other(e)].cur = handler[e].vstate
         /\ handler[Other(e)].vstate = handler[e].vstate
         /\ handler[e].vstate.IsFinal = TRUE /\ store.phase # "none"
         /\ hub[e].Version # 0 /\ hub[Other(e)].Version # 0
<1> DEFINE h == handler[e]
           o == Other(e)
<1>0. o \in Ends
  BY OtherFacts
<1>1. h.kind = "settlement"
  BY NoHandlerFacts DEF IInv, HandlerInv, FundingInv, Waiting, Matching
<1>2. /\ handler[o].kind = "settlement" /\ handler[o].entry /\ handler[o].vstate = h.vstate
      /\ h.vstate = virtual[e].cur /\ h.vstate.IsFinal /\ hub[e].Version # 0
  BY <1>0, <1>1 DEF IInv, HandlerInv, SettlementInv
<1>3. virtual[o].cur = handler[o].vstate /\ hub[o].Version # 0 /\ handler[o].pc \in Waiting
  BY <1>0, <1>2 DEF IInv, HandlerInv, SettlementInv
<1>4. ~h.entry
  BY DEF IInv, HandlerInv, Waiting, Matching
<1>5. h.vstate.IsFinal = TRUE
  BY <1>2 DEF IInv, States, IsV
<1>6. store.phase # "none"
  BY <1>2 DEF IInv, HubInv
<1> QED BY <1>1, <1>2, <1>3, <1>4, <1>5, <1>6

\* When both ends have asked for the settlement of the same state, a staged state
\* is that one.
LEMMA StagedIsFinal ==
  ASSUME IInv, Sent(1), Sent(2), store.phase = "Signing", virtual[1].cur = virtual[2].cur
  PROVE  store.staging = virtual[1].cur
<1>1. ForcedFinal
  BY EndsFacts DEF IInv, DisputeInv, Ends
<1> QED BY <1>1 DEF ForcedFinal, Ends

\* forceFinalState: ForceUpdate.
LEMMA forceUpdate ==
  ASSUME IInv, NEW e \in Ends, ~panicked, handler[e].pc = "force", ForceUpdate(handler[e].vstate),
         Goto(e, "sign"), UNCHANGED <<endVars, hub, watch, net, panicked>>
  PROVE  IInv'
<1> DEFINE h == handler[e]
           o == Other(e)
<1>0. o \in Ends /\ o # e /\ Other(o) = e /\ (\A x \in Ends : x = e \/ x = o)
  BY OtherFacts
<1>1. /\ UNCHANGED <<endVars, hub, watch, net, panicked>> /\ prop' = prop /\ UNCHANGED <<parent, virtual, op, chain>>
      /\ h.pc = "force"
      /\ h.kind = "settlement" /\ handler[o].kind = "settlement" /\ handler[o].entry
      /\ handler[o].pc \in Waiting /\ ~h.entry /\ virtual[e].cur = h.vstate
      /\ virtual[o].cur = h.vstate /\ handler[o].vstate = h.vstate /\ h.vstate.IsFinal = TRUE
      /\ store.phase # "none" /\ hub[e].Version # 0 /\ hub[o].Version # 0
  BY <1>0, MatchingFacts DEF endVars, Matching
<1>2. /\ handler'[e].pc = "sign" /\ handler'[e].kind = h.kind /\ handler'[e].req = h.req
      /\ handler'[e].vstate = h.vstate /\ (handler'[e].entry <=> h.entry)
      /\ (handler'[e].matched <=> h.matched) /\ (handler'[e].called <=> h.called)
      /\ handler'[o] = handler[o] /\ HandlerShape'
  <2>1. panicked' \in BOOLEAN
    BY <1>1 DEF IInv, HandlerShape
  <2> QED BY <2>1, GotoFacts
<1>21. /\ store'.in = store.in /\ store'.phase = "Signing" /\ store'.cur = store.cur
       /\ store'.staging = h.vstate /\ store'.signed = FALSE
       /\ store' = [in |-> store'.in, phase |-> store'.phase, cur |-> store'.cur,
                    staging |-> store'.staging, signed |-> store'.signed]
  BY DEF ForceUpdate, IInv, HubShape
<1>3. /\ EndShape' /\ HubShape' /\ States' /\ StoreInv'
      /\ \A x \in Ends : EndInv(x)' /\ HubInv(x)'
  <2>1. EndShape' /\ HubShape'
    BY <1>0, <1>1, <1>2, <1>21, SameProp DEF IInv, EndShape, HubShape
  <2>2. States'
    BY <1>0, <1>1, <1>2, <1>21, InitV DEF IInv, States
  <2>3. StoreInv'
    BY <1>0, <1>1, <1>2, <1>21, SameProp DEF IInv, StoreInv
  <2>4. ASSUME NEW x \in Ends PROVE EndInv(x)'
    BY <1>0, <1>1, <1>2, <1>21, SameProp DEF IInv, EndInv
  <2>5. ASSUME NEW x \in Ends PROVE HubInv(x)'
    BY <1>0, <1>1, <1>2, <1>21, SameProp DEF IInv, HubInv, Settling
  <2> QED BY <2>1, <2>2, <2>3, <2>4, <2>5
<1>4. ASSUME NEW x \in Ends PROVE HandlerInv(x)'
  <2>1. FundingInv(x)'
    BY <1>0, <1>1, <1>2, <1>21, SameProp DEF IInv, HandlerInv, FundingInv, Waiting
  <2>2. SettlementInv(x)'
    BY <1>0, <1>1, <1>2, <1>21, SameProp
    DEF IInv, HandlerInv, SettlementInv, Waiting, Matching, Forcing, Accepting, Settling
  <2> QED BY <1>0, <1>1, <1>2, <2>1, <2>2, NoHandlerFacts DEF IInv, HandlerInv, Waiting
<1>5. ASSUME NEW x \in Ends PROVE HalfSettled(x)'
  BY <1>0, <1>1, <1>2, <1>21 DEF IInv, HalfSettled, Waiting
<1>6. ASSUME NEW m \in net' PROVE MsgInv(m)'
  BY <1>0, <1>1, <1>2, <1>21, SameProp DEF IInv, MsgInv
<1>7. DisputeInv'
  BY <1>0, <1>1, <1>2, <1>21 DEF IInv, DisputeInv, Sent, ForcedFinal
<1>8. Undisturbed'
  BY <1>0, <1>1, <1>2, <1>21 DEF IInv, Undisturbed, CanAddSigs, Waiting
<1>9. MatchNotMissed'
  BY <1>0, <1>1, <1>2, <1>21, EndsFacts, SameProp DEF IInv, MatchNotMissed
<1> QED BY <1>2, <1>3, <1>4, <1>5, <1>6, <1>7, <1>8, <1>9 DEF IInv

\* ... AddSig for both signatures.
LEMMA addSigs ==
  ASSUME IInv, NEW e \in Ends, ~panicked, handler[e].pc = "sign", CanAddSigs(handler[e].vstate), AddSigs,
         Goto(e, "enable"), UNCHANGED <<endVars, hub, watch, net, panicked>>
  PROVE  IInv'
<1> DEFINE h == handler[e]
           o == Other(e)
<1>0. o \in Ends /\ o # e /\ Other(o) = e /\ (\A x \in Ends : x = e \/ x = o)
  BY OtherFacts
<1>1. /\ UNCHANGED <<endVars, hub, watch, net, panicked>> /\ prop' = prop /\ UNCHANGED <<parent, virtual, op, chain>>
      /\ h.pc = "sign"
      /\ h.kind = "settlement" /\ handler[o].kind = "settlement" /\ handler[o].entry
      /\ handler[o].pc \in Waiting /\ ~h.entry /\ virtual[e].cur = h.vstate
      /\ virtual[o].cur = h.vstate /\ handler[o].vstate = h.vstate /\ h.vstate.IsFinal = TRUE
      /\ store.phase # "none" /\ hub[e].Version # 0 /\ hub[o].Version # 0
  BY <1>0, MatchingFacts DEF endVars, Matching
<1>2. /\ handler'[e].pc = "enable" /\ handler'[e].kind = h.kind /\ handler'[e].req = h.req
      /\ handler'[e].vstate = h.vstate /\ (handler'[e].entry <=> h.entry)
      /\ (handler'[e].matched <=> h.matched) /\ (handler'[e].called <=> h.called)
      /\ handler'[o] = handler[o] /\ HandlerShape'
  <2>1. panicked' \in BOOLEAN
    BY <1>1 DEF IInv, HandlerShape
  <2> QED BY <2>1, GotoFacts
<1>21. /\ store'.in = store.in /\ store'.phase = store.phase /\ store'.cur = store.cur
       /\ store'.staging = store.staging /\ store'.signed = TRUE
       /\ store' = [in |-> store'.in, phase |-> store'.phase, cur |-> store'.cur,
                    staging |-> store'.staging, signed |-> store'.signed]
       /\ store.phase = "Signing" /\ store.staging = h.vstate
  BY DEF AddSigs, CanAddSigs, IInv, HubShape
<1>3. /\ EndShape' /\ HubShape' /\ States' /\ StoreInv'
      /\ \A x \in Ends : EndInv(x)' /\ HubInv(x)'
  <2>1. EndShape' /\ HubShape'
    BY <1>0, <1>1, <1>2, <1>21, SameProp DEF IInv, EndShape, HubShape
  <2>2. States'
    BY <1>0, <1>1, <1>2, <1>21, InitV DEF IInv, States
  <2>3. StoreInv'
    BY <1>0, <1>1, <1>2, <1>21, SameProp DEF IInv, StoreInv
  <2>4. ASSUME NEW x \in Ends PROVE EndInv(x)'
    BY <1>0, <1>1, <1>2, <1>21, SameProp DEF IInv, EndInv
  <2>5. ASSUME NEW x \in Ends PROVE HubInv(x)'
    BY <1>0, <1>1, <1>2, <1>21, SameProp DEF IInv, HubInv, Settling
  <2> QED BY <2>1, <2>2, <2>3, <2>4, <2>5
<1>4. ASSUME NEW x \in Ends PROVE HandlerInv(x)'
  <2>1. FundingInv(x)'
    BY <1>0, <1>1, <1>2, <1>21, SameProp DEF IInv, HandlerInv, FundingInv, Waiting
  <2>2. SettlementInv(x)'
    BY <1>0, <1>1, <1>2, <1>21, SameProp
    DEF IInv, HandlerInv, SettlementInv, Waiting, Matching, Forcing, Accepting, Settling
  <2> QED BY <1>0, <1>1, <1>2, <2>1, <2>2, NoHandlerFacts DEF IInv, HandlerInv, Waiting
<1>5. ASSUME NEW x \in Ends PROVE HalfSettled(x)'
  BY <1>0, <1>1, <1>2, <1>21 DEF IInv, HalfSettled, Waiting
<1>6. ASSUME NEW m \in net' PROVE MsgInv(m)'
  BY <1>0, <1>1, <1>2, <1>21, SameProp DEF IInv, MsgInv
<1>7. DisputeInv'
  BY <1>0, <1>1, <1>2, <1>21 DEF IInv, DisputeInv, Sent, ForcedFinal
<1>8. Undisturbed'
  BY <1>0, <1>1, <1>2, <1>21 DEF IInv, Undisturbed, CanAddSigs, Waiting
<1>9. MatchNotMissed'
  BY <1>0, <1>1, <1>2, <1>21, EndsFacts, SameProp DEF IInv, MatchNotMissed
<1> QED BY <1>2, <1>3, <1>4, <1>5, <1>6, <1>7, <1>8, <1>9 DEF IInv

\* ... Enable.
LEMMA enableFinal ==
  ASSUME IInv, NEW e \in Ends, ~panicked, handler[e].pc = "enable", CanEnable(TRUE), Enable,
         Goto(e, "acceptFirst"), UNCHANGED <<endVars, hub, watch, net, panicked>>
  PROVE  IInv'
<1> DEFINE h == handler[e]
           o == Other(e)
<1>0. o \in Ends /\ o # e /\ Other(o) = e /\ (\A x \in Ends : x = e \/ x = o)
  BY OtherFacts
<1>1. /\ UNCHANGED <<endVars, hub, watch, net, panicked>> /\ prop' = prop /\ UNCHANGED <<parent, virtual, op, chain>>
      /\ h.pc = "enable"
      /\ h.kind = "settlement" /\ handler[o].kind = "settlement" /\ handler[o].entry
      /\ handler[o].pc \in Waiting /\ ~h.entry /\ virtual[e].cur = h.vstate
      /\ virtual[o].cur = h.vstate /\ handler[o].vstate = h.vstate /\ h.vstate.IsFinal = TRUE
      /\ store.phase # "none" /\ hub[e].Version # 0 /\ hub[o].Version # 0
  BY <1>0, MatchingFacts DEF endVars, Matching
<1>2. /\ handler'[e].pc = "acceptFirst" /\ handler'[e].kind = h.kind /\ handler'[e].req = h.req
      /\ handler'[e].vstate = h.vstate /\ (handler'[e].entry <=> h.entry)
      /\ (handler'[e].matched <=> h.matched) /\ (handler'[e].called <=> h.called)
      /\ handler'[o] = handler[o] /\ HandlerShape'
  <2>1. panicked' \in BOOLEAN
    BY <1>1 DEF IInv, HandlerShape
  <2> QED BY <2>1, GotoFacts
<1>21. /\ store'.in = store.in /\ store'.phase # "none" /\ store'.phase # "Signing"
       /\ store'.cur = h.vstate /\ store'.staging = InitVirtual /\ store'.signed = FALSE
       /\ store' = [in |-> store'.in, phase |-> store'.phase, cur |-> store'.cur,
                    staging |-> store'.staging, signed |-> store'.signed]
  <2>1. store.phase = "Signing"
    BY DEF CanEnable
  <2>2. Sent(1) /\ Sent(2) /\ virtual[1].cur = virtual[2].cur
    BY <1>0, <1>1, EndsFacts DEF Sent
  <2>3. store.staging = h.vstate
    BY <1>0, <1>1, <2>1, <2>2, StagedIsFinal, EndsFacts
  <2> QED BY <2>3 DEF Enable, IInv, HubShape
<1>22. hub[e].Version = 1 /\ hub[o].Version = 1
  BY <1>1 DEF IInv, HandlerInv, SettlementInv, Forcing
<1>3. /\ EndShape' /\ HubShape' /\ States' /\ StoreInv'
      /\ \A x \in Ends : EndInv(x)' /\ HubInv(x)'
  <2>1. EndShape' /\ HubShape'
    BY <1>0, <1>1, <1>2, <1>21, <1>22, SameProp DEF IInv, EndShape, HubShape
  <2>2. States'
    BY <1>0, <1>1, <1>2, <1>21, <1>22, InitV DEF IInv, States
  <2>3. StoreInv'
    BY <1>0, <1>1, <1>2, <1>21, <1>22, SameProp DEF IInv, StoreInv
  <2>4. ASSUME NEW x \in Ends PROVE EndInv(x)'
    BY <1>0, <1>1, <1>2, <1>21, <1>22, SameProp DEF IInv, EndInv
  <2>5. ASSUME NEW x \in Ends PROVE HubInv(x)'
    BY <1>0, <1>1, <1>2, <1>21, <1>22, SameProp DEF IInv, HubInv, Settling
  <2> QED BY <2>1, <2>2, <2>3, <2>4, <2>5
<1>4. ASSUME NEW x \in Ends PROVE HandlerInv(x)'
  <2>1. FundingInv(x)'
    BY <1>0, <1>1, <1>2, <1>21, <1>22, SameProp DEF IInv, HandlerInv, FundingInv, Waiting
  <2>2. SettlementInv(x)'
    BY <1>0, <1>1, <1>2, <1>21, <1>22, SameProp
    DEF IInv, HandlerInv, SettlementInv, Waiting, Matching, Forcing, Accepting, Settling
  <2> QED BY <1>0, <1>1, <1>2, <2>1, <2>2, NoHandlerFacts DEF IInv, HandlerInv, Waiting
<1>5. ASSUME NEW x \in Ends PROVE HalfSettled(x)'
  BY <1>0, <1>1, <1>2, <1>21, <1>22 DEF IInv, HalfSettled, Waiting
<1>6. ASSUME NEW m \in net' PROVE MsgInv(m)'
  BY <1>0, <1>1, <1>2, <1>21, <1>22, SameProp DEF IInv, MsgInv
<1>7. DisputeInv'
  BY <1>0, <1>1, <1>2, <1>21, <1>22 DEF IInv, DisputeInv, Sent, ForcedFinal
<1>8. Undisturbed'
  BY <1>0, <1>1, <1>2, <1>21, <1>22 DEF IInv, Undisturbed, CanAddSigs, Waiting
<1>9. MatchNotMissed'
  BY <1>0, <1>1, <1>2, <1>21, <1>22, EndsFacts, SameProp DEF IInv, MatchNotMissed
<1> QED BY <1>2, <1>3, <1>4, <1>5, <1>6, <1>7, <1>8, <1>9 DEF IInv

LEMMA closeVirtualStep ==
  ASSUME IInv, NEW e \in Ends, ~panicked, closeVirtual(e)
  PROVE  IInv'
<1> DEFINE h == handler[e]
           o == Other(e)
<1>0. o \in Ends /\ o # e /\ Other(o) = e /\ (\A x \in Ends : x = e \/ x = o)
  BY OtherFacts
<1>1. /\ UNCHANGED <<endVars, hub, watch, net, panicked>> /\ prop' = prop /\ UNCHANGED <<parent, virtual, op, chain>>
      /\ h.pc = "close" /\ Matched(e)
      /\ h.kind = "settlement" /\ handler[o].kind = "settlement" /\ handler[o].entry
      /\ handler[o].pc \in Waiting /\ ~h.entry /\ virtual[e].cur = h.vstate
      /\ virtual[o].cur = h.vstate /\ handler[o].vstate = h.vstate /\ h.vstate.IsFinal = TRUE
      /\ store.phase # "none" /\ hub[e].Version # 0 /\ hub[o].Version # 0
  BY <1>0, MatchingFacts DEF closeVirtual, endVars, Matching
<1>2. /\ handler'[e].pc = "await" /\ handler'[e].kind = h.kind /\ handler'[e].req = h.req
      /\ handler'[e].vstate = h.vstate /\ (handler'[e].entry <=> h.entry)
      /\ handler'[e].matched /\ (handler'[e].called <=> h.called)
      /\ handler'[o].pc = handler[o].pc /\ handler'[o].kind = handler[o].kind
      /\ handler'[o].req = handler[o].req /\ handler'[o].vstate = handler[o].vstate
      /\ ~handler'[o].entry /\ handler'[o].matched
      /\ (handler'[o].called <=> handler[o].called) /\ HandlerShape'
  BY <1>1, MatchedFacts
<1>21. /\ store'.in = FALSE /\ store'.phase = store.phase /\ store'.cur = store.cur
       /\ store'.staging = store.staging /\ (store'.signed <=> store.signed)
       /\ store' = [in |-> store'.in, phase |-> store'.phase, cur |-> store'.cur,
                    staging |-> store'.staging, signed |-> store'.signed]
       /\ store'.signed \in BOOLEAN
  BY DEF closeVirtual, IInv, HubShape
<1>22. hub[e].Version = 2 /\ hub[o].Version = 2 /\ h.called /\ handler[o].called
  <2>1. hub[e].Version = 2 /\ hub[o].Version = 2
    BY <1>1 DEF IInv, HandlerInv, SettlementInv
  <2>2. hub[e] # F(e) /\ hub[o] # F(o)
    BY <1>0, <2>1, FundedVersion
  <2> QED BY <1>0, <1>1, <2>1, <2>2 DEF IInv, HandlerInv, SettlementInv, Waiting
<1>3. /\ EndShape' /\ HubShape' /\ States' /\ StoreInv'
      /\ \A x \in Ends : EndInv(x)' /\ HubInv(x)'
  <2>1. EndShape' /\ HubShape'
    <3>1. EndShape'
      BY <1>1, SameProp DEF IInv, EndShape
    <3>2. hub' = [x \in Ends |-> hub'[x]] /\ watch' = [pc |-> watch'.pc, ev |-> watch'.ev]
      BY <1>1 DEF IInv, HubShape
    <3>3. store'.in \in BOOLEAN
      BY <1>21
    <3> QED BY <1>21, <3>1, <3>2, <3>3 DEF HubShape
  <2>2. States'
    BY <1>0, <1>1, <1>2, <1>21, <1>22, InitV DEF IInv, States
  <2>3. StoreInv'
    BY <1>0, <1>1, <1>2, <1>21, <1>22, SameProp DEF IInv, StoreInv
  <2>4. ASSUME NEW x \in Ends PROVE EndInv(x)'
    BY <1>0, <1>1, <1>2, <1>21, <1>22, SameProp DEF IInv, EndInv
  <2>5. ASSUME NEW x \in Ends PROVE HubInv(x)'
    BY <1>0, <1>1, <1>2, <1>21, <1>22, SameProp DEF IInv, HubInv, Settling
  <2> QED BY <2>1, <2>2, <2>3, <2>4, <2>5
<1>4. ASSUME NEW x \in Ends PROVE HandlerInv(x)'
  <2>1. FundingInv(x)'
    BY <1>0, <1>1, <1>2, <1>21, <1>22, SameProp DEF IInv, HandlerInv, FundingInv, Waiting
  <2>2. SettlementInv(x)'
    BY <1>0, <1>1, <1>2, <1>21, <1>22, SameProp
    DEF IInv, HandlerInv, SettlementInv, Waiting, Matching, Forcing, Accepting, Settling
  <2> QED BY <1>0, <1>1, <1>2, <2>1, <2>2, NoHandlerFacts DEF IInv, HandlerInv, Waiting
<1>5. ASSUME NEW x \in Ends PROVE HalfSettled(x)'
  BY <1>0, <1>1, <1>2, <1>21, <1>22 DEF IInv, HalfSettled, Waiting
<1>6. ASSUME NEW m \in net' PROVE MsgInv(m)'
  BY <1>0, <1>1, <1>2, <1>21, <1>22, SameProp DEF IInv, MsgInv
<1>7. DisputeInv'
  BY <1>0, <1>1, <1>2, <1>21, <1>22 DEF IInv, DisputeInv, Sent, ForcedFinal
<1>8. Undisturbed'
  BY <1>0, <1>1, <1>2, <1>21, <1>22 DEF IInv, Undisturbed, CanAddSigs
<1>9. MatchNotMissed'
  BY <1>0, <1>1, <1>2, <1>21, <1>22, EndsFacts, SameProp DEF IInv, MatchNotMissed
<1> QED BY <1>2, <1>3, <1>4, <1>5, <1>6, <1>7, <1>8, <1>9 DEF IInv
-----------------------------------------------------------------------------
(* The hub's watcher *)

\* watchVirtual sees a newer state on the chain.
LEMMA watchVirtualStep ==
  ASSUME IInv, store.in, chain.Version > store.cur.Version,
         watch' = [pc |-> "force", ev |-> chain], UNCHANGED store,
         UNCHANGED <<endVars, hub, handler, net, panicked>>
  PROVE  IInv'
<1>1. /\ UNCHANGED <<endVars, hub, handler, net, panicked>> /\ prop' = prop /\ UNCHANGED <<parent, virtual, op, chain>>
  BY DEF endVars
<1>2. /\ watch'.pc = "force" /\ watch'.ev = chain /\ watch' = [pc |-> watch'.pc, ev |-> watch'.ev]
      /\ store' = store /\ store.phase # "none"
      /\ chain.Version \in Int /\ chain.Version >= 0 /\ chain # NotRegistered
      /\ \A x \in Ends : hub[x].Version # 0
  <2>1. /\ store.cur.Version \in Int /\ store.cur.Version >= 0 /\ chain.Version \in Int
    BY DEF IInv, States, IsV
  <2>2. \A x \in Ends : hub[x].Version # 0
    BY <2>1, InitV DEF IInv, HubInv
  <2> QED BY <2>1, <2>2, InitV DEF IInv, StoreInv
<1>3. EndShape' /\ HandlerShape'
  BY <1>1, SameProp DEF IInv, EndShape, HandlerShape
<1>4. HubShape'
  BY <1>1, <1>2 DEF IInv, HubShape
<1>5. States'
  BY <1>1, <1>2, InitV DEF IInv, States
<1>6. StoreInv'
  BY <1>1, <1>2, SameProp DEF IInv, StoreInv
<1>7. ASSUME NEW x \in Ends PROVE EndInv(x)' /\ HalfSettled(x)'
  <2>1. EndInv(x)'
    BY <1>1, SameProp DEF IInv, EndInv
  <2>2. HalfSettled(x)'
    BY <1>1 DEF IInv, HalfSettled
  <2> QED BY <2>1, <2>2
<1>8. ASSUME NEW x \in Ends PROVE HubInv(x)'
  BY <1>1, <1>2, SameProp DEF IInv, HubInv, Settling
<1>9. ASSUME NEW x \in Ends PROVE HandlerInv(x)'
  <2>1. FundingInv(x)'
    BY <1>1, <1>2, SameProp DEF IInv, HandlerInv, FundingInv
  <2>2. SettlementInv(x)'
    BY <1>1, <1>2, SameProp DEF IInv, HandlerInv, SettlementInv, Settling
  <2> QED BY <1>1, <2>1, <2>2 DEF IInv, HandlerInv
<1>10. ASSUME NEW m \in net' PROVE MsgInv(m)'
  BY <1>1, <1>2, SameProp DEF IInv, MsgInv
<1>11. DisputeInv'
  BY <1>1, <1>2 DEF IInv, DisputeInv, Sent, ForcedFinal
<1>12. Undisturbed'
  BY <1>1, <1>2 DEF IInv, Undisturbed, CanAddSigs
<1>13. MatchNotMissed'
  BY <1>1, SameProp DEF IInv, MatchNotMissed
<1> QED BY <1>3, <1>4, <1>5, <1>6, <1>7, <1>8, <1>9, <1>10, <1>11, <1>12, <1>13 DEF IInv

\* pushVirtualUpdate: ForceUpdate.
LEMMA pushForce ==
  ASSUME IInv, watch.pc = "force", ForceUpdate(watch.ev),
         watch' = [watch EXCEPT !.pc = "sign"],
         UNCHANGED <<endVars, hub, handler, net, panicked>>
  PROVE  IInv'
<1>1. /\ UNCHANGED <<endVars, hub, handler, net, panicked>> /\ prop' = prop /\ UNCHANGED <<parent, virtual, op, chain>>
  BY DEF endVars
<1>2. /\ watch.pc = "force" /\ store.phase # "none" /\ watch.ev.Version >= 0
      /\ watch'.pc = "sign" /\ watch'.ev = watch.ev /\ watch' = [pc |-> watch'.pc, ev |-> watch'.ev]
      /\ (store'.in <=> store.in) /\ store'.phase = "Signing" /\ store'.cur = store.cur
      /\ store'.staging = watch.ev /\ store'.signed = FALSE
      /\ store' = [in |-> store'.in, phase |-> store'.phase, cur |-> store'.cur,
                   staging |-> store'.staging, signed |-> store'.signed]
      /\ store'.in \in BOOLEAN /\ store'.signed \in BOOLEAN
      /\ chain # NotRegistered /\ \A x \in Ends : hub[x].Version # 0
  <2>1. /\ chain # NotRegistered /\ \A x \in Ends : hub[x].Version # 0
    BY DEF IInv, Undisturbed, HubInv
  <2>2. watch.ev.Version >= 0 /\ store.phase # "none"
    BY DEF IInv, States, StoreInv
  <2>3. /\ (store'.in <=> store.in) /\ store'.phase = "Signing" /\ store'.cur = store.cur
        /\ store'.staging = watch.ev /\ store'.signed = FALSE
        /\ store' = [in |-> store'.in, phase |-> store'.phase, cur |-> store'.cur,
                   staging |-> store'.staging, signed |-> store'.signed]
        /\ store'.in \in BOOLEAN /\ store'.signed \in BOOLEAN
    BY DEF ForceUpdate, IInv, HubShape
  <2>4. watch'.pc = "sign" /\ watch'.ev = watch.ev /\ watch' = [pc |-> watch'.pc, ev |-> watch'.ev]
    BY DEF IInv, HubShape
  <2> QED BY <2>1, <2>2, <2>3, <2>4
<1>3. EndShape' /\ HandlerShape'
  BY <1>1, SameProp DEF IInv, EndShape, HandlerShape
<1>4. HubShape'
  BY <1>1, <1>2 DEF IInv, HubShape
<1>5. States'
  BY <1>1, <1>2, InitV DEF IInv, States
<1>6. StoreInv'
  BY <1>1, <1>2, SameProp DEF IInv, StoreInv
<1>7. ASSUME NEW x \in Ends PROVE EndInv(x)' /\ HalfSettled(x)'
  <2>1. EndInv(x)'
    BY <1>1, SameProp DEF IInv, EndInv
  <2>2. HalfSettled(x)'
    BY <1>1 DEF IInv, HalfSettled
  <2> QED BY <2>1, <2>2
<1>8. ASSUME NEW x \in Ends PROVE HubInv(x)'
  BY <1>1, <1>2, SameProp DEF IInv, HubInv, Settling
<1>9. ASSUME NEW x \in Ends PROVE HandlerInv(x)'
  <2>1. FundingInv(x)'
    BY <1>1, <1>2, SameProp DEF IInv, HandlerInv, FundingInv
  <2>2. SettlementInv(x)'
    BY <1>1, <1>2, SameProp DEF IInv, HandlerInv, SettlementInv, Settling
  <2> QED BY <1>1, <2>1, <2>2 DEF IInv, HandlerInv
<1>10. ASSUME NEW m \in net' PROVE MsgInv(m)'
  BY <1>1, <1>2, SameProp DEF IInv, MsgInv
<1>11. DisputeInv'
  BY <1>1, <1>2 DEF IInv, DisputeInv, Sent, ForcedFinal
<1>12. Undisturbed'
  BY <1>1, <1>2 DEF IInv, Undisturbed, CanAddSigs
<1>13. MatchNotMissed'
  BY <1>1, SameProp DEF IInv, MatchNotMissed
<1> QED BY <1>3, <1>4, <1>5, <1>6, <1>7, <1>8, <1>9, <1>10, <1>11, <1>12, <1>13 DEF IInv

\* ... AddSig.
LEMMA pushSign ==
  ASSUME IInv, watch.pc = "sign", AddSigs,
         watch' = [watch EXCEPT !.pc = "enable"],
         UNCHANGED <<endVars, hub, handler, net, panicked>>
  PROVE  IInv'
<1>1. /\ UNCHANGED <<endVars, hub, handler, net, panicked>> /\ prop' = prop /\ UNCHANGED <<parent, virtual, op, chain>>
  BY DEF endVars
<1>2. /\ watch.pc = "sign" /\ store.phase # "none" /\ watch.ev.Version >= 0
      /\ watch'.pc = "enable" /\ watch'.ev = watch.ev /\ watch' = [pc |-> watch'.pc, ev |-> watch'.ev]
      /\ (store'.in <=> store.in) /\ store'.phase = store.phase /\ store'.cur = store.cur
      /\ store'.staging = store.staging /\ store'.signed = TRUE
      /\ store' = [in |-> store'.in, phase |-> store'.phase, cur |-> store'.cur,
                   staging |-> store'.staging, signed |-> store'.signed]
      /\ store'.in \in BOOLEAN /\ store'.signed \in BOOLEAN
      /\ chain # NotRegistered /\ \A x \in Ends : hub[x].Version # 0
  <2>1. /\ chain # NotRegistered /\ \A x \in Ends : hub[x].Version # 0
    BY DEF IInv, Undisturbed, HubInv
  <2>2. watch.ev.Version >= 0 /\ store.phase # "none"
    BY DEF IInv, States, StoreInv
  <2>3. /\ (store'.in <=> store.in) /\ store'.phase = store.phase /\ store'.cur = store.cur
        /\ store'.staging = store.staging /\ store'.signed = TRUE
        /\ store' = [in |-> store'.in, phase |-> store'.phase, cur |-> store'.cur,
                   staging |-> store'.staging, signed |-> store'.signed]
        /\ store'.in \in BOOLEAN /\ store'.signed \in BOOLEAN
    BY DEF AddSigs, IInv, HubShape
  <2>4. watch'.pc = "enable" /\ watch'.ev = watch.ev /\ watch' = [pc |-> watch'.pc, ev |-> watch'.ev]
    BY DEF IInv, HubShape
  <2> QED BY <2>1, <2>2, <2>3, <2>4
<1>3. EndShape' /\ HandlerShape'
  BY <1>1, SameProp DEF IInv, EndShape, HandlerShape
<1>4. HubShape'
  BY <1>1, <1>2 DEF IInv, HubShape
<1>5. States'
  BY <1>1, <1>2, InitV DEF IInv, States
<1>6. StoreInv'
  BY <1>1, <1>2, SameProp DEF IInv, StoreInv
<1>7. ASSUME NEW x \in Ends PROVE EndInv(x)' /\ HalfSettled(x)'
  <2>1. EndInv(x)'
    BY <1>1, SameProp DEF IInv, EndInv
  <2>2. HalfSettled(x)'
    BY <1>1 DEF IInv, HalfSettled
  <2> QED BY <2>1, <2>2
<1>8. ASSUME NEW x \in Ends PROVE HubInv(x)'
  BY <1>1, <1>2, SameProp DEF IInv, HubInv, Settling
<1>9. ASSUME NEW x \in Ends PROVE HandlerInv(x)'
  <2>1. FundingInv(x)'
    BY <1>1, <1>2, SameProp DEF IInv, HandlerInv, FundingInv
  <2>2. SettlementInv(x)'
    BY <1>1, <1>2, SameProp DEF IInv, HandlerInv, SettlementInv, Settling
  <2> QED BY <1>1, <2>1, <2>2 DEF IInv, HandlerInv
<1>10. ASSUME NEW m \in net' PROVE MsgInv(m)'
  BY <1>1, <1>2, SameProp DEF IInv, MsgInv
<1>11. DisputeInv'
  BY <1>1, <1>2 DEF IInv, DisputeInv, Sent, ForcedFinal
<1>12. Undisturbed'
  BY <1>1, <1>2 DEF IInv, Undisturbed, CanAddSigs
<1>13. MatchNotMissed'
  BY <1>1, SameProp DEF IInv, MatchNotMissed
<1> QED BY <1>3, <1>4, <1>5, <1>6, <1>7, <1>8, <1>9, <1>10, <1>11, <1>12, <1>13 DEF IInv

\* ... a step that fails ends the push.
LEMMA pushFails ==
  ASSUME IInv, watch.pc \in {"sign", "enable"}, watch' = [watch EXCEPT !.pc = "next"], UNCHANGED store,
         UNCHANGED <<endVars, hub, handler, net, panicked>>
  PROVE  IInv'
<1>1. /\ UNCHANGED <<endVars, hub, handler, net, panicked>> /\ prop' = prop /\ UNCHANGED <<parent, virtual, op, chain>>
  BY DEF endVars
<1>2. /\ store' = store /\ watch.pc \in {"sign", "enable"}
      /\ watch'.pc = "next" /\ watch'.ev = watch.ev /\ watch' = [pc |-> watch'.pc, ev |-> watch'.ev]
      /\ chain # NotRegistered
  BY DEF IInv, HubShape, Undisturbed
<1>3. EndShape' /\ HandlerShape'
  BY <1>1, SameProp DEF IInv, EndShape, HandlerShape
<1>4. HubShape'
  BY <1>1, <1>2 DEF IInv, HubShape
<1>5. States'
  BY <1>1, <1>2, InitV DEF IInv, States
<1>6. StoreInv'
  BY <1>1, <1>2, SameProp DEF IInv, StoreInv
<1>7. ASSUME NEW x \in Ends PROVE EndInv(x)' /\ HalfSettled(x)'
  <2>1. EndInv(x)'
    BY <1>1, SameProp DEF IInv, EndInv
  <2>2. HalfSettled(x)'
    BY <1>1 DEF IInv, HalfSettled
  <2> QED BY <2>1, <2>2
<1>8. ASSUME NEW x \in Ends PROVE HubInv(x)'
  BY <1>1, <1>2, SameProp DEF IInv, HubInv, Settling
<1>9. ASSUME NEW x \in Ends PROVE HandlerInv(x)'
  <2>1. FundingInv(x)'
    BY <1>1, <1>2, SameProp DEF IInv, HandlerInv, FundingInv
  <2>2. SettlementInv(x)'
    BY <1>1, <1>2, SameProp DEF IInv, HandlerInv, SettlementInv, Settling
  <2> QED BY <1>1, <2>1, <2>2 DEF IInv, HandlerInv
<1>10. ASSUME NEW m \in net' PROVE MsgInv(m)'
  BY <1>1, <1>2, SameProp DEF IInv, MsgInv
<1>11. DisputeInv'
  BY <1>1, <1>2 DEF IInv, DisputeInv, Sent, ForcedFinal
<1>12. Undisturbed'
  BY <1>1, <1>2 DEF Undisturbed
<1>13. MatchNotMissed'
  BY <1>1, SameProp DEF IInv, MatchNotMissed
<1> QED BY <1>3, <1>4, <1>5, <1>6, <1>7, <1>8, <1>9, <1>10, <1>11, <1>12, <1>13 DEF IInv

\* ... Enable.
LEMMA pushEnable ==
  ASSUME IInv, watch.pc = "enable", CanEnable(watch.ev.IsFinal), Enable,
         watch' = [watch EXCEPT !.pc = "next"],
         UNCHANGED <<endVars, hub, handler, net, panicked>>
  PROVE  IInv'
<1>1. /\ UNCHANGED <<endVars, hub, handler, net, panicked>> /\ prop' = prop /\ UNCHANGED <<parent, virtual, op, chain>>
  BY DEF endVars
<1>2. /\ watch.pc = "enable" /\ store.phase = "Signing" /\ watch.ev.Version >= 0
      /\ watch'.pc = "next" /\ watch'.ev = watch.ev /\ watch' = [pc |-> watch'.pc, ev |-> watch'.ev]
      /\ (store'.in <=> store.in) /\ store'.phase # "none" /\ store'.phase # "Signing"
      /\ store'.cur = store.staging
      /\ store'.staging = InitVirtual /\ store'.signed = FALSE
      /\ store' = [in |-> store'.in, phase |-> store'.phase, cur |-> store'.cur,
                   staging |-> store'.staging, signed |-> store'.signed]
      /\ store'.in \in BOOLEAN /\ store'.signed \in BOOLEAN
      /\ chain # NotRegistered /\ \A x \in Ends : hub[x].Version # 0
  <2>1. /\ chain # NotRegistered /\ \A x \in Ends : hub[x].Version # 0
    BY DEF IInv, Undisturbed, HubInv
  <2>2. watch.ev.Version >= 0 /\ store.phase # "none"
    BY DEF IInv, States, StoreInv
  <2>3. /\ (store'.in <=> store.in) /\ store'.phase # "none" /\ store'.phase # "Signing"
        /\ store'.cur = store.staging /\ store'.staging = InitVirtual /\ store'.signed = FALSE
        /\ store' = [in |-> store'.in, phase |-> store'.phase, cur |-> store'.cur,
                   staging |-> store'.staging, signed |-> store'.signed]
        /\ store'.in \in BOOLEAN /\ store'.signed \in BOOLEAN
    BY DEF Enable, IInv, HubShape
  <2>4. watch'.pc = "next" /\ watch'.ev = watch.ev /\ watch' = [pc |-> watch'.pc, ev |-> watch'.ev]
    BY DEF IInv, HubShape
  <2> QED BY <2>1, <2>2, <2>3, <2>4 DEF CanEnable
<1>21. ASSUME NEW x \in Ends, hub[x].Version = 2 PROVE store.staging = virtual[x].cur
  <2>1. virtual[1].cur = virtual[2].cur /\ virtual[x].cur = virtual[1].cur
    BY <1>21, OtherFacts, EndsFacts DEF IInv, HubInv, Ends
  <2>2. Sent(x) /\ Sent(Other(x))
    BY <1>21, OtherFacts DEF Sent, IInv, HalfSettled
  <2> QED BY <1>2, <2>1, <2>2, StagedIsFinal, EndsFacts DEF Ends
<1>22. ASSUME NEW x \in Ends, handler[x].kind = "settlement", handler[x].pc \in Accepting
       PROVE  store.staging = handler[x].vstate
  <2>1. handler[x].pc \in Matching
    BY <1>22 DEF Matching, Accepting
  <2>2. virtual[1].cur = virtual[2].cur /\ handler[x].vstate = virtual[1].cur
    BY <2>1, MatchingFacts, EndsFacts DEF Ends
  <2>3. Sent(x) /\ Sent(Other(x))
    BY <2>1, MatchingFacts, OtherFacts DEF Sent
  <2> QED BY <1>2, <2>2, <2>3, StagedIsFinal, EndsFacts DEF Ends
<1>3. EndShape' /\ HandlerShape'
  BY <1>1, SameProp DEF IInv, EndShape, HandlerShape
<1>4. HubShape'
  BY <1>1, <1>2 DEF IInv, HubShape
<1>5. States'
  BY <1>1, <1>2, InitV DEF IInv, States
<1>6. StoreInv'
  BY <1>1, <1>2, SameProp DEF IInv, StoreInv
<1>7. ASSUME NEW x \in Ends PROVE EndInv(x)' /\ HalfSettled(x)'
  <2>1. EndInv(x)'
    BY <1>1, SameProp DEF IInv, EndInv
  <2>2. HalfSettled(x)'
    BY <1>1 DEF IInv, HalfSettled
  <2> QED BY <2>1, <2>2
<1>8. ASSUME NEW x \in Ends PROVE HubInv(x)'
  BY <1>1, <1>2, <1>21, SameProp DEF IInv, HubInv, Settling
<1>9. ASSUME NEW x \in Ends PROVE HandlerInv(x)'
  <2>1. FundingInv(x)'
    BY <1>1, <1>2, SameProp DEF IInv, HandlerInv, FundingInv
  <2>2. SettlementInv(x)'
    BY <1>1, <1>2, <1>22, SameProp DEF IInv, HandlerInv, SettlementInv, Settling
  <2> QED BY <1>1, <2>1, <2>2 DEF IInv, HandlerInv
<1>10. ASSUME NEW m \in net' PROVE MsgInv(m)'
  BY <1>1, <1>2, SameProp DEF IInv, MsgInv
<1>11. DisputeInv'
  BY <1>1, <1>2 DEF IInv, DisputeInv, Sent, ForcedFinal
<1>12. Undisturbed'
  BY <1>1, <1>2 DEF IInv, Undisturbed, CanAddSigs
<1>13. MatchNotMissed'
  BY <1>1, SameProp DEF IInv, MatchNotMissed
<1> QED BY <1>3, <1>4, <1>5, <1>6, <1>7, <1>8, <1>9, <1>10, <1>11, <1>12, <1>13 DEF IInv
-----------------------------------------------------------------------------
(* Acceptances *)

LEMMA AcceptFacts ==
  ASSUME IInv, NEW x \in Ends, NEW ok \in BOOLEAN, Accept(x, ok)
  PROVE  /\ panicked' \in BOOLEAN /\ (panicked' <=> handler[x].called)
         /\ \/ /\ ok /\ ~handler[x].called
               /\ hub'[x] = handler[x].req /\ hub'[Other(x)] = hub[Other(x)]
               /\ hub' = [y \in Ends |-> hub'[y]]
               /\ net' = net \cup {Msg("acc", x, handler[x].req, InitVirtual)}
            \/ /\ ~ok \/ handler[x].called
               /\ UNCHANGED <<hub, net>>
<1>1. handler[x].called \in BOOLEAN /\ panicked' = handler[x].called
  BY DEF IInv, HandlerShape, IsHandler, Accept
<1>2. CASE ok /\ ~handler[x].called
  <2>1. /\ hub' = [hub EXCEPT ![x] = handler[x].req]
        /\ net' = net \cup {Msg("acc", x, handler[x].req, InitVirtual)}
    BY <1>2 DEF Accept
  <2>2. hub = [y \in Ends |-> hub[y]]
    BY DEF IInv, HubShape
  <2>3. /\ hub'[x] = handler[x].req /\ hub'[Other(x)] = hub[Other(x)]
        /\ hub' = [y \in Ends |-> hub'[y]]
    BY <2>1, <2>2, OtherFacts
  <2> QED BY <1>1, <1>2, <2>1, <2>3
<1>3. CASE ~(ok /\ ~handler[x].called)
  BY <1>1, <1>3 DEF Accept
<1> QED BY <1>2, <1>3

LEMMA AccMsg ==
  ASSUME NEW e \in Ends, NEW s, NEW v
  PROVE  /\ Msg("acc", e, s, v).type = "acc" /\ Msg("acc", e, s, v).end = e
         /\ \A m : m = Msg("acc", e, s, v) => m = Msg(m.type, m.end, m.state, m.vstate)
  BY DEF Msg

LEMMA ExceptEntry ==
  ASSUME NEW h, IsHandler(h), NEW en
  PROVE  [h EXCEPT !.entry = en] =
              [pc |-> h.pc, kind |-> h.kind, req |-> h.req, vstate |-> h.vstate,
               entry |-> en, matched |-> h.matched, called |-> h.called]
  BY DEF IsHandler

LEMMA IsHandlerRecord ==
  ASSUME NEW h, NEW a, NEW k, NEW r, NEW v, NEW b \in BOOLEAN, NEW c \in BOOLEAN, NEW d \in BOOLEAN,
         h = [pc |-> a, kind |-> k, req |-> r, vstate |-> v, entry |-> b, matched |-> c, called |-> d]
  PROVE  /\ IsHandler(h) /\ h.pc = a /\ h.kind = k /\ h.req = r /\ h.vstate = v
         /\ (h.entry <=> b) /\ (h.matched <=> c) /\ (h.called <=> d)
<1>1. /\ h.pc = a /\ h.kind = k /\ h.req = r /\ h.vstate = v
      /\ h.entry = b /\ h.matched = c /\ h.called = d
  OBVIOUS
<1> QED BY <1>1 DEF IsHandler

\* How acceptMatched leaves the handlers; x is the one whose update is accepted.
Accepted(e, x, pc, en) ==
  /\ handler'[e].pc = pc /\ handler'[e].kind = handler[e].kind
  /\ handler'[e].req = handler[e].req /\ handler'[e].vstate = handler[e].vstate
  /\ (handler'[e].entry <=> en) /\ (handler'[e].matched <=> handler[e].matched)
  /\ (handler'[e].called <=> (x = e \/ handler[e].called))
  /\ x = e => handler'[Other(e)] = handler[Other(e)]
  /\ x # e =>
       /\ handler'[x].pc = handler[x].pc /\ handler'[x].kind = handler[x].kind
       /\ handler'[x].req = handler[x].req /\ handler'[x].vstate = handler[x].vstate
       /\ (handler'[x].entry <=> handler[x].entry) /\ handler'[x].called
       /\ (handler'[x].matched <=> handler[x].matched)
  /\ HandlerShape'

LEMMA AcceptedHandlers ==
  ASSUME IInv, NEW e \in Ends, NEW x \in Ends, NEW pc, NEW en \in BOOLEAN, panicked' \in BOOLEAN,
         handler' = [handler EXCEPT ![x].called = TRUE, ![e].pc = pc, ![e].entry = en]
  PROVE  Accepted(e, x, pc, en)
<1> DEFINE o == Other(e)
           f == [handler EXCEPT ![x].called = TRUE]
           k == [f EXCEPT ![e].pc = pc]
<1>0. o \in Ends /\ o # e /\ Other(o) = e /\ (\A y \in Ends : y = e \/ y = o)
  BY OtherFacts
<1>1. /\ handler = [y \in Ends |-> handler[y]] /\ \A y \in Ends : IsHandler(handler[y])
  BY DEF IInv, HandlerShape
<1>2. /\ f = [y \in Ends |-> f[y]] /\ f[x] = [handler[x] EXCEPT !.called = TRUE]
      /\ \A y \in Ends : y # x => f[y] = handler[y]
  BY <1>1
<1>3. f[x] = [pc |-> handler[x].pc, kind |-> handler[x].kind, req |-> handler[x].req,
              vstate |-> handler[x].vstate, entry |-> handler[x].entry,
              matched |-> handler[x].matched, called |-> TRUE]
  <2> HIDE DEF f
  <2> QED BY <1>1, <1>2, ExceptCalled
<1>4. IsHandler(f[x]) /\ IsHandler(f[e])
  <2> HIDE DEF f
  <2>1. IsHandler(f[x])
    <3>1. handler[x].entry \in BOOLEAN /\ handler[x].matched \in BOOLEAN
      BY <1>1 DEF IsHandler
    <3>2. PICK b \in BOOLEAN, c \in BOOLEAN, d \in BOOLEAN :
            b = handler[x].entry /\ c = handler[x].matched /\ d = TRUE
      BY <3>1, Zenon
    <3>20. PICK g : g = f[x]
      OBVIOUS
    <3>3. g = [pc |-> handler[x].pc, kind |-> handler[x].kind, req |-> handler[x].req,
               vstate |-> handler[x].vstate, entry |-> b, matched |-> c, called |-> d]
      BY <1>3, <3>2, <3>20
    <3>4. IsHandler(g)
      BY <3>3, IsHandlerRecord
    <3> QED BY <3>20, <3>4
  <2> QED BY <1>1, <1>2, <2>1
<1>5. /\ f[e].kind = handler[e].kind /\ f[e].req = handler[e].req /\ f[e].vstate = handler[e].vstate
      /\ (f[e].matched <=> handler[e].matched) /\ (f[e].called <=> (x = e \/ handler[e].called))
      /\ f[e].matched \in BOOLEAN /\ f[e].called \in BOOLEAN
  <2> HIDE DEF f
  <2>1. CASE x = e
    BY <1>3, <1>4, <2>1 DEF IsHandler
  <2>2. CASE x # e
    BY <1>2, <1>4, <2>2 DEF IsHandler
  <2> QED BY <2>1, <2>2
<1>6. /\ k = [y \in Ends |-> k[y]] /\ k[e] = [f[e] EXCEPT !.pc = pc]
      /\ \A y \in Ends : y # e => k[y] = f[y]
  <2> HIDE DEF f
  <2> QED BY <1>2
<1>7. k[e] = [pc |-> pc, kind |-> f[e].kind, req |-> f[e].req, vstate |-> f[e].vstate,
              entry |-> f[e].entry, matched |-> f[e].matched, called |-> f[e].called]
  <2> HIDE DEF f, k
  <2> QED BY <1>4, <1>6, ExceptPc
<1>8. IsHandler(k[e])
  <2> HIDE DEF f, k
  <2> QED BY <1>4, <1>7 DEF IsHandler
<1>9. handler' = [k EXCEPT ![e].entry = en]
  OBVIOUS
<1>10. /\ handler' = [y \in Ends |-> handler'[y]] /\ handler'[e] = [k[e] EXCEPT !.entry = en]
       /\ \A y \in Ends : y # e => handler'[y] = k[y]
  <2> HIDE DEF f, k
  <2> QED BY <1>6, <1>9
<1>11. handler'[e] = [pc |-> pc, kind |-> k[e].kind, req |-> k[e].req, vstate |-> k[e].vstate,
                      entry |-> en, matched |-> k[e].matched, called |-> k[e].called]
  <2> HIDE DEF f, k
  <2>1. k[e].pc = pc
    BY <1>7
  <2> QED BY <1>8, <1>10, <2>1, ExceptEntry
<1> HIDE DEF f, k
<1>12. /\ IsHandler(handler'[e]) /\ handler'[e].pc = pc /\ handler'[e].kind = k[e].kind
       /\ handler'[e].req = k[e].req /\ handler'[e].vstate = k[e].vstate
       /\ (handler'[e].entry <=> en) /\ (handler'[e].matched <=> k[e].matched)
       /\ (handler'[e].called <=> k[e].called)
  <2>1. k[e].matched \in BOOLEAN /\ k[e].called \in BOOLEAN
    BY <1>8 DEF IsHandler
  <2>2. PICK c \in BOOLEAN, d \in BOOLEAN : c = k[e].matched /\ d = k[e].called
    BY <2>1, Zenon
  <2>20. PICK g : g = handler'[e]
    OBVIOUS
  <2>3. g = [pc |-> pc, kind |-> k[e].kind, req |-> k[e].req, vstate |-> k[e].vstate,
             entry |-> en, matched |-> c, called |-> d]
    BY <1>11, <2>2, <2>20
  <2>4. /\ IsHandler(g) /\ g.pc = pc /\ g.kind = k[e].kind /\ g.req = k[e].req
        /\ g.vstate = k[e].vstate /\ (g.entry <=> en) /\ (g.matched <=> c) /\ (g.called <=> d)
    BY <2>3, IsHandlerRecord
  <2> QED BY <2>2, <2>20, <2>4
<1>13. \A y \in Ends : y # e => handler'[y] = f[y] /\ IsHandler(handler'[y])
  BY <1>0, <1>1, <1>2, <1>4, <1>6, <1>10
<1>14. HandlerShape'
  BY <1>10, <1>12, <1>13 DEF HandlerShape
<1>15. /\ handler'[e].pc = pc /\ handler'[e].kind = f[e].kind
       /\ handler'[e].req = f[e].req /\ handler'[e].vstate = f[e].vstate
       /\ (handler'[e].entry <=> en) /\ (handler'[e].matched <=> f[e].matched)
       /\ (handler'[e].called <=> f[e].called)
  BY <1>7, <1>12
<1>16. x # e => handler'[x] = f[x]
  BY <1>13
<1>17. x # e => /\ handler'[x].pc = handler[x].pc /\ handler'[x].kind = handler[x].kind
                /\ handler'[x].req = handler[x].req /\ handler'[x].vstate = handler[x].vstate
                /\ (handler'[x].entry <=> handler[x].entry) /\ handler'[x].called
                /\ (handler'[x].matched <=> handler[x].matched)
  BY <1>3, <1>16
<1>18. x = e => handler'[o] = handler[o]
  BY <1>0, <1>2, <1>13
<1> QED BY <1>5, <1>14, <1>15, <1>17, <1>18 DEF Accepted
\* acceptFirst: the acceptance is sent.
LEMMA acceptFirstOk ==
  ASSUME IInv, NEW e \in Ends, ~panicked, handler[e].pc = "acceptFirst", ~handler[e].called,
         hub'[e] = handler[e].req, hub'[Other(e)] = hub[Other(e)],
         hub' = [y \in Ends |-> hub'[y]],
         net' = net \cup {Msg("acc", e, handler[e].req, InitVirtual)},
         Accepted(e, e, "acceptSecond", FALSE),
         panicked' = FALSE, UNCHANGED <<endVars, store, watch>>
  PROVE  IInv'
<1> DEFINE h == handler[e]
           o == Other(e)
<1>0. o \in Ends /\ o # e /\ Other(o) = e /\ (\A x \in Ends : x = e \/ x = o)
  BY OtherFacts
<1>1. /\ UNCHANGED <<endVars, store, watch>> /\ prop' = prop /\ UNCHANGED <<parent, virtual, op, chain>>
      /\ h.pc = "acceptFirst" /\ ~h.called /\ panicked' = FALSE /\ ~panicked
      /\ hub'[e] = h.req /\ hub'[o] = hub[o]
      /\ h.kind = "settlement" /\ handler[o].kind = "settlement" /\ handler[o].entry
      /\ handler[o].pc \in Waiting /\ ~h.entry /\ virtual[e].cur = h.vstate
      /\ virtual[o].cur = h.vstate /\ handler[o].vstate = h.vstate /\ h.vstate.IsFinal = TRUE
      /\ store.phase # "none" /\ hub[e].Version # 0 /\ hub[o].Version # 0
  BY <1>0, MatchingFacts DEF endVars, Matching
<1>11. \A m \in net' : m \in net \/ m = Msg("acc", e, h.req, InitVirtual)
  OBVIOUS
<1>12. net \subseteq net'
  OBVIOUS
<1>2. /\ handler'[e].pc = "acceptSecond" /\ handler'[e].kind = h.kind /\ handler'[e].req = h.req
      /\ handler'[e].vstate = h.vstate /\ ~handler'[e].entry
      /\ (handler'[e].matched <=> h.matched) /\ handler'[e].called
      /\ handler'[o] = handler[o] /\ HandlerShape'
  BY <1>0 DEF Accepted
<1>21. hub[e].Version = 1 /\ hub[o].Version = 1 /\ store.cur = h.vstate
  BY <1>1 DEF IInv, HandlerInv, SettlementInv, Accepting
<1>22. /\ Settling(e, h.req, h.vstate) /\ h.req.Version = 2 /\ ~h.called
  <2>1. h.pc # "invalid"
    BY <1>1 DEF Waiting
  <2> QED BY <1>0, <1>1, <2>1 DEF IInv, HandlerInv, SettlementInv
<1>3. /\ EndShape' /\ HubShape' /\ States' /\ StoreInv'
      /\ \A x \in Ends : EndInv(x)' /\ HubInv(x)'
  <2>1. EndShape' /\ HubShape' /\ States' /\ StoreInv'
    <3>1. EndShape' /\ HubShape'
      BY <1>1, SameProp DEF IInv, EndShape, HubShape
    <3> QED BY <1>1, <3>1, SameProp DEF IInv, States, StoreInv
  <2>2. ASSUME NEW z \in Ends PROVE EndInv(z)'
    BY <1>0, <1>1, <1>2, <1>21, <1>22, SameProp DEF IInv, EndInv
  <2>3. ASSUME NEW z \in Ends PROVE HubInv(z)'
    <3>1. CASE z = e
      BY <1>0, <1>1, <1>2, <1>21, <1>22, <3>1, SameProp DEF IInv, HubInv, Settling
    <3>2. CASE z = o
      BY <1>0, <1>1, <1>2, <1>21, <1>22, <3>2, SameProp DEF IInv, HubInv, Settling
    <3> QED BY <1>0, <3>1, <3>2
  <2> QED BY <2>1, <2>2, <2>3
<1>4. ASSUME NEW x \in Ends PROVE HandlerInv(x)'
  <2>1. FundingInv(x)'
    BY <1>0, <1>1, <1>2, <1>21, <1>22, SameProp DEF IInv, HandlerInv, FundingInv, Waiting
  <2>2. SettlementInv(x)'
    <3>1. CASE x = e
      BY <1>0, <1>1, <1>2, <1>21, <1>22, <3>1, SameProp
      DEF IInv, HandlerInv, SettlementInv, Waiting, Matching, Forcing, Accepting, Settling
    <3>2. CASE x = o
      BY <1>0, <1>1, <1>2, <1>21, <1>22, <3>2, SameProp
      DEF IInv, HandlerInv, SettlementInv, Waiting, Matching, Forcing, Accepting, Settling
    <3> QED BY <1>0, <3>1, <3>2
  <2> QED BY <1>0, <1>1, <1>2, <2>1, <2>2, NoHandlerFacts DEF IInv, HandlerInv, Waiting
<1>5. ASSUME NEW x \in Ends PROVE HalfSettled(x)'
  BY <1>0, <1>1, <1>2, <1>21, <1>22 DEF IInv, HalfSettled, Waiting
<1>6. ASSUME NEW m \in net' PROVE MsgInv(m)'
  <2>1. CASE m \in net
    BY <1>0, <1>1, <1>2, <1>21, <1>22, <2>1, SameProp DEF IInv, MsgInv
  <2>2. CASE m = Msg("acc", e, h.req, InitVirtual)
    BY <1>0, <1>1, <1>2, <1>21, <1>22, <2>2, SameProp, AccMsg DEF MsgInv
  <2> QED BY <1>11, <2>1, <2>2
<1>7. DisputeInv'
  <2>1. ASSUME NEW z \in Ends, ~Sent(z) PROVE ~Sent(z)'
    BY <1>0, <1>1, <1>2, <1>21, <1>22, <1>11, <2>1, AccMsg DEF Sent
  <2> QED BY <1>0, <1>1, <1>2, <1>21, <1>22, <2>1 DEF IInv, DisputeInv, ForcedFinal
<1>8. Undisturbed'
  BY <1>0, <1>1, <1>2, <1>21, <1>22 DEF IInv, Undisturbed, CanAddSigs, Waiting
<1>9. MatchNotMissed'
  BY <1>0, <1>1, <1>2, <1>21, <1>22, EndsFacts, SameProp DEF IInv, MatchNotMissed
<1> QED BY <1>2, <1>3, <1>4, <1>5, <1>6, <1>7, <1>8, <1>9 DEF IInv

\* acceptFirst: the responder was used before.
LEMMA acceptFirstAgain ==
  ASSUME IInv, NEW e \in Ends, ~panicked, handler[e].pc = "acceptFirst", handler[e].called,
         panicked' \in BOOLEAN, panicked' <=> handler[e].called,
         Accepted(e, e, "acceptSecond", FALSE),
         UNCHANGED <<endVars, hub, net, store, watch>>
  PROVE  IInv'
<1> DEFINE h == handler[e]
           o == Other(e)
<1>0. o \in Ends /\ o # e /\ Other(o) = e /\ (\A x \in Ends : x = e \/ x = o)
  BY OtherFacts
<1>1. /\ UNCHANGED <<endVars, hub, net, store, watch>> /\ prop' = prop /\ UNCHANGED <<parent, virtual, op, chain>>
      /\ h.pc = "acceptFirst" /\ (panicked' <=> h.called) /\ panicked' \in BOOLEAN /\ panicked' /\ ~panicked
      /\ h.kind = "settlement" /\ handler[o].kind = "settlement" /\ handler[o].entry
      /\ handler[o].pc \in Waiting /\ ~h.entry /\ virtual[e].cur = h.vstate
      /\ virtual[o].cur = h.vstate /\ handler[o].vstate = h.vstate /\ h.vstate.IsFinal = TRUE
      /\ store.phase # "none" /\ hub[e].Version # 0 /\ hub[o].Version # 0
  BY <1>0, MatchingFacts DEF endVars, Matching
<1>2. /\ handler'[e].pc = "acceptSecond" /\ handler'[e].kind = h.kind /\ handler'[e].req = h.req
      /\ handler'[e].vstate = h.vstate /\ ~handler'[e].entry
      /\ (handler'[e].matched <=> h.matched) /\ handler'[e].called
      /\ handler'[o] = handler[o] /\ HandlerShape'
  BY <1>0 DEF Accepted
<1>21. hub[e].Version = 1 /\ hub[o].Version = 1 /\ store.cur = h.vstate
  BY <1>1 DEF IInv, HandlerInv, SettlementInv, Accepting
<1>3. /\ EndShape' /\ HubShape' /\ States' /\ StoreInv'
      /\ \A x \in Ends : EndInv(x)' /\ HubInv(x)'
  BY <1>1, Frame
<1>4. ASSUME NEW x \in Ends PROVE HandlerInv(x)'
  <2>1. FundingInv(x)'
    BY <1>0, <1>1, <1>2, <1>21, SameProp DEF IInv, HandlerInv, FundingInv, Waiting
  <2>2. SettlementInv(x)'
    <3>1. CASE x = e
      BY <1>0, <1>1, <1>2, <1>21, <3>1, SameProp
      DEF IInv, HandlerInv, SettlementInv, Waiting, Matching, Forcing, Accepting, Settling
    <3>2. CASE x = o
      BY <1>0, <1>1, <1>2, <1>21, <3>2, SameProp
      DEF IInv, HandlerInv, SettlementInv, Waiting, Matching, Forcing, Accepting, Settling
    <3> QED BY <1>0, <3>1, <3>2
  <2> QED BY <1>0, <1>1, <1>2, <2>1, <2>2, NoHandlerFacts DEF IInv, HandlerInv, Waiting
<1>5. ASSUME NEW x \in Ends PROVE HalfSettled(x)'
  BY <1>0, <1>1, <1>2, <1>21 DEF IInv, HalfSettled, Waiting
<1>6. ASSUME NEW m \in net' PROVE MsgInv(m)'
  BY <1>0, <1>1, <1>2, <1>21, SameProp DEF IInv, MsgInv
<1>7. DisputeInv'
  BY <1>0, <1>1, <1>2, <1>21 DEF IInv, DisputeInv, Sent, ForcedFinal
<1>8. Undisturbed'
  BY <1>0, <1>1, <1>2, <1>21 DEF IInv, Undisturbed, CanAddSigs, Waiting
<1>9. MatchNotMissed'
  BY <1>0, <1>1, <1>2, <1>21, EndsFacts, SameProp DEF IInv, MatchNotMissed
<1> QED BY <1>2, <1>3, <1>4, <1>5, <1>6, <1>7, <1>8, <1>9 DEF IInv

\* acceptFirst: the acceptance cannot be sent.
LEMMA acceptFirstFails ==
  ASSUME IInv, NEW e \in Ends, ~panicked, handler[e].pc = "acceptFirst",
         panicked' \in BOOLEAN, panicked' <=> handler[e].called,
         Accepted(e, e, "await", TRUE),
         UNCHANGED <<endVars, hub, net, store, watch>>
  PROVE  IInv'
<1> DEFINE h == handler[e]
           o == Other(e)
<1>0. o \in Ends /\ o # e /\ Other(o) = e /\ (\A x \in Ends : x = e \/ x = o)
  BY OtherFacts
<1>1. /\ UNCHANGED <<endVars, hub, net, store, watch>> /\ prop' = prop /\ UNCHANGED <<parent, virtual, op, chain>>
      /\ h.pc = "acceptFirst" /\ (panicked' <=> h.called) /\ panicked' \in BOOLEAN /\ ~panicked
      /\ h.kind = "settlement" /\ handler[o].kind = "settlement" /\ handler[o].entry
      /\ handler[o].pc \in Waiting /\ ~h.entry /\ virtual[e].cur = h.vstate
      /\ virtual[o].cur = h.vstate /\ handler[o].vstate = h.vstate /\ h.vstate.IsFinal = TRUE
      /\ store.phase # "none" /\ hub[e].Version # 0 /\ hub[o].Version # 0
  BY <1>0, MatchingFacts DEF endVars, Matching
<1>2. /\ handler'[e].pc = "await" /\ handler'[e].kind = h.kind /\ handler'[e].req = h.req
      /\ handler'[e].vstate = h.vstate /\ handler'[e].entry
      /\ (handler'[e].matched <=> h.matched) /\ handler'[e].called
      /\ handler'[o] = handler[o] /\ HandlerShape'
  BY <1>0 DEF Accepted
<1>21. hub[e].Version = 1 /\ hub[o].Version = 1 /\ store.cur = h.vstate
  BY <1>1 DEF IInv, HandlerInv, SettlementInv, Accepting
<1>3. /\ EndShape' /\ HubShape' /\ States' /\ StoreInv'
      /\ \A x \in Ends : EndInv(x)' /\ HubInv(x)'
  BY <1>1, Frame
<1>4. ASSUME NEW x \in Ends PROVE HandlerInv(x)'
  <2>1. FundingInv(x)'
    BY <1>0, <1>1, <1>2, <1>21, SameProp DEF IInv, HandlerInv, FundingInv, Waiting
  <2>2. SettlementInv(x)'
    <3>1. CASE x = e
      BY <1>0, <1>1, <1>2, <1>21, <3>1, SameProp
      DEF IInv, HandlerInv, SettlementInv, Waiting, Matching, Forcing, Accepting, Settling
    <3>2. CASE x = o
      BY <1>0, <1>1, <1>2, <1>21, <3>2, SameProp
      DEF IInv, HandlerInv, SettlementInv, Waiting, Matching, Forcing, Accepting, Settling
    <3> QED BY <1>0, <3>1, <3>2
  <2> QED BY <1>0, <1>1, <1>2, <2>1, <2>2, NoHandlerFacts DEF IInv, HandlerInv, Waiting
<1>5. ASSUME NEW x \in Ends PROVE HalfSettled(x)'
  BY <1>0, <1>1, <1>2, <1>21 DEF IInv, HalfSettled, Waiting
<1>6. ASSUME NEW m \in net' PROVE MsgInv(m)'
  BY <1>0, <1>1, <1>2, <1>21, SameProp DEF IInv, MsgInv
<1>7. DisputeInv'
  BY <1>0, <1>1, <1>2, <1>21 DEF IInv, DisputeInv, Sent, ForcedFinal
<1>8. Undisturbed'
  BY <1>0, <1>1, <1>2, <1>21 DEF IInv, Undisturbed, CanAddSigs, Waiting
<1>9. MatchNotMissed'
  BY <1>0, <1>1, <1>2, <1>21, EndsFacts, SameProp DEF IInv, MatchNotMissed
<1> QED BY <1>2, <1>3, <1>4, <1>5, <1>6, <1>7, <1>8, <1>9 DEF IInv

\* acceptSecond: the acceptance is sent.
LEMMA acceptSecondOk ==
  ASSUME IInv, NEW e \in Ends, ~panicked, handler[e].pc = "acceptSecond", ~handler[Other(e)].called,
         hub'[Other(e)] = handler[Other(e)].req, hub'[Other(Other(e))] = hub[Other(Other(e))],
         hub' = [y \in Ends |-> hub'[y]],
         net' = net \cup {Msg("acc", Other(e), handler[Other(e)].req, InitVirtual)},
         Accepted(e, Other(e), "close", FALSE),
         panicked' = FALSE, UNCHANGED <<endVars, store, watch>>
  PROVE  IInv'
<1> DEFINE h == handler[e]
           o == Other(e)
<1>0. o \in Ends /\ o # e /\ Other(o) = e /\ (\A x \in Ends : x = e \/ x = o)
  BY OtherFacts
<1>1. /\ UNCHANGED <<endVars, store, watch>> /\ prop' = prop /\ UNCHANGED <<parent, virtual, op, chain>>
      /\ h.pc = "acceptSecond" /\ ~handler[o].called /\ panicked' = FALSE /\ ~panicked
      /\ hub'[o] = handler[o].req /\ hub'[e] = hub[e]
      /\ h.kind = "settlement" /\ handler[o].kind = "settlement" /\ handler[o].entry
      /\ handler[o].pc \in Waiting /\ ~h.entry /\ virtual[e].cur = h.vstate
      /\ virtual[o].cur = h.vstate /\ handler[o].vstate = h.vstate /\ h.vstate.IsFinal = TRUE
      /\ store.phase # "none" /\ hub[e].Version # 0 /\ hub[o].Version # 0
  BY <1>0, MatchingFacts DEF endVars, Matching
<1>11. \A m \in net' : m \in net \/ m = Msg("acc", o, handler[o].req, InitVirtual)
  OBVIOUS
<1>12. net \subseteq net'
  OBVIOUS
<1>2. /\ handler'[e].pc = "close" /\ handler'[e].kind = h.kind /\ handler'[e].req = h.req
      /\ handler'[e].vstate = h.vstate /\ ~handler'[e].entry
      /\ (handler'[e].matched <=> h.matched) /\ (handler'[e].called <=> h.called)
      /\ handler'[o].pc = handler[o].pc /\ handler'[o].kind = handler[o].kind
      /\ handler'[o].req = handler[o].req /\ handler'[o].vstate = handler[o].vstate
      /\ (handler'[o].entry <=> handler[o].entry) /\ handler'[o].called
      /\ (handler'[o].matched <=> handler[o].matched) /\ HandlerShape'
  BY <1>0 DEF Accepted
<1>21. hub[e].Version = 2 /\ hub[o].Version = 1 /\ store.cur = h.vstate
  BY <1>1 DEF IInv, HandlerInv, SettlementInv, Accepting
<1>22. /\ Settling(o, handler[o].req, handler[o].vstate) /\ handler[o].req.Version = 2 /\ ~handler[o].called
  <2>1. handler[o].pc # "invalid"
    BY <1>1 DEF Waiting
  <2> QED BY <1>0, <1>1, <2>1 DEF IInv, HandlerInv, SettlementInv
<1>3. /\ EndShape' /\ HubShape' /\ States' /\ StoreInv'
      /\ \A x \in Ends : EndInv(x)' /\ HubInv(x)'
  <2>1. EndShape' /\ HubShape' /\ States' /\ StoreInv'
    <3>1. EndShape' /\ HubShape'
      BY <1>1, SameProp DEF IInv, EndShape, HubShape
    <3> QED BY <1>1, <3>1, SameProp DEF IInv, States, StoreInv
  <2>2. ASSUME NEW z \in Ends PROVE EndInv(z)'
    BY <1>0, <1>1, <1>2, <1>21, <1>22, SameProp DEF IInv, EndInv
  <2>3. ASSUME NEW z \in Ends PROVE HubInv(z)'
    <3>1. CASE z = o
      BY <1>0, <1>1, <1>2, <1>21, <1>22, <3>1, SameProp DEF IInv, HubInv, Settling
    <3>2. CASE z = e
      BY <1>0, <1>1, <1>2, <1>21, <1>22, <3>2, SameProp DEF IInv, HubInv, Settling
    <3> QED BY <1>0, <3>1, <3>2
  <2> QED BY <2>1, <2>2, <2>3
<1>4. ASSUME NEW x \in Ends PROVE HandlerInv(x)'
  <2>1. FundingInv(x)'
    BY <1>0, <1>1, <1>2, <1>21, <1>22, SameProp DEF IInv, HandlerInv, FundingInv, Waiting
  <2>2. SettlementInv(x)'
    <3>1. CASE x = e
      BY <1>0, <1>1, <1>2, <1>21, <1>22, <3>1, SameProp
      DEF IInv, HandlerInv, SettlementInv, Waiting, Matching, Forcing, Accepting, Settling
    <3>2. CASE x = o
      BY <1>0, <1>1, <1>2, <1>21, <1>22, <3>2, SameProp
      DEF IInv, HandlerInv, SettlementInv, Waiting, Matching, Forcing, Accepting, Settling
    <3> QED BY <1>0, <3>1, <3>2
  <2> QED BY <1>0, <1>1, <1>2, <2>1, <2>2, NoHandlerFacts DEF IInv, HandlerInv, Waiting
<1>5. ASSUME NEW x \in Ends PROVE HalfSettled(x)'
  BY <1>0, <1>1, <1>2, <1>21, <1>22 DEF IInv, HalfSettled, Waiting
<1>6. ASSUME NEW m \in net' PROVE MsgInv(m)'
  <2>1. CASE m \in net
    BY <1>0, <1>1, <1>2, <1>21, <1>22, <2>1, SameProp DEF IInv, MsgInv
  <2>2. CASE m = Msg("acc", o, handler[o].req, InitVirtual)
    BY <1>0, <1>1, <1>2, <1>21, <1>22, <2>2, SameProp, AccMsg DEF MsgInv
  <2> QED BY <1>11, <2>1, <2>2
<1>7. DisputeInv'
  <2>1. ASSUME NEW z \in Ends, ~Sent(z) PROVE ~Sent(z)'
    BY <1>0, <1>1, <1>2, <1>21, <1>22, <1>11, <2>1, AccMsg DEF Sent
  <2> QED BY <1>0, <1>1, <1>2, <1>21, <1>22, <2>1 DEF IInv, DisputeInv, ForcedFinal
<1>8. Undisturbed'
  BY <1>0, <1>1, <1>2, <1>21, <1>22 DEF IInv, Undisturbed, CanAddSigs, Waiting
<1>9. MatchNotMissed'
  BY <1>0, <1>1, <1>2, <1>21, <1>22, EndsFacts, SameProp DEF IInv, MatchNotMissed
<1> QED BY <1>2, <1>3, <1>4, <1>5, <1>6, <1>7, <1>8, <1>9 DEF IInv

\* acceptSecond: the responder was used before.
LEMMA acceptSecondAgain ==
  ASSUME IInv, NEW e \in Ends, ~panicked, handler[e].pc = "acceptSecond", handler[Other(e)].called,
         panicked' \in BOOLEAN, panicked' <=> handler[Other(e)].called,
         Accepted(e, Other(e), "close", FALSE),
         UNCHANGED <<endVars, hub, net, store, watch>>
  PROVE  IInv'
<1> DEFINE h == handler[e]
           o == Other(e)
<1>0. o \in Ends /\ o # e /\ Other(o) = e /\ (\A x \in Ends : x = e \/ x = o)
  BY OtherFacts
<1>1. /\ UNCHANGED <<endVars, hub, net, store, watch>> /\ prop' = prop /\ UNCHANGED <<parent, virtual, op, chain>>
      /\ h.pc = "acceptSecond" /\ (panicked' <=> handler[o].called) /\ panicked' \in BOOLEAN /\ panicked' /\ ~panicked
      /\ h.kind = "settlement" /\ handler[o].kind = "settlement" /\ handler[o].entry
      /\ handler[o].pc \in Waiting /\ ~h.entry /\ virtual[e].cur = h.vstate
      /\ virtual[o].cur = h.vstate /\ handler[o].vstate = h.vstate /\ h.vstate.IsFinal = TRUE
      /\ store.phase # "none" /\ hub[e].Version # 0 /\ hub[o].Version # 0
  BY <1>0, MatchingFacts DEF endVars, Matching
<1>2. /\ handler'[e].pc = "close" /\ handler'[e].kind = h.kind /\ handler'[e].req = h.req
      /\ handler'[e].vstate = h.vstate /\ ~handler'[e].entry
      /\ (handler'[e].matched <=> h.matched) /\ (handler'[e].called <=> h.called)
      /\ handler'[o].pc = handler[o].pc /\ handler'[o].kind = handler[o].kind
      /\ handler'[o].req = handler[o].req /\ handler'[o].vstate = handler[o].vstate
      /\ (handler'[o].entry <=> handler[o].entry) /\ handler'[o].called
      /\ (handler'[o].matched <=> handler[o].matched) /\ HandlerShape'
  BY <1>0 DEF Accepted
<1>21. hub[e].Version = 2 /\ hub[o].Version = 1 /\ store.cur = h.vstate
  BY <1>1 DEF IInv, HandlerInv, SettlementInv, Accepting
<1>3. /\ EndShape' /\ HubShape' /\ States' /\ StoreInv'
      /\ \A x \in Ends : EndInv(x)' /\ HubInv(x)'
  BY <1>1, Frame
<1>4. ASSUME NEW x \in Ends PROVE HandlerInv(x)'
  <2>1. FundingInv(x)'
    BY <1>0, <1>1, <1>2, <1>21, SameProp DEF IInv, HandlerInv, FundingInv, Waiting
  <2>2. SettlementInv(x)'
    <3>1. CASE x = e
      BY <1>0, <1>1, <1>2, <1>21, <3>1, SameProp
      DEF IInv, HandlerInv, SettlementInv, Waiting, Matching, Forcing, Accepting, Settling
    <3>2. CASE x = o
      BY <1>0, <1>1, <1>2, <1>21, <3>2, SameProp
      DEF IInv, HandlerInv, SettlementInv, Waiting, Matching, Forcing, Accepting, Settling
    <3> QED BY <1>0, <3>1, <3>2
  <2> QED BY <1>0, <1>1, <1>2, <2>1, <2>2, NoHandlerFacts DEF IInv, HandlerInv, Waiting
<1>5. ASSUME NEW x \in Ends PROVE HalfSettled(x)'
  BY <1>0, <1>1, <1>2, <1>21 DEF IInv, HalfSettled, Waiting
<1>6. ASSUME NEW m \in net' PROVE MsgInv(m)'
  BY <1>0, <1>1, <1>2, <1>21, SameProp DEF IInv, MsgInv
<1>7. DisputeInv'
  BY <1>0, <1>1, <1>2, <1>21 DEF IInv, DisputeInv, Sent, ForcedFinal
<1>8. Undisturbed'
  BY <1>0, <1>1, <1>2, <1>21 DEF IInv, Undisturbed, CanAddSigs, Waiting
<1>9. MatchNotMissed'
  BY <1>0, <1>1, <1>2, <1>21, EndsFacts, SameProp DEF IInv, MatchNotMissed
<1> QED BY <1>2, <1>3, <1>4, <1>5, <1>6, <1>7, <1>8, <1>9 DEF IInv

\* acceptSecond: the acceptance cannot be sent.
LEMMA acceptSecondFails ==
  ASSUME IInv, NEW e \in Ends, ~panicked, handler[e].pc = "acceptSecond",
         panicked' \in BOOLEAN, panicked' <=> handler[Other(e)].called,
         Accepted(e, Other(e), "await", TRUE),
         UNCHANGED <<endVars, hub, net, store, watch>>
  PROVE  IInv'
<1> DEFINE h == handler[e]
           o == Other(e)
<1>0. o \in Ends /\ o # e /\ Other(o) = e /\ (\A x \in Ends : x = e \/ x = o)
  BY OtherFacts
<1>1. /\ UNCHANGED <<endVars, hub, net, store, watch>> /\ prop' = prop /\ UNCHANGED <<parent, virtual, op, chain>>
      /\ h.pc = "acceptSecond" /\ (panicked' <=> handler[o].called) /\ panicked' \in BOOLEAN /\ ~panicked
      /\ h.kind = "settlement" /\ handler[o].kind = "settlement" /\ handler[o].entry
      /\ handler[o].pc \in Waiting /\ ~h.entry /\ virtual[e].cur = h.vstate
      /\ virtual[o].cur = h.vstate /\ handler[o].vstate = h.vstate /\ h.vstate.IsFinal = TRUE
      /\ store.phase # "none" /\ hub[e].Version # 0 /\ hub[o].Version # 0
  BY <1>0, MatchingFacts DEF endVars, Matching
<1>2. /\ handler'[e].pc = "await" /\ handler'[e].kind = h.kind /\ handler'[e].req = h.req
      /\ handler'[e].vstate = h.vstate /\ handler'[e].entry
      /\ (handler'[e].matched <=> h.matched) /\ (handler'[e].called <=> h.called)
      /\ handler'[o].pc = handler[o].pc /\ handler'[o].kind = handler[o].kind
      /\ handler'[o].req = handler[o].req /\ handler'[o].vstate = handler[o].vstate
      /\ (handler'[o].entry <=> handler[o].entry) /\ handler'[o].called
      /\ (handler'[o].matched <=> handler[o].matched) /\ HandlerShape'
  BY <1>0 DEF Accepted
<1>21. hub[e].Version = 2 /\ hub[o].Version = 1 /\ store.cur = h.vstate
  BY <1>1 DEF IInv, HandlerInv, SettlementInv, Accepting
<1>3. /\ EndShape' /\ HubShape' /\ States' /\ StoreInv'
      /\ \A x \in Ends : EndInv(x)' /\ HubInv(x)'
  BY <1>1, Frame
<1>4. ASSUME NEW x \in Ends PROVE HandlerInv(x)'
  <2>1. FundingInv(x)'
    BY <1>0, <1>1, <1>2, <1>21, SameProp DEF IInv, HandlerInv, FundingInv, Waiting
  <2>2. SettlementInv(x)'
    <3>1. CASE x = e
      BY <1>0, <1>1, <1>2, <1>21, <3>1, SameProp
      DEF IInv, HandlerInv, SettlementInv, Waiting, Matching, Forcing, Accepting, Settling
    <3>2. CASE x = o
      BY <1>0, <1>1, <1>2, <1>21, <3>2, SameProp
      DEF IInv, HandlerInv, SettlementInv, Waiting, Matching, Forcing, Accepting, Settling
    <3> QED BY <1>0, <3>1, <3>2
  <2> QED BY <1>0, <1>1, <1>2, <2>1, <2>2, NoHandlerFacts DEF IInv, HandlerInv, Waiting
<1>5. ASSUME NEW x \in Ends PROVE HalfSettled(x)'
  BY <1>0, <1>1, <1>2, <1>21 DEF IInv, HalfSettled, Waiting
<1>6. ASSUME NEW m \in net' PROVE MsgInv(m)'
  BY <1>0, <1>1, <1>2, <1>21, SameProp DEF IInv, MsgInv
<1>7. DisputeInv'
  BY <1>0, <1>1, <1>2, <1>21 DEF IInv, DisputeInv, Sent, ForcedFinal
<1>8. Undisturbed'
  BY <1>0, <1>1, <1>2, <1>21 DEF IInv, Undisturbed, CanAddSigs, Waiting
<1>9. MatchNotMissed'
  BY <1>0, <1>1, <1>2, <1>21, EndsFacts, SameProp DEF IInv, MatchNotMissed
<1> QED BY <1>2, <1>3, <1>4, <1>5, <1>6, <1>7, <1>8, <1>9 DEF IInv

LEMMA acceptFirstStep ==
  ASSUME IInv, NEW e \in Ends, acceptFirst(e), ~panicked
  PROVE  IInv'
<1>0. PICK x \in Ends : x = e
  BY OtherFacts
<1>1. handler[e].pc = "acceptFirst" /\ acceptMatched(e, "acceptSecond", x)
  BY <1>0 DEF acceptFirst
<1>2. PICK ok \in BOOLEAN :
        /\ Accept(x, ok) /\ UNCHANGED <<endVars, store, watch>>
        /\ handler' = [handler EXCEPT ![x].called = TRUE, ![e].pc = IF ok THEN "acceptSecond" ELSE "await",
                                      ![e].entry = ~ok]
  BY <1>1 DEF acceptMatched
<1>3. /\ panicked' \in BOOLEAN /\ (panicked' <=> handler[x].called)
      /\ \/ /\ ok /\ ~handler[x].called
            /\ hub'[x] = handler[x].req /\ hub'[Other(x)] = hub[Other(x)]
            /\ hub' = [y \in Ends |-> hub'[y]]
            /\ net' = net \cup {Msg("acc", x, handler[x].req, InitVirtual)}
         \/ /\ ~ok \/ handler[x].called
            /\ UNCHANGED <<hub, net>>
  BY <1>2, AcceptFacts
<1>4. CASE ok
  <2>1. handler' = [handler EXCEPT ![x].called = TRUE, ![e].pc = "acceptSecond", ![e].entry = FALSE]
    BY <1>2, <1>4
  <2>2. Accepted(e, x, "acceptSecond", FALSE)
    <3>1. PICK p : p = "acceptSecond"
      OBVIOUS
    <3>2. PICK en \in BOOLEAN : en = FALSE
      BY Zenon
    <3>3. Accepted(e, x, p, en)
      <4>1. handler' = [handler EXCEPT ![x].called = TRUE, ![e].pc = p, ![e].entry = en]
        BY <2>1, <3>1, <3>2
      <4> QED BY <1>3, <4>1, AcceptedHandlers
    <3> QED BY <3>1, <3>2, <3>3
  <2>3. CASE handler[x].called
    BY <1>0, <1>1, <1>2, <1>3, <2>2, <2>3, acceptFirstAgain
  <2>4. CASE ~handler[x].called
    <3>1. panicked' = FALSE
      BY <1>3, <2>4
    <3>2. /\ hub'[e] = handler[e].req /\ hub'[Other(e)] = hub[Other(e)]
          /\ net' = net \cup {Msg("acc", e, handler[e].req, InitVirtual)}
      BY <1>0, <1>3, <1>4, <2>4
    <3>3. hub' = [y \in Ends |-> hub'[y]]
      BY <1>3, <1>4, <2>4
    <3>4. ~handler[e].called /\ Accepted(e, e, "acceptSecond", FALSE)
      BY <1>0, <2>2, <2>4
    <3>5. handler[e].pc = "acceptFirst" /\ UNCHANGED <<endVars, store, watch>>
      BY <1>1, <1>2
    <3> QED BY <3>1, <3>2, <3>3, <3>4, <3>5, acceptFirstOk
  <2> QED BY <2>3, <2>4
<1>5. CASE ~ok
  <2>1. handler' = [handler EXCEPT ![x].called = TRUE, ![e].pc = "await", ![e].entry = TRUE]
    BY <1>2, <1>5
  <2>2. Accepted(e, x, "await", TRUE)
    <3>1. PICK p : p = "await"
      OBVIOUS
    <3>2. PICK en \in BOOLEAN : en = TRUE
      BY Zenon
    <3>3. Accepted(e, x, p, en)
      <4>1. handler' = [handler EXCEPT ![x].called = TRUE, ![e].pc = p, ![e].entry = en]
        BY <2>1, <3>1, <3>2
      <4> QED BY <1>3, <4>1, AcceptedHandlers
    <3> QED BY <3>1, <3>2, <3>3
  <2> QED BY <1>0, <1>1, <1>2, <1>3, <1>5, <2>2, acceptFirstFails
<1> QED BY <1>4, <1>5

LEMMA acceptSecondStep ==
  ASSUME IInv, NEW e \in Ends, acceptSecond(e), ~panicked
  PROVE  IInv'
<1>0. PICK x \in Ends : x = Other(e)
  BY OtherFacts
<1>1. handler[e].pc = "acceptSecond" /\ acceptMatched(e, "close", x)
  BY <1>0 DEF acceptSecond
<1>2. PICK ok \in BOOLEAN :
        /\ Accept(x, ok) /\ UNCHANGED <<endVars, store, watch>>
        /\ handler' = [handler EXCEPT ![x].called = TRUE, ![e].pc = IF ok THEN "close" ELSE "await",
                                      ![e].entry = ~ok]
  BY <1>1 DEF acceptMatched
<1>3. /\ panicked' \in BOOLEAN /\ (panicked' <=> handler[x].called)
      /\ \/ /\ ok /\ ~handler[x].called
            /\ hub'[x] = handler[x].req /\ hub'[Other(x)] = hub[Other(x)]
            /\ hub' = [y \in Ends |-> hub'[y]]
            /\ net' = net \cup {Msg("acc", x, handler[x].req, InitVirtual)}
         \/ /\ ~ok \/ handler[x].called
            /\ UNCHANGED <<hub, net>>
  BY <1>2, AcceptFacts
<1>4. CASE ok
  <2>1. handler' = [handler EXCEPT ![x].called = TRUE, ![e].pc = "close", ![e].entry = FALSE]
    BY <1>2, <1>4
  <2>2. Accepted(e, x, "close", FALSE)
    <3>1. PICK p : p = "close"
      OBVIOUS
    <3>2. PICK en \in BOOLEAN : en = FALSE
      BY Zenon
    <3>3. Accepted(e, x, p, en)
      <4>1. handler' = [handler EXCEPT ![x].called = TRUE, ![e].pc = p, ![e].entry = en]
        BY <2>1, <3>1, <3>2
      <4> QED BY <1>3, <4>1, AcceptedHandlers
    <3> QED BY <3>1, <3>2, <3>3
  <2>3. CASE handler[x].called
    BY <1>0, <1>1, <1>2, <1>3, <2>2, <2>3, acceptSecondAgain
  <2>4. CASE ~handler[x].called
    <3>1. panicked' = FALSE
      BY <1>3, <2>4
    <3>2. /\ hub'[Other(e)] = handler[Other(e)].req /\ hub'[Other(Other(e))] = hub[Other(Other(e))]
          /\ net' = net \cup {Msg("acc", Other(e), handler[Other(e)].req, InitVirtual)}
      BY <1>0, <1>3, <1>4, <2>4
    <3>3. hub' = [y \in Ends |-> hub'[y]]
      BY <1>3, <1>4, <2>4
    <3>4. ~handler[Other(e)].called /\ Accepted(e, Other(e), "close", FALSE)
      BY <1>0, <2>2, <2>4
    <3>5. handler[e].pc = "acceptSecond" /\ UNCHANGED <<endVars, store, watch>>
      BY <1>1, <1>2
    <3> QED BY <3>1, <3>2, <3>3, <3>4, <3>5, acceptSecondOk
  <2> QED BY <2>3, <2>4
<1>5. CASE ~ok
  <2>1. handler' = [handler EXCEPT ![x].called = TRUE, ![e].pc = "await", ![e].entry = TRUE]
    BY <1>2, <1>5
  <2>2. Accepted(e, x, "await", TRUE)
    <3>1. PICK p : p = "await"
      OBVIOUS
    <3>2. PICK en \in BOOLEAN : en = TRUE
      BY Zenon
    <3>3. Accepted(e, x, p, en)
      <4>1. handler' = [handler EXCEPT ![x].called = TRUE, ![e].pc = p, ![e].entry = en]
        BY <2>1, <3>1, <3>2
      <4> QED BY <1>3, <4>1, AcceptedHandlers
    <3> QED BY <3>1, <3>2, <3>3
  <2> QED BY <1>0, <1>1, <1>2, <1>3, <1>5, <2>2, acceptSecondFails
<1> QED BY <1>4, <1>5
\* handlerAccepts: the acceptance of a funding is sent.
LEMMA handlerAcceptsOk ==
  ASSUME IInv, NEW e \in Ends, ~panicked, handler[e].pc = "accept", ~handler[e].called,
         hub'[e] = handler[e].req, hub'[Other(e)] = hub[Other(e)],
         hub' = [y \in Ends |-> hub'[y]],
         net' = net \cup {Msg("acc", e, handler[e].req, InitVirtual)}, Goto(e, "return"),
         panicked' \in BOOLEAN, ~panicked', UNCHANGED <<endVars, store, watch>>
  PROVE  IInv'
<1> DEFINE h == handler[e]
           o == Other(e)
<1>0. o \in Ends /\ o # e /\ Other(o) = e /\ (\A x \in Ends : x = e \/ x = o)
  BY OtherFacts
<1>1. /\ UNCHANGED <<endVars, store, watch>> /\ prop' = prop /\ UNCHANGED <<parent, virtual, op, chain>>
      /\ ~panicked' /\ ~panicked /\ ~h.called
      /\ hub'[e] = F(e) /\ hub'[o] = hub[o]
      /\ h.pc = "accept" /\ h.kind = "funding" /\ h.req = F(e) /\ ~h.entry
      /\ (~h.called => h.matched) /\ hub[e].Version = 0
  <2>1. h.kind = "funding"
    BY NoHandlerFacts DEF IInv, HandlerInv, SettlementInv, Waiting, Matching
  <2> QED BY <1>0, <2>1 DEF endVars, IInv, HandlerInv, FundingInv, Waiting
<1>11. \A m \in net' : m \in net \/ m = Msg("acc", e, h.req, InitVirtual)
  OBVIOUS
<1>2. /\ handler'[e].pc = "return" /\ handler'[e].kind = h.kind /\ handler'[e].req = h.req
      /\ handler'[e].vstate = h.vstate /\ (handler'[e].entry <=> h.entry)
      /\ (handler'[e].matched <=> h.matched) /\ (handler'[e].called <=> h.called)
      /\ handler'[o] = handler[o] /\ HandlerShape'
  BY GotoFacts
<1>21. /\ F(e).Version = 1 /\ Len(IndexMap(e)) = 2 /\ store.phase # "none" /\ store.in /\ h.matched
  BY <1>1, FundedVersion DEF IInv, HandlerInv, FundingInv
<1>3. /\ EndShape' /\ HubShape' /\ States' /\ StoreInv'
      /\ \A x \in Ends : EndInv(x)' /\ HubInv(x)'
  <2>1. EndShape' /\ HubShape' /\ States' /\ StoreInv'
    <3>1. EndShape' /\ HubShape'
      BY <1>1, SameProp DEF IInv, EndShape, HubShape
    <3> QED BY <1>1, <3>1, SameProp DEF IInv, States, StoreInv
  <2>2. ASSUME NEW z \in Ends PROVE EndInv(z)'
    BY <1>0, <1>1, <1>2, <1>21, SameProp DEF IInv, EndInv
  <2>3. ASSUME NEW z \in Ends PROVE HubInv(z)'
    <3>1. CASE z = e
      BY <1>0, <1>1, <1>2, <1>21, <3>1, SameProp DEF IInv, HubInv, Settling
    <3>2. CASE z = o
      BY <1>0, <1>1, <1>2, <1>21, <3>2, SameProp DEF IInv, HubInv, Settling
    <3> QED BY <1>0, <3>1, <3>2
  <2> QED BY <2>1, <2>2, <2>3
<1>4. ASSUME NEW x \in Ends PROVE HandlerInv(x)'
  <2>1. FundingInv(x)'
    BY <1>0, <1>1, <1>2, <1>21, SameProp DEF IInv, HandlerInv, FundingInv, Waiting
  <2>2. SettlementInv(x)'
    BY <1>0, <1>1, <1>2, <1>21, SameProp
    DEF IInv, HandlerInv, SettlementInv, Waiting, Matching, Forcing, Accepting, Settling
  <2> QED BY <1>0, <1>1, <1>2, <2>1, <2>2, NoHandlerFacts DEF IInv, HandlerInv, Waiting
<1>5. ASSUME NEW x \in Ends PROVE HalfSettled(x)'
  BY <1>0, <1>1, <1>2, <1>21 DEF IInv, HalfSettled, Waiting
<1>6. ASSUME NEW m \in net' PROVE MsgInv(m)'
  <2>1. CASE m \in net
    BY <1>0, <1>1, <1>2, <1>21, <2>1, SameProp DEF IInv, MsgInv
  <2>2. CASE m = Msg("acc", e, h.req, InitVirtual)
    BY <1>0, <1>1, <1>2, <1>21, <2>2, SameProp, AccMsg DEF MsgInv
  <2> QED BY <1>11, <2>1, <2>2
<1>7. DisputeInv'
  <2>1. ASSUME NEW z \in Ends, ~Sent(z) PROVE ~Sent(z)'
    BY <1>0, <1>1, <1>2, <1>21, <1>11, <2>1, AccMsg DEF Sent
  <2> QED BY <1>0, <1>1, <1>2, <1>21, <2>1 DEF IInv, DisputeInv, ForcedFinal
<1>8. Undisturbed'
  BY <1>0, <1>1, <1>2, <1>21 DEF IInv, Undisturbed, CanAddSigs
<1>9. MatchNotMissed'
  BY <1>0, <1>1, <1>2, <1>21, EndsFacts, SameProp DEF IInv, MatchNotMissed
<1> QED BY <1>2, <1>3, <1>4, <1>5, <1>6, <1>7, <1>8, <1>9 DEF IInv

\* handlerAccepts: the acceptance cannot be sent, or the update was rejected before.
LEMMA handlerAcceptsFails ==
  ASSUME IInv, NEW e \in Ends, ~panicked, handler[e].pc = "accept", Goto(e, "return"),
         panicked' \in BOOLEAN, panicked' <=> handler[e].called,
         UNCHANGED <<endVars, hub, net, store, watch>>
  PROVE  IInv'
<1> DEFINE h == handler[e]
           o == Other(e)
<1>0. o \in Ends /\ o # e /\ Other(o) = e /\ (\A x \in Ends : x = e \/ x = o)
  BY OtherFacts
<1>1. /\ UNCHANGED <<endVars, hub, net, store, watch>> /\ prop' = prop /\ UNCHANGED <<parent, virtual, op, chain>>
      /\ (panicked' <=> h.called) /\ ~panicked
      /\ h.pc = "accept" /\ h.kind = "funding" /\ h.req = F(e) /\ ~h.entry
      /\ (~h.called => h.matched) /\ hub[e].Version = 0
  <2>1. h.kind = "funding"
    BY NoHandlerFacts DEF IInv, HandlerInv, SettlementInv, Waiting, Matching
  <2> QED BY <1>0, <2>1 DEF endVars, IInv, HandlerInv, FundingInv, Waiting
<1>2. /\ handler'[e].pc = "return" /\ handler'[e].kind = h.kind /\ handler'[e].req = h.req
      /\ handler'[e].vstate = h.vstate /\ (handler'[e].entry <=> h.entry)
      /\ (handler'[e].matched <=> h.matched) /\ (handler'[e].called <=> h.called)
      /\ handler'[o] = handler[o] /\ HandlerShape'
  BY GotoFacts
<1>3. /\ EndShape' /\ HubShape' /\ States' /\ StoreInv'
      /\ \A x \in Ends : EndInv(x)' /\ HubInv(x)'
  BY <1>1, Frame
<1>4. ASSUME NEW x \in Ends PROVE HandlerInv(x)'
  <2>1. FundingInv(x)'
    BY <1>0, <1>1, <1>2, SameProp DEF IInv, HandlerInv, FundingInv, Waiting
  <2>2. SettlementInv(x)'
    BY <1>0, <1>1, <1>2, SameProp
    DEF IInv, HandlerInv, SettlementInv, Waiting, Matching, Forcing, Accepting, Settling
  <2> QED BY <1>0, <1>1, <1>2, <2>1, <2>2, NoHandlerFacts DEF IInv, HandlerInv, Waiting
<1>5. ASSUME NEW x \in Ends PROVE HalfSettled(x)'
  BY <1>0, <1>1, <1>2 DEF IInv, HalfSettled, Waiting
<1>6. ASSUME NEW m \in net' PROVE MsgInv(m)'
  BY <1>0, <1>1, <1>2, SameProp DEF IInv, MsgInv
<1>7. DisputeInv'
  BY <1>0, <1>1, <1>2 DEF IInv, DisputeInv, Sent, ForcedFinal
<1>8. Undisturbed'
  BY <1>0, <1>1, <1>2 DEF IInv, Undisturbed, CanAddSigs
<1>9. MatchNotMissed'
  BY <1>0, <1>1, <1>2, EndsFacts, SameProp DEF IInv, MatchNotMissed
<1> QED BY <1>2, <1>3, <1>4, <1>5, <1>6, <1>7, <1>8, <1>9 DEF IInv

LEMMA handlerAcceptsStep ==
  ASSUME IInv, NEW e \in Ends, handlerAccepts(e), ~panicked
  PROVE  IInv'
<1>1. PICK ok \in BOOLEAN : Accept(e, ok)
  BY DEF handlerAccepts
<1>2. handler[e].pc = "accept" /\ Goto(e, "return") /\ UNCHANGED <<endVars, store, watch>>
  BY DEF handlerAccepts
<1>3. /\ panicked' \in BOOLEAN /\ (panicked' <=> handler[e].called)
      /\ \/ /\ ok /\ ~handler[e].called
            /\ hub'[e] = handler[e].req /\ hub'[Other(e)] = hub[Other(e)]
            /\ hub' = [y \in Ends |-> hub'[y]]
            /\ net' = net \cup {Msg("acc", e, handler[e].req, InitVirtual)}
         \/ /\ ~ok \/ handler[e].called
            /\ UNCHANGED <<hub, net>>
  BY <1>1, AcceptFacts
<1>4. CASE ok /\ ~handler[e].called
  BY <1>2, <1>3, <1>4, handlerAcceptsOk
<1>5. CASE ~(ok /\ ~handler[e].called)
  BY <1>2, <1>3, <1>5, handlerAcceptsFails
<1> QED BY <1>4, <1>5
-----------------------------------------------------------------------------
(* What the states of a parent hold *)

LEMMA Transform ==
  ASSUME NEW b \in [1..1 -> [1..2 -> Int]], NEW im \in Seq(Nat), Len(im) = 2
  PROVE  /\ transformBalances(b, 2, im) \in [1..1 -> [1..2 -> Int]]
         /\ transformBalances(b, 2, im)[1][2] =
              IF im[2] = 1 THEN b[1][2] ELSE IF im[1] = 1 THEN b[1][1] ELSE 0
<1> DEFINE last(q) == {p \in DOMAIN im :
                         /\ im[p] + 1 = q
                         /\ \A r \in DOMAIN im : im[r] + 1 = q => r <= p}
           t(a, q) == IF last(q) = {} THEN 0 ELSE b[a][CHOOSE p \in last(q) : TRUE]
<1>1. DOMAIN im = {1, 2} /\ im[1] \in Nat /\ im[2] \in Nat
  OBVIOUS
<1>2. ASSUME NEW q \in 1..2
      PROVE  last(q) = IF im[2] + 1 = q THEN {2} ELSE IF im[1] + 1 = q THEN {1} ELSE {}
  BY <1>1
<1>3. ASSUME NEW a \in 1..1, NEW q \in 1..2
      PROVE  t(a, q) = IF im[2] + 1 = q THEN b[a][2] ELSE IF im[1] + 1 = q THEN b[a][1] ELSE 0
  <2> HIDE DEF last
  <2>0. (CHOOSE p \in {1} : TRUE) = 1 /\ (CHOOSE p \in {2} : TRUE) = 2
    OBVIOUS
  <2>1. CASE im[2] + 1 = q
    <3>1. last(q) = {2}
      BY <1>2, <2>1
    <3> QED BY <2>0, <2>1, <3>1
  <2>2. CASE im[2] + 1 # q /\ im[1] + 1 = q
    <3>1. last(q) = {1}
      BY <1>2, <2>2
    <3> QED BY <2>0, <2>2, <3>1
  <2>3. CASE im[2] + 1 # q /\ im[1] + 1 # q
    BY <1>2, <2>3
  <2> QED BY <2>1, <2>2, <2>3
<1>4. transformBalances(b, 2, im) = [a \in 1..1 |-> [q \in 1..2 |-> t(a, q)]]
  BY DEF transformBalances
<1> HIDE DEF t
<1>5. \A a \in 1..1, q \in 1..2 : t(a, q) \in Int
  BY <1>3
<1>6. transformBalances(b, 2, im)[1][2] = t(1, 2)
  BY <1>4
<1>7. t(1, 2) = IF im[2] = 1 THEN b[1][2] ELSE IF im[1] = 1 THEN b[1][1] ELSE 0
  BY <1>1, <1>3
<1> QED BY <1>4, <1>5, <1>6, <1>7

LEMMA VirtualParts ==
  ASSUME NEW v, IsV(v)
  PROVE  NumParts(v) = 2 /\ v.Balances \in [1..1 -> [1..2 -> Int]]
<1>1. PICK a \in Int, b \in Int : a = v.Balances[1][1] /\ b = v.Balances[1][2]
  BY DEF IsV
<1>2. v.Balances = <<<<a, b>>>>
  BY <1>1 DEF IsV, State
<1> QED BY <1>2 DEF NumParts

LEMMA FundedFields ==
  ASSUME NEW e \in Ends, NEW im
  PROVE  /\ Funded(e, im).Balances = Minus(<<ParentBals[e]>>, transformBalances(<<VirtualBals>>, 2, im))
         /\ \E l : l.ID = ID /\ l.IndexMap = im /\ Funded(e, im).Locked = <<l>>
<1> DEFINE bals == translateBalances(InitVirtual, im)
           l == NewSubAlloc(ID, BalancesSum(bals), im)
<1>1. bals = transformBalances(<<VirtualBals>>, 2, im)
  BY InitV, VirtualParts DEF translateBalances, InitVirtual, State
<1>2. l.ID = ID /\ l.IndexMap = im
  BY DEF NewSubAlloc
<1> HIDE DEF bals, l
<1>3. Funded(e, im) = AddSubAlloc([H0(e) EXCEPT !.Version = @ + 1, !.Balances = Minus(@, bals)], l)
  BY DEF Funded, bals, l
<1>4. Funded(e, im).Balances = Minus(<<ParentBals[e]>>, bals) /\ Funded(e, im).Locked = <<l>>
  <2>1. PICK n, p, ast, lo, fi : /\ n = Minus(<<ParentBals[e]>>, bals) /\ p = <<ParentBals[e]>>
                             /\ ast = <<"asset">> /\ lo = <<>> /\ fi = FALSE
    OBVIOUS
  <2>2. H0(e) = [Version |-> 0, Assets |-> ast, Balances |-> p, Locked |-> lo, IsFinal |-> fi]
    BY <2>1 DEF H0, State
  <2> DEFINE g == [H0(e) EXCEPT !.Version = @ + 1]
  <2>3. g = [Version |-> 1, Assets |-> ast, Balances |-> p, Locked |-> lo, IsFinal |-> fi]
    <3>1. PICK w, i : w = H0(e) /\ i = H0(e).Version + 1
      OBVIOUS
    <3>2. i = 1
      BY <2>2, <3>1
    <3>3. PICK z : w = [Version |-> z, Assets |-> ast, Balances |-> p, Locked |-> lo, IsFinal |-> fi]
      BY <2>2, <3>1
    <3>4. [w EXCEPT !.Version = i] =
            [Version |-> i, Assets |-> ast, Balances |-> p, Locked |-> lo, IsFinal |-> fi]
      <4>1. /\ w = [Version |-> w.Version, Assets |-> w.Assets, Balances |-> w.Balances,
                   Locked |-> w.Locked, IsFinal |-> w.IsFinal]
            /\ w.Assets = ast /\ w.Balances = p /\ w.Locked = lo /\ w.IsFinal = fi
        BY <3>3
      <4>2. [w EXCEPT !.Version = i] =
              [Version |-> i, Assets |-> w.Assets, Balances |-> w.Balances,
               Locked |-> w.Locked, IsFinal |-> w.IsFinal]
        BY <4>1
      <4> QED BY <4>1, <4>2
    <3> QED BY <3>1, <3>2, <3>4
  <2>4. [H0(e) EXCEPT !.Version = @ + 1, !.Balances = Minus(@, bals)] = [g EXCEPT !.Balances = Minus(@, bals)]
    OBVIOUS
  <2> HIDE DEF g
  <2> DEFINE k == [g EXCEPT !.Balances = Minus(@, bals)]
  <2>5. k = [Version |-> 1, Assets |-> ast, Balances |-> n, Locked |-> lo, IsFinal |-> fi]
    BY <2>1, <2>3
  <2>6. Funded(e, im) = [k EXCEPT !.Locked = Append(@, l)]
    BY <1>3, <2>4 DEF AddSubAlloc
  <2> HIDE DEF k
  <2>7. Funded(e, im).Balances = n /\ Funded(e, im).Locked = Append(lo, l)
    BY <2>5, <2>6
  <2> QED BY <2>1, <2>7
<1> QED BY <1>1, <1>2, <1>4

\* The parent of e after the funding.
LEMMA FundedFacts ==
  ASSUME NEW e \in Ends, NEW im \in Seq(Nat)
  PROVE  /\ HasSubAlloc(Funded(e, im), ID) /\ SubAlloc(Funded(e, im), ID).IndexMap = im
         /\ NumParts(Funded(e, im)) = 2
         /\ Len(im) = 2 =>
              /\ Funded(e, im).Balances \in [1..1 -> [1..2 -> Int]]
              /\ Funded(e, im).Balances[1][2] = FundedBal(e, im)
<1>1. PICK l : l.ID = ID /\ l.IndexMap = im /\ Funded(e, im).Locked = <<l>>
  BY FundedFields
<1>2. HasSubAlloc(Funded(e, im), ID)
  BY <1>1 DEF HasSubAlloc
<1>3. SubAlloc(Funded(e, im), ID) = l
  <2>1. {i \in 1..Len(<<l>>) : <<l>>[i].ID = ID} = {1}
    BY <1>1
  <2>2. SelectInSeq(<<l>>, LAMBDA k : k.ID = ID) = 1
    <3>1. Min({1}) = 1
      BY DEF Min
    <3> QED BY <2>1, <3>1 DEF SelectInSeq
  <2> QED BY <1>1, <2>2 DEF SubAlloc
<1> DEFINE tr == transformBalances(<<VirtualBals>>, 2, im)
<1>4. /\ ParentBals[e] \in [1..2 -> Nat] /\ VirtualBals \in [1..2 -> Nat]
      /\ <<VirtualBals>> \in [1..1 -> [1..2 -> Int]] /\ <<VirtualBals>>[1] = VirtualBals
  BY BalsAssumption
<1>5. Funded(e, im).Balances = Minus(<<ParentBals[e]>>, tr)
  BY FundedFields
<1>6. Len(im) = 2 => tr \in [1..1 -> [1..2 -> Int]] /\ tr[1][2] = Share(im, InitVirtual)
  <2>1. InitVirtual.Balances = <<VirtualBals>>
    BY DEF InitVirtual, State
  <2> QED BY <1>4, <2>1, Transform DEF Share, hubIdx
<1> HIDE DEF tr
<1>7. Minus(<<ParentBals[e]>>, tr) = [i \in 1..1 |-> [j \in 1..2 |-> ParentBals[e][j] - tr[i][j]]]
  BY <1>4 DEF Minus, operate
<1>8. NumParts(Funded(e, im)) = 2
  BY <1>5, <1>7 DEF NumParts
<1>9. Len(im) = 2 => /\ Funded(e, im).Balances \in [1..1 -> [1..2 -> Int]]
                    /\ Funded(e, im).Balances[1][2] = FundedBal(e, im)
  BY <1>4, <1>5, <1>6, <1>7 DEF FundedBal, hubIdx
<1> QED BY <1>1, <1>2, <1>3, <1>8, <1>9

\* A settlement that passes validateVirtualChannelSettlementProposal.
LEMMA SettlementValid ==
  ASSUME NEW e \in Ends, IndexMap(e) \in Seq(Nat), Len(IndexMap(e)) = 2, hub[e] = F(e),
         NEW s, NEW v, IsV(v), s.Version = 2, s.Balances \in [1..1 -> [1..2 -> Int]],
         validateVirtualChannelSettlementProposal(e, s, v)
  PROVE  Settling(e, s, v)
<1> DEFINE im == IndexMap(e)
           tr == transformBalances(v.Balances, 2, im)
           fb == F(e).Balances
<1>1. /\ SubAlloc(F(e), ID).IndexMap = im /\ NumParts(F(e)) = 2
      /\ fb \in [1..1 -> [1..2 -> Int]] /\ fb[1][2] = FundedBal(e, im)
  BY FundedFacts DEF F
<1>2. tr \in [1..1 -> [1..2 -> Int]] /\ tr[1][2] = Share(im, v)
  BY Transform, VirtualParts DEF Share, hubIdx
<1>3. ~HasSubAlloc(s, ID) /\ BalancesAssertEqual(s.Balances, Plus(fb, tr))
  BY <1>1 DEF validateVirtualChannelSettlementProposal
<1> HIDE DEF tr, fb, im
<1>4. Plus(fb, tr)[1][2] = fb[1][2] + tr[1][2]
  BY <1>1, <1>2 DEF Plus, operate
<1>5. s.Balances[1][2] = Plus(fb, tr)[1][2]
  BY <1>3 DEF BalancesAssertEqual, SlicesEqual
<1> QED BY <1>1, <1>2, <1>3, <1>4, <1>5 DEF Settling, Settles, hubIdx, im
\* The handler of a new update.
Fresh(k, s, v, pc) == [NoHandler EXCEPT !.kind = k, !.req = s, !.vstate = v, !.pc = pc]
LEMMA FreshFacts ==
  ASSUME NEW k, NEW s, NEW v, NEW pc, NEW g, g = Fresh(k, s, v, pc)
  PROVE  /\ IsHandler(g) /\ g.pc = pc /\ g.kind = k /\ g.req = s /\ g.vstate = v
         /\ ~g.entry /\ ~g.matched /\ ~g.called
<1>1. PICK a0, k0, r0, v0 :
        NoHandler = [pc |-> a0, kind |-> k0, req |-> r0, vstate |-> v0,
                     entry |-> FALSE, matched |-> FALSE, called |-> FALSE]
  BY DEF NoHandler
<1>2. PICK b \in BOOLEAN : b = FALSE
  BY Zenon
<1>3. PICK n : n = NoHandler
  OBVIOUS
<1>4. n = [pc |-> a0, kind |-> k0, req |-> r0, vstate |-> v0, entry |-> b, matched |-> b, called |-> b]
  BY <1>1, <1>2, <1>3
<1> DEFINE g1 == [n EXCEPT !.kind = k]
           g2 == [g1 EXCEPT !.req = s]
           g3 == [g2 EXCEPT !.vstate = v]
           g4 == [g3 EXCEPT !.pc = pc]
<1>5. g1 = [pc |-> a0, kind |-> k, req |-> r0, vstate |-> v0, entry |-> b, matched |-> b, called |-> b]
  BY <1>4
<1>6. g = g4
  BY <1>3 DEF Fresh
<1> HIDE DEF g1
<1>7. g2 = [pc |-> a0, kind |-> k, req |-> s, vstate |-> v0, entry |-> b, matched |-> b, called |-> b]
  BY <1>5
<1> HIDE DEF g2
<1>8. g3 = [pc |-> a0, kind |-> k, req |-> s, vstate |-> v, entry |-> b, matched |-> b, called |-> b]
  BY <1>7
<1> HIDE DEF g3
<1>9. g4 = [pc |-> pc, kind |-> k, req |-> s, vstate |-> v, entry |-> b, matched |-> b, called |-> b]
  BY <1>8
<1> HIDE DEF g4
<1>10. /\ IsHandler(g) /\ g.pc = pc /\ g.kind = k /\ g.req = s /\ g.vstate = v
       /\ (g.entry <=> b) /\ (g.matched <=> b) /\ (g.called <=> b)
  <2>1. PICK f : f = g
    OBVIOUS
  <2>2. f = [pc |-> pc, kind |-> k, req |-> s, vstate |-> v, entry |-> b, matched |-> b, called |-> b]
    BY <1>6, <1>9, <2>1
  <2>3. /\ IsHandler(f) /\ f.pc = pc /\ f.kind = k /\ f.req = s /\ f.vstate = v
        /\ (f.entry <=> b) /\ (f.matched <=> b) /\ (f.called <=> b)
    BY <2>2, IsHandlerRecord
  <2> QED BY <2>1, <2>3
<1> QED BY <1>2, <1>10

\* A message is gone and nothing else changes.
LEMMA dropped ==
  ASSUME IInv, NEW m \in net, net' = net \ {m},
         UNCHANGED <<endVars, hub, handler, store, watch, panicked>>
  PROVE  IInv'
<1>1. /\ UNCHANGED <<endVars, hub, handler, store, watch, panicked>> /\ prop' = prop /\ UNCHANGED <<parent, virtual, op, chain>>
      /\ \A n \in net' : n \in net
  BY DEF endVars
<1>2. /\ EndShape' /\ HubShape' /\ States' /\ StoreInv'
      /\ \A x \in Ends : EndInv(x)' /\ HubInv(x)'
  BY <1>1, Frame
<1>3. HandlerShape'
  BY <1>1 DEF IInv, HandlerShape
<1>4. ASSUME NEW x \in Ends PROVE HandlerInv(x)'
  <2>1. FundingInv(x)'
    BY <1>1, SameProp DEF IInv, HandlerInv, FundingInv
  <2>2. SettlementInv(x)'
    BY <1>1, SameProp DEF IInv, HandlerInv, SettlementInv, Settling
  <2> QED BY <1>1, <2>1, <2>2 DEF IInv, HandlerInv
<1>5. ASSUME NEW x \in Ends PROVE HalfSettled(x)'
  BY <1>1 DEF IInv, HalfSettled
<1>6. ASSUME NEW n \in net' PROVE MsgInv(n)'
  BY <1>1, SameProp DEF IInv, MsgInv
<1>7. DisputeInv'
  <2>1. ASSUME NEW z \in Ends, ~Sent(z) PROVE ~Sent(z)'
    BY <1>1, <2>1 DEF Sent
  <2> QED BY <1>1, <2>1 DEF IInv, DisputeInv, ForcedFinal
<1>8. Undisturbed' /\ MatchNotMissed'
  BY <1>1, SameProp DEF IInv, Undisturbed, CanAddSigs, MatchNotMissed
<1> QED BY <1>2, <1>3, <1>4, <1>5, <1>6, <1>7, <1>8 DEF IInv

\* handleUpdateReq: the machine takes the update.
LEMMA newUpdate ==
  ASSUME IInv, NEW e \in Ends, ~panicked, NEW m \in net, m.end = e, m.type \in {"funding", "settlement"},
         handler[e].pc = "none", net' = net \ {m}, NEW pc \in {"register", "invalid"}, NEW g,
         g = Fresh(m.type, m.state, m.vstate, pc),
         SetHandler(e, g), validTransition(hub[e], m.state),
         pc = "register" => \/ m.type = "funding"
                                /\ validateVirtualChannelFundingProposal(e, m.state, m.vstate)
                            \/ m.type = "settlement"
                                /\ validateVirtualChannelSettlementProposal(e, m.state, m.vstate),
         UNCHANGED <<endVars, hub, store, watch, panicked>>
  PROVE  IInv'
<1> DEFINE h == handler[e]
           o == Other(e)
<1>0. o \in Ends /\ o # e /\ Other(o) = e /\ (\A x \in Ends : x = e \/ x = o)
  BY OtherFacts
<1>1. /\ UNCHANGED <<endVars, hub, store, watch, panicked>> /\ prop' = prop /\ UNCHANGED <<parent, virtual, op, chain>>
      /\ ~panicked /\ m \in net /\ m.end = e /\ MsgInv(m) /\ (m.type = "funding" \/ m.type = "settlement")
      /\ pc \in {"register", "invalid"}
      /\ h.pc = "none" /\ h.kind = "none" /\ ~h.entry /\ ~h.matched /\ ~h.called
  BY NoHandlerFacts DEF endVars, IInv, HandlerInv
<1>11. \A n \in net' : n \in net /\ n # m
  OBVIOUS
<1>2. /\ handler'[e].pc = pc /\ handler'[e].kind = m.type /\ handler'[e].req = m.state
      /\ handler'[e].vstate = m.vstate /\ ~handler'[e].entry
      /\ ~handler'[e].matched /\ ~handler'[e].called
      /\ handler'[o] = handler[o] /\ HandlerShape'
  <2>1. /\ IsHandler(g) /\ g.pc = pc /\ g.kind = m.type /\ g.req = m.state /\ g.vstate = m.vstate
        /\ ~g.entry /\ ~g.matched /\ ~g.called
    BY FreshFacts
  <2>2. panicked' \in BOOLEAN
    BY <1>1 DEF IInv, HandlerShape
  <2>3. handler'[e] = g /\ handler'[o] = handler[o] /\ HandlerShape'
    BY <2>1, <2>2, SetHandlerFacts DEF IInv
  <2> QED BY <2>1, <2>3
<1>21. m.type = "funding" =>
         /\ m.state = F(e) /\ m.vstate = InitVirtual /\ op[e].pc # "fund"
         /\ hub[e].Version = 0 /\ store.phase = "none"
         /\ pc = "register" => Len(IndexMap(e)) = 2
  <2>1. NumParts(InitVirtual) = 2
    BY InitV, VirtualParts
  <2> QED BY <1>1, <2>1 DEF MsgInv, validateVirtualChannelFundingProposal
<1>22. m.type = "settlement" =>
         /\ m.vstate = virtual[e].cur /\ m.vstate.IsFinal /\ m.state.Version = 2
         /\ hub[e].Version = 1 /\ hub[e] = F(e) /\ store.in
         /\ pc = "register" => Settling(e, m.state, m.vstate)
  <2> SUFFICES ASSUME m.type = "settlement" PROVE
         /\ m.vstate = virtual[e].cur /\ m.vstate.IsFinal /\ m.state.Version = 2
         /\ hub[e].Version = 1 /\ hub[e] = F(e) /\ store.in
         /\ pc = "register" => Settling(e, m.state, m.vstate)
    OBVIOUS
  <2>1. /\ m.vstate = virtual[e].cur /\ m.vstate.IsFinal /\ m.state.Version = 2
        /\ m.state.Balances \in [1..1 -> [1..2 -> Int]]
    BY <1>1 DEF MsgInv
  <2>2. hub[e].Version = 1
    BY <2>1 DEF validTransition, IInv, HubInv
  <2>3. hub[e] = F(e) /\ store.in /\ Len(IndexMap(e)) = 2
    BY <2>2 DEF IInv, HubInv
  <2>4. IsV(m.vstate) /\ IndexMap(e) \in Seq(Nat)
    BY <2>1 DEF IInv, States, EndShape
  <2>5. ASSUME pc = "register" PROVE Settling(e, m.state, m.vstate)
    <3>1. validateVirtualChannelSettlementProposal(e, m.state, m.vstate)
      BY <2>5
    <3>2. PICK s, v : s = m.state /\ v = m.vstate
      OBVIOUS
    <3>3. /\ validateVirtualChannelSettlementProposal(e, s, v) /\ IsV(v) /\ s.Version = 2
          /\ s.Balances \in [1..1 -> [1..2 -> Int]]
      BY <2>1, <2>4, <3>1, <3>2
    <3>4. Settling(e, s, v)
      BY <2>3, <2>4, <3>3, SettlementValid
    <3> QED BY <3>2, <3>4
  <2> QED BY <2>1, <2>2, <2>3, <2>5
<1>3. /\ EndShape' /\ HubShape' /\ States' /\ StoreInv'
      /\ \A x \in Ends : EndInv(x)' /\ HubInv(x)'
  BY <1>1, Frame
<1>4. ASSUME NEW x \in Ends PROVE HandlerInv(x)'
  <2>1. FundingInv(x)'
    BY <1>0, <1>1, <1>2, <1>21, <1>22, SameProp DEF IInv, HandlerInv, FundingInv, Waiting
  <2>2. SettlementInv(x)'
    <3>1. CASE x = e
      BY <1>0, <1>1, <1>2, <1>21, <1>22, <3>1, SameProp
      DEF IInv, HandlerInv, SettlementInv, Waiting, Matching, Forcing, Accepting, Settling
    <3>2. CASE x = o
      BY <1>0, <1>1, <1>2, <1>21, <1>22, <3>2, SameProp
      DEF IInv, HandlerInv, SettlementInv, Waiting, Matching, Forcing, Accepting, Settling
    <3> QED BY <1>0, <3>1, <3>2
  <2> QED BY <1>0, <1>1, <1>2, <2>1, <2>2, NoHandlerFacts DEF IInv, HandlerInv, Waiting
<1>5. ASSUME NEW x \in Ends PROVE HalfSettled(x)'
  BY <1>0, <1>1, <1>2, <1>21, <1>22 DEF IInv, HalfSettled, Waiting
<1>6. ASSUME NEW n \in net' PROVE MsgInv(n)'
  <2>1. MsgInv(n) /\ n # m
    BY <1>11 DEF IInv
  <2>2. ~(n.type = "funding" /\ n.end = e /\ m.type = "funding")
    <3>1. m = Msg(m.type, m.end, m.state, m.vstate) /\ n = Msg(n.type, n.end, n.state, n.vstate)
      BY <1>1, <2>1 DEF MsgInv
    <3>2. n.type = "funding" /\ n.end = e => n.state = F(e) /\ n.vstate = InitVirtual
      BY <2>1 DEF MsgInv
    <3> QED BY <1>1, <1>21, <2>1, <3>1, <3>2
  <2> QED BY <1>0, <1>1, <1>2, <1>21, <1>22, <2>1, <2>2, SameProp DEF MsgInv
<1>7. DisputeInv'
  <2>1. ASSUME NEW z \in Ends, ~Sent(z) PROVE ~Sent(z)'
    BY <1>0, <1>1, <1>2, <1>21, <1>22, <1>11, <2>1 DEF Sent
  <2> QED BY <1>0, <1>1, <1>2, <1>21, <1>22, <2>1 DEF IInv, DisputeInv, ForcedFinal
<1>8. Undisturbed'
  BY <1>0, <1>1, <1>2, <1>21, <1>22 DEF IInv, Undisturbed, CanAddSigs
<1>9. MatchNotMissed'
  BY <1>0, <1>1, <1>2, <1>21, <1>22, EndsFacts, SameProp DEF IInv, MatchNotMissed
<1> QED BY <1>2, <1>3, <1>4, <1>5, <1>6, <1>7, <1>8, <1>9 DEF IInv

LEMMA handleUpdateReqStep ==
  ASSUME IInv, NEW e \in Ends, handleUpdateReq(e), ~panicked
  PROVE  IInv'
<1>1. PICK m \in net :
        /\ m.type \in {"funding", "settlement"} /\ m.end = e /\ handler[e].pc = "none"
        /\ net' = net \ {m}
        /\ IF ~validTransition(hub[e], m.state) THEN UNCHANGED handler
           ELSE SetHandler(e, [NoHandler EXCEPT
                  !.kind = m.type, !.req = m.state, !.vstate = m.vstate,
                  !.pc = IF \/ m.type = "funding"
                                /\ validateVirtualChannelFundingProposal(e, m.state, m.vstate)
                            \/ m.type = "settlement"
                                /\ validateVirtualChannelSettlementProposal(e, m.state, m.vstate)
                         THEN "register" ELSE "invalid"])
        /\ UNCHANGED <<endVars, hub, store, watch, panicked>>
  BY DEF handleUpdateReq
<1> DEFINE valid == \/ m.type = "funding"
                         /\ validateVirtualChannelFundingProposal(e, m.state, m.vstate)
                    \/ m.type = "settlement"
                         /\ validateVirtualChannelSettlementProposal(e, m.state, m.vstate)
<1>2. CASE ~validTransition(hub[e], m.state)
  <2>1. UNCHANGED <<endVars, hub, handler, store, watch, panicked>>
    BY <1>1, <1>2
  <2> QED BY <1>1, <2>1, dropped
<1>3. CASE validTransition(hub[e], m.state)
  <2>1. PICK pc \in {"register", "invalid"} : pc = IF valid THEN "register" ELSE "invalid"
    OBVIOUS
  <2>2. PICK g : g = Fresh(m.type, m.state, m.vstate, pc)
    OBVIOUS
  <2>3. SetHandler(e, g)
    BY <1>1, <1>3, <2>1, <2>2 DEF Fresh
  <2>4. pc = "register" => valid
    BY <2>1
  <2> QED BY <1>1, <1>3, <2>2, <2>3, <2>4, newUpdate
<1> QED BY <1>2, <1>3

LEMMA registerStep ==
  ASSUME IInv, NEW e \in Ends, register(e), ~panicked
  PROVE  IInv'
<1>1. /\ handler[e].pc = "register" /\ CanLock(e)
      /\ UNCHANGED <<endVars, hub, net, panicked>>
  BY DEF register
<1>2. CASE /\ handler[e].kind = "funding" /\ matchFundingProposal(e)
           /\ persistVirtualChannel(handler[e].vstate) /\ Matched(e)
  BY <1>1, <1>2, registerFunding
<1>3. CASE /\ handler[e].kind = "settlement" /\ matchSettlementProposal(e)
           /\ Goto(e, "force") /\ UNCHANGED <<store, watch>>
  <2>1. UNCHANGED <<endVars, hub, store, watch, net, panicked>>
    BY <1>1, <1>3
  <2> QED BY <1>1, <1>3, <2>1, registerSettlement
<1>4. CASE /\ IF handler[e].kind = "funding" THEN ~matchFundingProposal(e)
              ELSE ~matchSettlementProposal(e)
           /\ NotMatched(e) /\ UNCHANGED <<store, watch>>
  <2>1. UNCHANGED <<endVars, hub, store, watch, net, panicked>>
    BY <1>1, <1>4
  <2> QED BY <1>1, <1>4, <2>1, registerEntry
<1> QED BY <1>2, <1>3, <1>4 DEF register

LEMMA forceFinalStateStep ==
  ASSUME IInv, NEW e \in Ends, forceFinalState(e), ~panicked
  PROVE  IInv'
<1>1. UNCHANGED <<endVars, hub, watch, net, panicked>>
  BY DEF forceFinalState
<1>2. CASE handler[e].pc = "force" /\ ForceUpdate(handler[e].vstate) /\ Goto(e, "sign")
  BY <1>1, <1>2, forceUpdate
<1>3. CASE handler[e].pc = "sign" /\ CanAddSigs(handler[e].vstate) /\ AddSigs /\ Goto(e, "enable")
  BY <1>1, <1>3, addSigs
<1>4. CASE handler[e].pc = "enable" /\ CanEnable(TRUE) /\ Enable /\ Goto(e, "acceptFirst")
  BY <1>1, <1>4, enableFinal
<1>5. CASE /\ \/ handler[e].pc = "sign" /\ ~CanAddSigs(handler[e].vstate)
              \/ handler[e].pc = "enable" /\ ~CanEnable(TRUE)
           /\ NotMatched(e) /\ UNCHANGED store
  <2>1. UNCHANGED <<endVars, hub, store, watch, net, panicked>>
    BY <1>1, <1>5
  <2> QED BY <1>5, <2>1, forceFails
<1> QED BY <1>2, <1>3, <1>4, <1>5 DEF forceFinalState

LEMMA awaitMatchedStep ==
  ASSUME IInv, NEW e \in Ends, awaitMatched(e), ~panicked
  PROVE  IInv'
<1>1. CASE handler[e].kind = "funding"
  BY <1>1, awaitMatchedFunding
<1>2. CASE handler[e].kind # "funding"
  <2>1. /\ handler[e].pc = "await" /\ handler[e].matched /\ CanLock(e) /\ SetHandler(e, NoHandler)
        /\ UNCHANGED <<endVars, hub, store, watch, net, panicked>>
    BY <1>2 DEF awaitMatched
  <2>2. handler[e].kind = "settlement"
    BY <1>2, <2>1, NoHandlerFacts DEF IInv, HandlerInv
  <2>3. handler[Other(e)].pc \notin Matching
    BY <2>1, <2>2, OtherFacts DEF CanLock, WatcherLocked
  <2> QED BY <2>1, <2>2, <2>3, handlerGone
<1> QED BY <1>1, <1>2

LEMMA pushVirtualUpdateStep ==
  ASSUME IInv, pushVirtualUpdate
  PROVE  IInv'
<1>1. UNCHANGED <<endVars, hub, handler, net, panicked>>
  BY DEF pushVirtualUpdate
<1>2. CASE /\ watch.pc = "force" /\ ForceUpdate(watch.ev)
           /\ watch' = [watch EXCEPT !.pc = "sign"]
  BY <1>1, <1>2, pushForce
<1>3. CASE /\ watch.pc = "sign" /\ CanAddSigs(watch.ev) /\ AddSigs
           /\ watch' = [watch EXCEPT !.pc = "enable"]
  BY <1>1, <1>3, pushSign
<1>4. CASE /\ watch.pc = "enable" /\ CanEnable(watch.ev.IsFinal) /\ Enable
           /\ watch' = [watch EXCEPT !.pc = "next"]
  BY <1>1, <1>4, pushEnable
<1>5. CASE /\ \/ watch.pc = "sign" /\ ~CanAddSigs(watch.ev)
              \/ watch.pc = "enable" /\ ~CanEnable(watch.ev.IsFinal)
           /\ watch' = [watch EXCEPT !.pc = "next"] /\ UNCHANGED store
  <2>1. watch.pc \in {"sign", "enable"}
    BY <1>5
  <2> QED BY <1>1, <1>5, <2>1, pushFails
<1> QED BY <1>2, <1>3, <1>4, <1>5 DEF pushVirtualUpdate

LEMMA HubStep ==
  ASSUME IInv, Hub
  PROVE  IInv'
<1>0. ~panicked
  BY DEF Hub
<1>1. CASE watchVirtual
  BY <1>1, watchVirtualStep DEF watchVirtual
<1>2. CASE pushVirtualUpdate
  BY <1>2, pushVirtualUpdateStep
<1>3. ASSUME NEW e \in Ends,
             \/ handleUpdateReq(e) \/ rejectInvalid(e) \/ register(e) \/ forceFinalState(e)
             \/ acceptFirst(e) \/ acceptSecond(e) \/ closeVirtual(e)
             \/ awaitMatched(e) \/ awaitTimeout(e) \/ deregister(e)
             \/ handlerRejects(e) \/ handlerAccepts(e) \/ handlerReturns(e)
      PROVE  IInv'
  <2>1. CASE handleUpdateReq(e)
    BY <1>0, <2>1, handleUpdateReqStep
  <2>2. CASE rejectInvalid(e)
    BY <1>0, <2>2, rejectInvalidStep
  <2>3. CASE register(e)
    BY <1>0, <2>3, registerStep
  <2>4. CASE forceFinalState(e)
    BY <1>0, <2>4, forceFinalStateStep
  <2>5. CASE acceptFirst(e)
    BY <1>0, <2>5, acceptFirstStep
  <2>6. CASE acceptSecond(e)
    BY <1>0, <2>6, acceptSecondStep
  <2>7. CASE closeVirtual(e)
    BY <1>0, <2>7, closeVirtualStep
  <2>8. CASE awaitMatched(e)
    BY <1>0, <2>8, awaitMatchedStep
  <2>9. CASE awaitTimeout(e)
    BY <1>0, <2>9, awaitTimeoutStep
  <2>10. CASE deregister(e)
    BY <1>0, <2>10, deregisterStep
  <2>11. CASE handlerRejects(e)
    BY <1>0, <2>11, handlerRejectsStep
  <2>12. CASE handlerAccepts(e)
    BY <1>0, <2>12, handlerAcceptsStep
  <2>13. CASE handlerReturns(e)
    <3>1. /\ handler[e].pc = "return" /\ SetHandler(e, NoHandler)
          /\ UNCHANGED <<endVars, hub, store, watch, net, panicked>>
      BY <2>13 DEF handlerReturns
    <3> QED BY <1>0, <3>1, handlerGone
  <2> QED BY <1>3, <2>1, <2>2, <2>3, <2>4, <2>5, <2>6, <2>7, <2>8, <2>9, <2>10, <2>11, <2>12, <2>13
<1> QED BY <1>1, <1>2, <1>3 DEF Hub
-----------------------------------------------------------------------------
(* Steps of the ends *)

\* What a step of an end keeps that changes no state of the virtual channel.
LEMMA EndFrame ==
  ASSUME IInv, UNCHANGED hubVars, prop' = prop, chain' = chain,
         \A x \in Ends : virtual'[x].cur = virtual[x].cur,
         \A x \in Ends : op'[x].pc = "fund" => op[x].pc = "fund"
  PROVE  /\ HandlerShape' /\ HubShape' /\ States' /\ StoreInv'
         /\ \A x \in Ends : HandlerInv(x)' /\ HubInv(x)' /\ HalfSettled(x)'
         /\ Undisturbed' /\ MatchNotMissed'
<1>1. /\ UNCHANGED <<hub, handler, store, watch, panicked>> /\ prop' = prop /\ chain' = chain
      /\ \A x \in Ends : virtual'[x].cur = virtual[x].cur
      /\ \A x \in Ends : op'[x].pc = "fund" => op[x].pc = "fund"
  BY DEF hubVars
<1>2. HandlerShape' /\ HubShape' /\ States'
  BY <1>1 DEF IInv, HandlerShape, HubShape, States
<1>3. StoreInv'
  BY <1>1, SameProp, EndsFacts DEF IInv, StoreInv
<1>4. ASSUME NEW x \in Ends PROVE HandlerInv(x)'
  <2>1. FundingInv(x)'
    BY <1>1, SameProp DEF IInv, HandlerInv, FundingInv
  <2>2. SettlementInv(x)'
    BY <1>1, SameProp DEF IInv, HandlerInv, SettlementInv, Settling
  <2> QED BY <1>1, <2>1, <2>2 DEF IInv, HandlerInv
<1>5. ASSUME NEW x \in Ends PROVE HubInv(x)' /\ HalfSettled(x)'
  <2>1. HubInv(x)'
    BY <1>1, SameProp, OtherFacts DEF IInv, HubInv, Settling
  <2> QED BY <1>1, <2>1 DEF IInv, HalfSettled
<1>6. Undisturbed' /\ MatchNotMissed'
  BY <1>1, SameProp DEF IInv, Undisturbed, CanAddSigs, MatchNotMissed
<1> QED BY <1>2, <1>3, <1>4, <1>5, <1>6

\* The hub and the chain do not change, and only the end e does.
LEMMA DisputeKept ==
  ASSUME IInv, NEW e \in Ends, UNCHANGED hubVars, chain' = chain,
         \A x \in Ends : virtual'[x].cur = virtual[x].cur,
         parent[e].phase # "Registered",
         \A x \in Ends : x # e => parent'[x] = parent[x],
         \A m \in net' : m \in net \/ m.end = e
  PROVE  DisputeInv'
<1>1. /\ UNCHANGED <<hub, handler, store, watch, panicked>>
      /\ ForcedFinal' <=> ForcedFinal
  BY DEF hubVars, ForcedFinal
<1>2. ASSUME NEW x \in Ends, x # e, ~Sent(x) PROVE ~Sent(x)'
  BY <1>1, <1>2 DEF Sent
<1>3. CASE \E x \in Ends : parent[x].phase = "Registered" /\ ~Sent(x)
  BY <1>2, <1>3 DEF DisputeInv
<1>4. CASE chain = NotRegistered /\ watch.pc \in {"none", "next"} /\ ForcedFinal
  BY <1>1, <1>4 DEF DisputeInv
<1>5. CASE /\ chain.IsFinal /\ \E x \in Ends : chain = virtual[x].cur
           /\ watch.pc \in {"none", "next"} \/ watch.ev = chain
           /\ ForcedFinal
  BY <1>1, <1>5 DEF DisputeInv
<1> QED BY <1>3, <1>4, <1>5 DEF IInv, DisputeInv

LEMMA ExceptOp ==
  ASSUME NEW o, NEW pc, o = [pc |-> o.pc, next |-> o.next]
  PROVE  [o EXCEPT !.pc = pc] = [pc |-> pc, next |-> o.next]
  OBVIOUS

LEMMA ExceptPhase ==
  ASSUME NEW o, NEW ph, o = [phase |-> o.phase, cur |-> o.cur]
  PROVE  [o EXCEPT !.phase = ph] = [phase |-> ph, cur |-> o.cur]
  OBVIOUS

\* The machine of e changes its phase, or e is in another call.
LEMMA PhaseFacts ==
  ASSUME NEW f, NEW e \in Ends, NEW ph, f = [x \in Ends |-> [phase |-> f[x].phase, cur |-> f[x].cur]],
         NEW g, g = [f EXCEPT ![e].phase = ph]
  PROVE  /\ g = [x \in Ends |-> [phase |-> g[x].phase, cur |-> g[x].cur]]
         /\ g[e].phase = ph /\ g[e].cur = f[e].cur
         /\ \A x \in Ends : x # e => g[x] = f[x]
<1>1. \A x \in Ends : f[x] = [phase |-> f[x].phase, cur |-> f[x].cur]
  OBVIOUS
<1>2. g = [x \in Ends |-> IF x = e THEN [f[e] EXCEPT !.phase = ph] ELSE f[x]]
  OBVIOUS
<1>3. [f[e] EXCEPT !.phase = ph] = [phase |-> ph, cur |-> f[e].cur]
  BY <1>1, ExceptPhase
<1>4. /\ g[e] = [phase |-> ph, cur |-> f[e].cur]
      /\ \A x \in Ends : x # e => g[x] = f[x]
      /\ g = [x \in Ends |-> g[x]]
  BY <1>2, <1>3
<1>5. \A x \in Ends : g[x] = [phase |-> g[x].phase, cur |-> g[x].cur]
  BY <1>1, <1>4
<1>6. g = [x \in Ends |-> [phase |-> g[x].phase, cur |-> g[x].cur]]
  BY <1>4, <1>5
<1> QED BY <1>4, <1>6

LEMMA OpFacts ==
  ASSUME NEW e \in Ends, NEW pc, EndShape, op' = [op EXCEPT ![e].pc = pc]
  PROVE  /\ op' = [x \in Ends |-> [pc |-> op'[x].pc, next |-> op'[x].next]]
         /\ op'[e].pc = pc /\ op'[e].next = op[e].next
         /\ \A x \in Ends : x # e => op'[x] = op[x]
<1>0. op = [x \in Ends |-> [pc |-> op[x].pc, next |-> op[x].next]]
  BY DEF EndShape
<1>1. \A x \in Ends : op[x] = [pc |-> op[x].pc, next |-> op[x].next]
  BY <1>0
<1>2. op' = [x \in Ends |-> IF x = e THEN [op[e] EXCEPT !.pc = pc] ELSE op[x]]
  BY <1>0
<1>3. [op[e] EXCEPT !.pc = pc] = [pc |-> pc, next |-> op[e].next]
  BY <1>1, ExceptOp
<1>4. /\ op'[e] = [pc |-> pc, next |-> op[e].next]
      /\ \A x \in Ends : x # e => op'[x] = op[x]
      /\ op' = [x \in Ends |-> op'[x]]
  BY <1>2, <1>3
<1>5. \A x \in Ends : op'[x] = [pc |-> op'[x].pc, next |-> op'[x].next]
  BY <1>1, <1>4
<1>6. op' = [x \in Ends |-> [pc |-> op'[x].pc, next |-> op'[x].next]]
  BY <1>4, <1>5
<1> QED BY <1>4, <1>6

\* updateGeneric: the update is staged and sent.
LEMMA UpdateFacts ==
  ASSUME EndShape, NEW e \in Ends, NEW type, NEW s, NEW v, updateGeneric(e, type, s, v)
  PROVE  /\ parent[e].phase = "Acting"
         /\ parent' = [x \in Ends |-> [phase |-> parent'[x].phase, cur |-> parent'[x].cur]]
         /\ parent'[e].phase = "Signing" /\ parent'[e].cur = parent[e].cur
         /\ \A x \in Ends : x # e => parent'[x] = parent[x]
         /\ op' = [x \in Ends |-> [pc |-> op'[x].pc, next |-> op'[x].next]]
         /\ op'[e].pc = type /\ op'[e].next = s
         /\ \A x \in Ends : x # e => op'[x] = op[x]
         /\ net' = net \cup {Msg(type, e, s, v)}
<1>1. parent' = [parent EXCEPT ![e].phase = "Signing"]
  BY DEF updateGeneric
<1>2. /\ parent' = [x \in Ends |-> [phase |-> parent'[x].phase, cur |-> parent'[x].cur]]
      /\ parent'[e].phase = "Signing" /\ parent'[e].cur = parent[e].cur
      /\ \A x \in Ends : x # e => parent'[x] = parent[x]
  <2>1. PICK f, g : f = parent /\ g = parent'
    OBVIOUS
  <2>2. f = [x \in Ends |-> [phase |-> f[x].phase, cur |-> f[x].cur]]
    BY <2>1 DEF EndShape
  <2>3. g = [f EXCEPT ![e].phase = "Signing"]
    BY <1>1, <2>1
  <2>4. /\ g = [x \in Ends |-> [phase |-> g[x].phase, cur |-> g[x].cur]]
        /\ g[e].phase = "Signing" /\ g[e].cur = f[e].cur
        /\ \A x \in Ends : x # e => g[x] = f[x]
    BY <2>2, <2>3, PhaseFacts
  <2> QED BY <2>1, <2>4
<1>3. op' = [op EXCEPT ![e] = [pc |-> type, next |-> s]]
  BY DEF updateGeneric
<1>4. op = [x \in Ends |-> [pc |-> op[x].pc, next |-> op[x].next]]
  BY DEF EndShape
<1>5. /\ op'[e] = [pc |-> type, next |-> s]
      /\ \A x \in Ends : x # e => op'[x] = op[x]
      /\ op' = [x \in Ends |-> op'[x]]
  BY <1>3, <1>4
<1>6. \A x \in Ends : op'[x] = [pc |-> op'[x].pc, next |-> op'[x].next]
  BY <1>4, <1>5
<1>7. op' = [x \in Ends |-> [pc |-> op'[x].pc, next |-> op'[x].next]]
  BY <1>5, <1>6
<1>8. parent[e].phase = "Acting" /\ net' = net \cup {Msg(type, e, s, v)}
  BY DEF updateGeneric, CanUpdate
<1> QED BY <1>2, <1>5, <1>7, <1>8

LEMMA MsgFields ==
  ASSUME NEW type, NEW e, NEW s, NEW v, NEW m, m = Msg(type, e, s, v)
  PROVE  /\ m.type = type /\ m.end = e /\ m.state = s /\ m.vstate = v
         /\ m = Msg(m.type, m.end, m.state, m.vstate)
  BY DEF Msg

LEMMA ParentPhase ==
  ASSUME EndShape, NEW e \in Ends, NEW ph, parent' = [parent EXCEPT ![e].phase = ph]
  PROVE  /\ parent' = [x \in Ends |-> [phase |-> parent'[x].phase, cur |-> parent'[x].cur]]
         /\ parent'[e].phase = ph /\ parent'[e].cur = parent[e].cur
         /\ \A x \in Ends : x # e => parent'[x] = parent[x]
<1>1. PICK f, g : f = parent /\ g = parent'
  OBVIOUS
<1>2. f = [x \in Ends |-> [phase |-> f[x].phase, cur |-> f[x].cur]]
  BY <1>1 DEF EndShape
<1>3. g = [f EXCEPT ![e].phase = ph]
  BY <1>1
<1>4. /\ g = [x \in Ends |-> [phase |-> g[x].phase, cur |-> g[x].cur]]
      /\ g[e].phase = ph /\ g[e].cur = f[e].cur
      /\ \A x \in Ends : x # e => g[x] = f[x]
  BY <1>2, <1>3, PhaseFacts
<1> QED BY <1>1, <1>4

LEMMA VirtualPhase ==
  ASSUME EndShape, NEW e \in Ends, NEW ph, virtual' = [virtual EXCEPT ![e].phase = ph]
  PROVE  /\ virtual' = [x \in Ends |-> [phase |-> virtual'[x].phase, cur |-> virtual'[x].cur]]
         /\ virtual'[e].phase = ph /\ virtual'[e].cur = virtual[e].cur
         /\ \A x \in Ends : x # e => virtual'[x] = virtual[x]
<1>1. PICK f, g : f = virtual /\ g = virtual'
  OBVIOUS
<1>2. f = [x \in Ends |-> [phase |-> f[x].phase, cur |-> f[x].cur]]
  BY <1>1 DEF EndShape
<1>3. g = [f EXCEPT ![e].phase = ph]
  BY <1>1
<1>4. /\ g = [x \in Ends |-> [phase |-> g[x].phase, cur |-> g[x].cur]]
      /\ g[e].phase = ph /\ g[e].cur = f[e].cur
      /\ \A x \in Ends : x # e => g[x] = f[x]
  BY <1>2, <1>3, PhaseFacts
<1> QED BY <1>1, <1>4

\* A funding is proposed while the hub has seen nothing of it.
LEMMA UnfundedFacts ==
  ASSUME IInv, NEW e \in Ends, op[e].pc = "fund"
  PROVE  /\ store.phase = "none" /\ hub[e].Version = 0 /\ handler[e].kind # "funding"
         /\ virtual[1].cur = InitVirtual /\ virtual[2].cur = InitVirtual /\ parent[e].cur = H0(e)
<1>1. store.phase = "none"
  BY DEF IInv, StoreInv, Ends
<1>2. hub[e].Version = 0 /\ handler[e].kind # "funding"
  BY <1>1 DEF IInv, HubInv, HandlerInv, FundingInv
<1>3. virtual[1].cur = InitVirtual /\ virtual[2].cur = InitVirtual /\ parent[e].cur = H0(e)
  BY DEF IInv, EndInv, Unopened
<1> QED BY <1>1, <1>2, <1>3

LEMMA proposeSent ==
  ASSUME IInv, NEW e \in Ends, op[e].pc = "fund", updateGeneric(e, "funding", F(e), InitVirtual),
         UNCHANGED <<hubVars, prop, virtual, chain>>
  PROVE  IInv'
<1>0. EndShape
  BY DEF IInv
<1>1. /\ UNCHANGED <<hubVars, hub, handler, store, watch, panicked, virtual>>
      /\ prop' = prop /\ chain' = chain /\ op[e].pc = "fund"
      /\ store.phase = "none" /\ hub[e].Version = 0 /\ handler[e].kind # "funding"
      /\ virtual[1].cur = InitVirtual /\ virtual[2].cur = InitVirtual
  BY UnfundedFacts DEF hubVars
<1>2. /\ parent[e].phase = "Acting" /\ parent'[e].phase = "Signing" /\ parent'[e].cur = parent[e].cur
      /\ \A x \in Ends : x # e => parent'[x] = parent[x]
      /\ op'[e].pc = "funding" /\ op'[e].next = F(e)
      /\ \A x \in Ends : x # e => op'[x] = op[x]
  BY <1>0, UpdateFacts
<1>3. \A m \in net' : m \in net \/ m = Msg("funding", e, F(e), InitVirtual)
  BY DEF updateGeneric
<1>4. EndShape'
  <2>1. /\ parent' = [x \in Ends |-> [phase |-> parent'[x].phase, cur |-> parent'[x].cur]]
        /\ op' = [x \in Ends |-> [pc |-> op'[x].pc, next |-> op'[x].next]]
    BY <1>0, UpdateFacts
  <2> QED BY <1>0, <1>1, <2>1, SameProp DEF EndShape
<1>5. ASSUME NEW x \in Ends PROVE EndInv(x)'
  <2>1. CASE x = e
    BY <1>1, <1>2, <2>1, SameProp DEF IInv, EndInv, Unopened
  <2>2. CASE x # e
    BY <1>1, <1>2, <2>2, SameProp DEF IInv, EndInv
  <2> QED BY <2>1, <2>2
<1>6. ASSUME NEW m \in net' PROVE MsgInv(m)'
  <2>1. CASE m \in net
    BY <1>1, <1>2, <2>1, SameProp DEF IInv, MsgInv
  <2>2. CASE m = Msg("funding", e, F(e), InitVirtual)
    <3>1. /\ m.type = "funding" /\ m.end = e /\ m.state = F(e) /\ m.vstate = InitVirtual
          /\ m = Msg(m.type, m.end, m.state, m.vstate)
      BY <2>2, MsgFields
    <3> QED BY <1>1, <1>2, <3>1, SameProp DEF MsgInv
  <2> QED BY <1>3, <2>1, <2>2
<1>7. DisputeInv'
  <2>1. \A m \in net' : m \in net \/ m.end = e
    BY <1>3, MsgFields
  <2> QED BY <1>1, <1>2, <2>1, DisputeKept
<1>8. /\ HandlerShape' /\ HubShape' /\ States' /\ StoreInv'
      /\ \A x \in Ends : HandlerInv(x)' /\ HubInv(x)' /\ HalfSettled(x)'
      /\ Undisturbed' /\ MatchNotMissed'
  <2>1. \A x \in Ends : op'[x].pc = "fund" => op[x].pc = "fund"
    BY <1>1, <1>2
  <2> QED BY <1>1, <2>1, EndFrame
<1> QED BY <1>4, <1>5, <1>6, <1>7, <1>8 DEF IInv

LEMMA proposePanics ==
  ASSUME IInv, NEW e \in Ends, op[e].pc = "fund", op' = [op EXCEPT ![e].pc = "panicked"],
         UNCHANGED <<hubVars, prop, virtual, chain, parent, net>>
  PROVE  IInv'
<1>0. EndShape
  BY DEF IInv
<1>1. /\ UNCHANGED <<hubVars, hub, handler, store, watch, panicked, virtual, parent, net>>
      /\ prop' = prop /\ chain' = chain /\ op[e].pc = "fund"
      /\ virtual[1].cur = InitVirtual /\ virtual[2].cur = InitVirtual
  BY UnfundedFacts DEF hubVars
<1>2. /\ op'[e].pc = "panicked" /\ op'[e].next = op[e].next
      /\ \A x \in Ends : x # e => op'[x] = op[x]
  BY <1>0, OpFacts
<1>4. EndShape'
  <2>1. op' = [x \in Ends |-> [pc |-> op'[x].pc, next |-> op'[x].next]]
    BY <1>0, OpFacts
  <2> QED BY <1>0, <1>1, <2>1, SameProp DEF EndShape
<1>5. ASSUME NEW x \in Ends PROVE EndInv(x)'
  <2>1. CASE x = e
    BY <1>1, <1>2, <2>1, SameProp DEF IInv, EndInv, Unopened
  <2>2. CASE x # e
    BY <1>1, <1>2, <2>2, SameProp DEF IInv, EndInv
  <2> QED BY <2>1, <2>2
<1>6. ASSUME NEW m \in net' PROVE MsgInv(m)'
  BY <1>1, <1>2, SameProp DEF IInv, MsgInv
<1>7. DisputeInv'
  BY <1>1 DEF IInv, DisputeInv, Sent, ForcedFinal
<1>8. /\ HandlerShape' /\ HubShape' /\ States' /\ StoreInv'
      /\ \A x \in Ends : HandlerInv(x)' /\ HubInv(x)' /\ HalfSettled(x)'
      /\ Undisturbed' /\ MatchNotMissed'
  <2>1. \A x \in Ends : op'[x].pc = "fund" => op[x].pc = "fund"
    BY <1>1, <1>2
  <2> QED BY <1>1, <2>1, EndFrame
<1> QED BY <1>4, <1>5, <1>6, <1>7, <1>8 DEF IInv

LEMMA proposeStep ==
  ASSUME IInv, NEW e \in Ends, proposeVirtualChannelFunding(e)
  PROVE  IInv'
<1> DEFINE v == virtual[e].cur
           cur == parent[e].cur
           bals == translateBalances(v, IndexMap(e))
           s == AddSubAlloc([cur EXCEPT !.Version = @ + 1, !.Balances = Minus(@, bals)],
                            NewSubAlloc(ID, BalancesSum(bals), IndexMap(e)))
<1>1. op[e].pc = "fund" /\ UNCHANGED <<hubVars, prop, virtual, chain>>
  BY DEF proposeVirtualChannelFunding
<1>2. v = InitVirtual /\ cur = H0(e)
  BY <1>1, UnfundedFacts DEF Ends
<1>3. s = F(e)
  BY <1>2 DEF F, Funded
<1>4. \/ updateGeneric(e, "funding", s, v)
      \/ op' = [op EXCEPT ![e].pc = "panicked"] /\ UNCHANGED <<parent, net>>
  BY DEF proposeVirtualChannelFunding
<1> HIDE DEF v, cur, s
<1>5. CASE updateGeneric(e, "funding", s, v)
  <2>1. updateGeneric(e, "funding", F(e), InitVirtual)
    BY <1>2, <1>3, <1>5
  <2> QED BY <1>1, <2>1, proposeSent
<1>6. CASE op' = [op EXCEPT ![e].pc = "panicked"] /\ UNCHANGED <<parent, net>>
  <2>1. UNCHANGED <<hubVars, prop, virtual, chain, parent, net>>
    BY <1>1, <1>6
  <2> QED BY <1>1, <1>6, <2>1, proposePanics
<1> QED BY <1>4, <1>5, <1>6
\* The state an end asks the hub to settle with.
LEMMA SettledState ==
  ASSUME NEW e \in Ends, NEW im \in Seq(Nat), Len(im) = 2, NEW v, IsV(v), NEW l, NEW bals,
         bals = translateBalances(v, im)
  PROVE  LET s == RemoveSubAlloc([Funded(e, im) EXCEPT !.Version = @ + 1, !.Balances = Plus(@, bals)], l)
         IN s.Version = 2 /\ s.Balances \in [1..1 -> [1..2 -> Int]]
<1> DEFINE f == Funded(e, im)
           g == [f EXCEPT !.Version = @ + 1]
           k == [g EXCEPT !.Balances = Plus(@, bals)]
           s == RemoveSubAlloc([Funded(e, im) EXCEPT !.Version = @ + 1, !.Balances = Plus(@, bals)], l)
<1>1. f.Version = 1 /\ DOMAIN f = {"Version", "Assets", "Balances", "Locked", "IsFinal"}
  BY DEF Funded, H0, AddSubAlloc, State
<1>2. bals \in [1..1 -> [1..2 -> Int]]
  BY VirtualParts, Transform DEF translateBalances
<1>3. f.Balances \in [1..1 -> [1..2 -> Int]]
  BY FundedFacts
<1>4. s = RemoveSubAlloc(k, l)
  OBVIOUS
<1> HIDE DEF f
<1>5. g.Version = 2 /\ g.Balances = f.Balances /\ DOMAIN g = DOMAIN f
  BY <1>1
<1> HIDE DEF g
<1>6. k.Version = 2 /\ k.Balances = Plus(f.Balances, bals) /\ DOMAIN k = DOMAIN f
  BY <1>1, <1>5
<1> HIDE DEF k
<1>7. RemoveSubAlloc(k, l).Version = 2 /\ RemoveSubAlloc(k, l).Balances = k.Balances
  BY <1>1, <1>6 DEF RemoveSubAlloc
<1>8. Plus(f.Balances, bals) \in [1..1 -> [1..2 -> Int]]
  BY <1>2, <1>3 DEF Plus, operate
<1> QED BY <1>4, <1>6, <1>7, <1>8

LEMMA withdrawSent ==
  ASSUME IInv, NEW e \in Ends, op[e].pc = "opened", virtual[e].phase \in {"Final", "Withdrawing"},
         virtual' = [virtual EXCEPT ![e].phase = "Withdrawing"],
         NEW s, s.Version = 2, s.Balances \in [1..1 -> [1..2 -> Int]],
         updateGeneric(e, "settlement", s, virtual[e].cur),
         UNCHANGED <<hubVars, prop, chain>>
  PROVE  IInv'
<1>0. EndShape
  BY DEF IInv
<1>1. /\ UNCHANGED <<hubVars, hub, handler, store, watch, panicked>>
      /\ prop' = prop /\ chain' = chain /\ op[e].pc = "opened" /\ virtual[e].cur.IsFinal
      /\ hub[e].Version # 0 /\ s.Version = 2 /\ s.Balances \in [1..1 -> [1..2 -> Int]]
  BY DEF hubVars, IInv, EndInv, Unopened
<1>2. /\ parent[e].phase = "Acting" /\ parent'[e].phase = "Signing" /\ parent'[e].cur = parent[e].cur
      /\ \A x \in Ends : x # e => parent'[x] = parent[x]
      /\ op'[e].pc = "settlement"
      /\ \A x \in Ends : x # e => op'[x] = op[x]
  BY <1>0, UpdateFacts
<1>21. /\ virtual'[e].phase = "Withdrawing" /\ \A x \in Ends : virtual'[x].cur = virtual[x].cur
       /\ \A x \in Ends : x # e => virtual'[x] = virtual[x]
  BY <1>0, VirtualPhase
<1>3. \A m \in net' : m \in net \/ m = Msg("settlement", e, s, virtual[e].cur)
  BY DEF updateGeneric
<1>4. EndShape'
  <2>1. /\ parent' = [x \in Ends |-> [phase |-> parent'[x].phase, cur |-> parent'[x].cur]]
        /\ op' = [x \in Ends |-> [pc |-> op'[x].pc, next |-> op'[x].next]]
    BY <1>0, UpdateFacts
  <2>2. virtual' = [x \in Ends |-> [phase |-> virtual'[x].phase, cur |-> virtual'[x].cur]]
    BY <1>0, VirtualPhase
  <2> QED BY <1>0, <1>1, <2>1, <2>2, SameProp DEF EndShape
<1>5. ASSUME NEW x \in Ends PROVE EndInv(x)'
  <2>1. CASE x = e
    BY <1>1, <1>2, <1>21, <2>1, SameProp, EndsFacts DEF IInv, EndInv, Unopened
  <2>2. CASE x # e
    BY <1>1, <1>2, <1>21, <2>2, SameProp, EndsFacts DEF IInv, EndInv
  <2> QED BY <2>1, <2>2
<1>6. ASSUME NEW m \in net' PROVE MsgInv(m)'
  <2>1. CASE m \in net
    BY <1>1, <1>2, <1>21, <2>1, SameProp DEF IInv, MsgInv
  <2>2. CASE m = Msg("settlement", e, s, virtual[e].cur)
    <3>1. /\ m.type = "settlement" /\ m.end = e /\ m.state = s /\ m.vstate = virtual[e].cur
          /\ m = Msg(m.type, m.end, m.state, m.vstate)
      BY <2>2, MsgFields
    <3> QED BY <1>1, <1>2, <1>21, <3>1, SameProp DEF MsgInv
  <2> QED BY <1>3, <2>1, <2>2
<1>7. DisputeInv'
  <2>1. \A m \in net' : m \in net \/ m.end = e
    BY <1>3, MsgFields
  <2>2. parent[e].phase # "Registered"
    BY <1>2
  <2> QED BY <1>1, <1>2, <1>21, <2>1, <2>2, DisputeKept
<1>8. /\ HandlerShape' /\ HubShape' /\ States' /\ StoreInv'
      /\ \A x \in Ends : HandlerInv(x)' /\ HubInv(x)' /\ HalfSettled(x)'
      /\ Undisturbed' /\ MatchNotMissed'
  <2>1. \A x \in Ends : op'[x].pc = "fund" => op[x].pc = "fund"
    BY <1>1, <1>2
  <2> QED BY <1>1, <1>21, <2>1, EndFrame
<1> QED BY <1>4, <1>5, <1>6, <1>7, <1>8 DEF IInv

LEMMA withdrawFails ==
  ASSUME IInv, NEW e \in Ends, virtual[e].phase \in {"Final", "Withdrawing"},
         virtual' = [virtual EXCEPT ![e].phase = "Withdrawing"],
         UNCHANGED <<hubVars, prop, chain, parent, op, net>>
  PROVE  IInv'
<1>0. EndShape
  BY DEF IInv
<1>1. /\ UNCHANGED <<hubVars, hub, handler, store, watch, panicked, parent, op, net>>
      /\ prop' = prop /\ chain' = chain /\ virtual[e].cur.IsFinal
  BY DEF hubVars, IInv, EndInv
<1>2. /\ virtual'[e].phase = "Withdrawing" /\ \A x \in Ends : virtual'[x].cur = virtual[x].cur
      /\ \A x \in Ends : x # e => virtual'[x] = virtual[x]
  BY <1>0, VirtualPhase
<1>4. EndShape'
  <2>2. virtual' = [x \in Ends |-> [phase |-> virtual'[x].phase, cur |-> virtual'[x].cur]]
    BY <1>0, VirtualPhase
  <2> QED BY <1>0, <1>1, <2>2, SameProp DEF EndShape
<1>5. ASSUME NEW x \in Ends PROVE EndInv(x)'
  <2>1. CASE x = e
    BY <1>1, <1>2, <2>1, SameProp, EndsFacts DEF IInv, EndInv
  <2>2. CASE x # e
    BY <1>1, <1>2, <2>2, SameProp, EndsFacts DEF IInv, EndInv
  <2> QED BY <2>1, <2>2
<1>6. ASSUME NEW m \in net' PROVE MsgInv(m)'
  BY <1>1, <1>2, SameProp DEF IInv, MsgInv
<1>7. DisputeInv'
  BY <1>1, <1>2 DEF IInv, DisputeInv, Sent, ForcedFinal
<1>8. /\ HandlerShape' /\ HubShape' /\ States' /\ StoreInv'
      /\ \A x \in Ends : HandlerInv(x)' /\ HubInv(x)' /\ HalfSettled(x)'
      /\ Undisturbed' /\ MatchNotMissed'
  <2>1. \A x \in Ends : op'[x].pc = "fund" => op[x].pc = "fund"
    BY <1>1
  <2> QED BY <1>1, <1>2, <2>1, EndFrame
<1> QED BY <1>4, <1>5, <1>6, <1>7, <1>8 DEF IInv

LEMMA withdrawStep ==
  ASSUME IInv, NEW e \in Ends, withdrawVirtualChannel(e)
  PROVE  IInv'
<1> DEFINE v == virtual[e].cur
           cur == parent[e].cur
           l == SubAlloc(cur, ID)
           bals == translateBalances(v, l.IndexMap)
           s == RemoveSubAlloc([cur EXCEPT !.Version = @ + 1, !.Balances = Plus(@, bals)], l)
<1>1. /\ op[e].pc = "opened" /\ virtual[e].phase \in {"Final", "Withdrawing"}
      /\ virtual' = [virtual EXCEPT ![e].phase = "Withdrawing"]
      /\ UNCHANGED <<hubVars, prop, chain>>
  BY DEF withdrawVirtualChannel
<1>2. \/ updateGeneric(e, "settlement", s, v)
      \/ UNCHANGED <<parent, op, net>>
  BY DEF withdrawVirtualChannel
<1>3. s.Version = 2 /\ s.Balances \in [1..1 -> [1..2 -> Int]]
  <2>1. cur = Funded(e, IndexMap(e)) /\ IndexMap(e) \in Seq(Nat) /\ Len(IndexMap(e)) = 2 /\ IsV(v)
    BY <1>1 DEF IInv, EndInv, EndShape, States, HubInv, F, Unopened
  <2>2. PICK im \in Seq(Nat) : im = IndexMap(e)
    BY <2>1
  <2>3. cur = Funded(e, im) /\ Len(im) = 2
    BY <2>1, <2>2
  <2>4. l.IndexMap = im
    BY <2>3, FundedFacts
  <2> HIDE DEF v, cur, l, bals
  <2>5. PICK k, b, w : k = l /\ b = bals /\ w = v
    OBVIOUS
  <2>6. b = translateBalances(w, im) /\ IsV(w)
    BY <2>1, <2>4, <2>5 DEF bals
  <2> DEFINE z == RemoveSubAlloc([Funded(e, im) EXCEPT !.Version = @ + 1, !.Balances = Plus(@, b)], k)
  <2>7. z.Version = 2 /\ z.Balances \in [1..1 -> [1..2 -> Int]]
    BY <2>3, <2>6, SettledState
  <2>8. z = s
    BY <2>3, <2>5
  <2> QED BY <2>7, <2>8
<1>4. CASE updateGeneric(e, "settlement", s, v)
  <2>1. PICK z : z = s
    OBVIOUS
  <2> HIDE DEF s
  <2>2. /\ updateGeneric(e, "settlement", z, virtual[e].cur) /\ z.Version = 2
        /\ z.Balances \in [1..1 -> [1..2 -> Int]]
    BY <1>3, <1>4, <2>1
  <2> QED BY <1>1, <2>2, withdrawSent
<1>5. CASE UNCHANGED <<parent, op, net>>
  <2>1. UNCHANGED <<hubVars, prop, chain, parent, op, net>>
    BY <1>1, <1>5
  <2> QED BY <1>1, <2>1, withdrawFails
<1> QED BY <1>2, <1>4, <1>5
\* RecvResponse: an update is discarded.
LEMMA responseDiscards ==
  ASSUME IInv, NEW e \in Ends, op[e].pc \in {"funding", "settlement"},
         parent' = [parent EXCEPT ![e].phase = "Acting"], NEW pc,
         pc = IF op[e].pc = "funding" THEN "failed" ELSE "opened",
         op' = [op EXCEPT ![e].pc = pc],
         \A m \in net' : m \in net, UNCHANGED <<hubVars, prop, chain, virtual>>
  PROVE  IInv'
<1>0. EndShape
  BY DEF IInv
<1>1. /\ UNCHANGED <<hubVars, hub, handler, store, watch, panicked, virtual>>
      /\ prop' = prop /\ chain' = chain /\ (op[e].pc = "funding" \/ op[e].pc = "settlement")
      /\ pc = (IF op[e].pc = "funding" THEN "failed" ELSE "opened")
      /\ parent[e].phase = "Signing" /\ \A m \in net' : m \in net
  BY DEF hubVars, IInv, EndInv
<1>2. /\ op'[e].pc = pc /\ \A x \in Ends : x # e => op'[x] = op[x]
  BY <1>0, OpFacts
<1>21. /\ parent'[e].cur = parent[e].cur /\ parent'[e].phase = "Acting"
       /\ \A x \in Ends : x # e => parent'[x] = parent[x]
       /\ \A x \in Ends : virtual'[x].cur = virtual[x].cur
  BY <1>0, <1>1, ParentPhase
<1>4. EndShape'
  <2>1. op' = [x \in Ends |-> [pc |-> op'[x].pc, next |-> op'[x].next]]
    BY <1>0, OpFacts
  <2>2. parent' = [x \in Ends |-> [phase |-> parent'[x].phase, cur |-> parent'[x].cur]]
    BY <1>0, ParentPhase
  <2> QED BY <1>0, <1>1, <2>1, <2>2, SameProp DEF EndShape
<1>5. ASSUME NEW x \in Ends PROVE EndInv(x)'
  <2>1. CASE x = e
    BY <1>1, <1>2, <1>21, <2>1, SameProp DEF IInv, EndInv, Unopened
  <2>2. CASE x # e
    BY <1>1, <1>2, <1>21, <2>2, SameProp DEF IInv, EndInv
  <2> QED BY <2>1, <2>2
<1>6. ASSUME NEW m \in net' PROVE MsgInv(m)'
  BY <1>1, <1>2, SameProp DEF IInv, MsgInv
<1>7. DisputeInv'
  <2>1. parent[e].phase # "Registered" /\ \A m \in net' : m \in net \/ m.end = e
    BY <1>1
  <2> QED BY <1>1, <1>21, <2>1, DisputeKept
<1>8. /\ HandlerShape' /\ HubShape' /\ States' /\ StoreInv'
      /\ \A x \in Ends : HandlerInv(x)' /\ HubInv(x)' /\ HalfSettled(x)'
      /\ Undisturbed' /\ MatchNotMissed'
  <2>1. \A x \in Ends : op'[x].pc = "fund" => op[x].pc = "fund"
    BY <1>1, <1>2
  <2> QED BY <1>1, <1>21, <2>1, EndFrame
<1> QED BY <1>4, <1>5, <1>6, <1>7, <1>8 DEF IInv

\* RecvResponse: the hub has accepted.
LEMMA responseAccepted ==
  ASSUME IInv, NEW e \in Ends, op[e].pc \in {"funding", "settlement"},
         NEW m \in net, m.type = "acc", m.end = e, m.state = op[e].next,
         parent' = [parent EXCEPT ![e] = [phase |-> "Acting", cur |-> m.state]], NEW pc, NEW ph,
         pc = IF op[e].pc = "funding" THEN "opened" ELSE "settled",
         ph = IF op[e].pc = "funding" THEN "Acting" ELSE "Withdrawn",
         /\ op' = [x \in Ends |-> [pc |-> op'[x].pc, next |-> op'[x].next]]
         /\ op'[e].pc = pc /\ \A x \in Ends : x # e => op'[x] = op[x],
         /\ virtual' = [x \in Ends |-> [phase |-> virtual'[x].phase, cur |-> virtual'[x].cur]]
         /\ virtual'[e].phase = ph /\ virtual'[e].cur = virtual[e].cur
         /\ \A x \in Ends : x # e => virtual'[x] = virtual[x],
         \A n \in net' : n \in net, UNCHANGED <<hubVars, prop, chain>>
  PROVE  IInv'
<1>0. EndShape
  BY DEF IInv
<1>1. /\ UNCHANGED <<hubVars, hub, handler, store, watch, panicked>>
      /\ prop' = prop /\ chain' = chain /\ (op[e].pc = "funding" \/ op[e].pc = "settlement")
      /\ pc = (IF op[e].pc = "funding" THEN "opened" ELSE "settled")
      /\ ph = (IF op[e].pc = "funding" THEN "Acting" ELSE "Withdrawn")
      /\ parent[e].phase = "Signing" /\ hub[e].Version # 0 /\ \A n \in net' : n \in net
      /\ (op[e].pc = "funding" => m.state = F(e) /\ virtual[e].cur = InitVirtual)
      /\ (op[e].pc = "settlement" => virtual[e].cur.IsFinal)
  BY EndsFacts DEF hubVars, IInv, EndInv, MsgInv, Unopened, Ends
<1>2. /\ op'[e].pc = pc /\ \A x \in Ends : x # e => op'[x] = op[x]
  OBVIOUS
<1>20. /\ parent'[e] = [phase |-> "Acting", cur |-> m.state]
       /\ \A x \in Ends : x # e => parent'[x] = parent[x]
       /\ parent' = [x \in Ends |-> parent'[x]]
  BY <1>0 DEF EndShape
<1>21. /\ parent'[e].cur = m.state /\ parent'[e].phase = "Acting"
       /\ \A x \in Ends : x # e => parent'[x] = parent[x]
       /\ virtual'[e].phase = ph /\ \A x \in Ends : virtual'[x].cur = virtual[x].cur
       /\ \A x \in Ends : x # e => virtual'[x] = virtual[x]
  <2>1. /\ virtual'[e].phase = ph /\ virtual'[e].cur = virtual[e].cur
        /\ \A x \in Ends : x # e => virtual'[x] = virtual[x]
    OBVIOUS
  <2> QED BY <1>20, <2>1
<1>4. EndShape'
  <2>1. op' = [x \in Ends |-> [pc |-> op'[x].pc, next |-> op'[x].next]]
    OBVIOUS
  <2>2. virtual' = [x \in Ends |-> [phase |-> virtual'[x].phase, cur |-> virtual'[x].cur]]
    OBVIOUS
  <2>3. parent' = [x \in Ends |-> [phase |-> parent'[x].phase, cur |-> parent'[x].cur]]
    <3>1. \A x \in Ends : parent[x] = [phase |-> parent[x].phase, cur |-> parent[x].cur]
      BY <1>0 DEF EndShape
    <3>2. \A x \in Ends : parent'[x] = [phase |-> parent'[x].phase, cur |-> parent'[x].cur]
      BY <1>20, <3>1
    <3> QED BY <1>20, <3>2
  <2> QED BY <1>0, <1>1, <2>1, <2>2, <2>3, SameProp DEF EndShape
<1>5. ASSUME NEW x \in Ends PROVE EndInv(x)'
  <2>1. CASE x = e
    BY <1>1, <1>2, <1>21, <2>1, SameProp, EndsFacts, InitV DEF IInv, EndInv, Unopened
  <2>2. CASE x # e
    BY <1>1, <1>2, <1>21, <2>2, SameProp, EndsFacts DEF IInv, EndInv
  <2> QED BY <2>1, <2>2
<1>6. ASSUME NEW n \in net' PROVE MsgInv(n)'
  BY <1>1, <1>2, <1>21, SameProp DEF IInv, MsgInv
<1>7. DisputeInv'
  <2>1. parent[e].phase # "Registered" /\ \A n \in net' : n \in net \/ n.end = e
    BY <1>1
  <2> QED BY <1>1, <1>21, <2>1, DisputeKept
<1>8. /\ HandlerShape' /\ HubShape' /\ States' /\ StoreInv'
      /\ \A x \in Ends : HandlerInv(x)' /\ HubInv(x)' /\ HalfSettled(x)'
      /\ Undisturbed' /\ MatchNotMissed'
  <2>1. \A x \in Ends : op'[x].pc = "fund" => op[x].pc = "fund"
    BY <1>1, <1>2
  <2> QED BY <1>1, <1>21, <2>1, EndFrame
<1> QED BY <1>4, <1>5, <1>6, <1>7, <1>8 DEF IInv

LEMMA RecvResponseStep ==
  ASSUME IInv, NEW e \in Ends, RecvResponse(e)
  PROVE  IInv'
<1> DEFINE funding == op[e].pc = "funding"
           discard == /\ parent' = [parent EXCEPT ![e].phase = "Acting"]
                      /\ op' = [op EXCEPT ![e].pc = IF funding THEN "failed" ELSE "opened"]
                      /\ UNCHANGED virtual
<1>1. op[e].pc \in {"funding", "settlement"} /\ UNCHANGED <<hubVars, prop, chain>>
  BY DEF RecvResponse
<1>2. ASSUME discard, \A m \in net' : m \in net PROVE IInv'
  <2>1. PICK pc : pc = IF op[e].pc = "funding" THEN "failed" ELSE "opened"
    OBVIOUS
  <2>2. op' = [op EXCEPT ![e].pc = pc] /\ parent' = [parent EXCEPT ![e].phase = "Acting"]
    BY <1>2, <2>1
  <2>3. UNCHANGED <<hubVars, prop, chain, virtual>>
    BY <1>1, <1>2
  <2> QED BY <1>1, <1>2, <2>1, <2>2, <2>3, responseDiscards
<1>3. ASSUME NEW m \in net, m.type = "acc", m.end = e, m.state = op[e].next, net' = net \ {m},
             parent' = [parent EXCEPT ![e] = [phase |-> "Acting", cur |-> m.state]],
             op' = [op EXCEPT ![e].pc = IF funding THEN "opened" ELSE "settled"],
             virtual' = [virtual EXCEPT ![e].phase = IF funding THEN "Acting" ELSE "Withdrawn"]
      PROVE  IInv'
  <2>1. PICK pc, ph : /\ pc = IF op[e].pc = "funding" THEN "opened" ELSE "settled"
                      /\ ph = IF op[e].pc = "funding" THEN "Acting" ELSE "Withdrawn"
    OBVIOUS
  <2>2. op' = [op EXCEPT ![e].pc = pc] /\ virtual' = [virtual EXCEPT ![e].phase = ph]
    BY <1>3, <2>1
  <2>3. \A n \in net' : n \in net
    BY <1>3
  <2>4. /\ m.type = "acc" /\ m.end = e /\ m.state = op[e].next
        /\ parent' = [parent EXCEPT ![e] = [phase |-> "Acting", cur |-> m.state]]
    BY <1>3
  <2>5. EndShape
    BY DEF IInv
  <2>6. /\ op' = [x \in Ends |-> [pc |-> op'[x].pc, next |-> op'[x].next]]
        /\ op'[e].pc = pc /\ \A x \in Ends : x # e => op'[x] = op[x]
    BY <2>2, <2>5, OpFacts
  <2>7. /\ virtual' = [x \in Ends |-> [phase |-> virtual'[x].phase, cur |-> virtual'[x].cur]]
        /\ virtual'[e].phase = ph /\ virtual'[e].cur = virtual[e].cur
        /\ \A x \in Ends : x # e => virtual'[x] = virtual[x]
    BY <2>2, <2>5, VirtualPhase
  <2> QED BY <1>1, <2>1, <2>3, <2>4, <2>6, <2>7, responseAccepted
<1>4. \/ discard /\ \A m \in net' : m \in net
      \/ \E m \in net :
           /\ m.type = "acc" /\ m.end = e /\ m.state = op[e].next /\ net' = net \ {m}
           /\ parent' = [parent EXCEPT ![e] = [phase |-> "Acting", cur |-> m.state]]
           /\ op' = [op EXCEPT ![e].pc = IF funding THEN "opened" ELSE "settled"]
           /\ virtual' = [virtual EXCEPT ![e].phase = IF funding THEN "Acting" ELSE "Withdrawn"]
  BY DEF RecvResponse
<1> HIDE DEF discard, funding
<1> QED BY <1>2, <1>3, <1>4
\* Nothing is settled while both ends go on with the virtual channel.
LEMMA ActingFacts ==
  ASSUME IInv, \A e \in Ends : op[e].pc = "opened" /\ ~virtual[e].cur.IsFinal
  PROVE  /\ \A e \in Ends : hub[e].Version = 1 /\ handler[e].kind # "settlement"
         /\ \A m \in net : m.type # "settlement"
         /\ ForcedFinal => store.phase # "Signing"
         /\ chain.IsFinal => \A e \in Ends : chain # virtual[e].cur
<1>1. ASSUME NEW e \in Ends PROVE hub[e].Version = 1 /\ handler[e].kind # "settlement"
  <2>1. hub[e].Version # 2 /\ handler[e].kind # "settlement"
    BY DEF IInv, HubInv, HandlerInv, SettlementInv
  <2>2. hub[e].Version # 0
    BY DEF IInv, EndInv, Unopened
  <2> QED BY <2>1, <2>2 DEF IInv, HubInv
<1>2. \A m \in net : m.type # "settlement"
  BY DEF IInv, MsgInv
<1>3. ForcedFinal => store.phase # "Signing"
  BY DEF ForcedFinal
<1> QED BY <1>1, <1>2, <1>3

\* A payment of participant 1.
LEMMA PayV ==
  ASSUME NEW v, IsV(v), NEW pay \in {0, 1}, NEW final \in BOOLEAN, v.Version >= 0
  PROVE  LET w == State(v.Version + 1, <<v.Balances[1][1] - pay, v.Balances[1][2] + pay>>, final)
         IN IsV(w) /\ w.Version >= 0 /\ (w.IsFinal <=> final)
<1> DEFINE w == State(v.Version + 1, <<v.Balances[1][1] - pay, v.Balances[1][2] + pay>>, final)
<1>1. PICK n \in Int, a \in Int, b \in Int :
        n = v.Version + 1 /\ a = v.Balances[1][1] - pay /\ b = v.Balances[1][2] + pay
  BY DEF IsV
<1>2. w = State(n, <<a, b>>, final)
  BY <1>1
<1> HIDE DEF w
<1>3. w.Version = n /\ w.IsFinal = final /\ w.Balances[1][1] = a /\ w.Balances[1][2] = b
  BY <1>2 DEF State
<1>4. a + b = VirtualBals[1] + VirtualBals[2] /\ b >= VirtualBals[2] /\ n >= 0
  BY <1>1, BalsAssumption DEF IsV
<1>5. w = State(w.Version, <<w.Balances[1][1], w.Balances[1][2]>>, w.IsFinal)
  BY <1>2, <1>3
<1>6. IsV(w)
  BY <1>3, <1>4, <1>5 DEF IsV
<1> QED BY <1>1, <1>3, <1>4, <1>6 DEF w

\* UpdateVirtual, with the new states of the ends.
LEMMA virtualUpdated ==
  ASSUME IInv, \A e \in Ends : op[e].pc = "opened" /\ ~virtual[e].cur.IsFinal,
         NEW w, IsV(w), w.Version >= 0,
         virtual' = [e \in Ends |-> [phase |-> virtual'[e].phase, cur |-> virtual'[e].cur]],
         \A e \in Ends :
           \/ virtual'[e] = virtual[e]
           \/ /\ virtual'[e].cur = w
              /\ virtual'[e].phase = IF w.IsFinal THEN "Final" ELSE "Acting",
         UNCHANGED <<hubVars, prop, parent, op, chain, net>>
  PROVE  IInv'
<1>1. /\ UNCHANGED <<hub, handler, store, watch, panicked, parent, op, net>>
      /\ prop' = prop /\ chain' = chain
  BY DEF hubVars
<1>2. /\ \A e \in Ends : hub[e].Version = 1 /\ handler[e].kind # "settlement"
      /\ \A m \in net : m.type # "settlement"
      /\ ForcedFinal => store.phase # "Signing"
      /\ chain.IsFinal => \A e \in Ends : chain # virtual[e].cur
  BY ActingFacts
<1>3. \A e \in Ends : op[e].pc = "opened" /\ ~virtual[e].cur.IsFinal
  OBVIOUS
<1>4. EndShape' /\ HandlerShape' /\ HubShape'
  BY <1>1, SameProp DEF IInv, EndShape, HandlerShape, HubShape
<1>5. States' /\ StoreInv'
  <2>1. StoreInv'
    BY <1>1, SameProp DEF IInv, StoreInv
  <2>2. \A e \in Ends : IsV(virtual'[e].cur) /\ virtual'[e].cur.Version >= 0
    BY DEF IInv, States
  <2> QED BY <1>1, <2>1, <2>2 DEF IInv, States
<1>6. ASSUME NEW e \in Ends PROVE EndInv(e)'
  <2>1. virtual'[1].cur.IsFinal /\ virtual'[2].cur.IsFinal => virtual'[1].cur = virtual'[2].cur
    BY <1>3, EndsFacts
  <2>2. /\ virtual'[e].phase \in {"Funding", "Acting", "Final", "Withdrawing", "Withdrawn"}
        /\ virtual'[e].cur.IsFinal <=> virtual'[e].phase \in {"Final", "Withdrawing", "Withdrawn"}
    <3>1. CASE virtual'[e] = virtual[e]
      BY <3>1 DEF IInv, EndInv
    <3>2. CASE virtual'[e].cur = w /\ virtual'[e].phase = IF w.IsFinal THEN "Final" ELSE "Acting"
      BY <3>2
    <3> QED BY <3>1, <3>2
  <2> QED BY <1>1, <1>3, <2>1, <2>2, SameProp DEF IInv, EndInv, Unopened
<1>7. ASSUME NEW e \in Ends PROVE HandlerInv(e)'
  <2>1. FundingInv(e)'
    BY <1>1, SameProp DEF IInv, HandlerInv, FundingInv
  <2>2. SettlementInv(e)'
    BY <1>1, <1>2 DEF SettlementInv
  <2> QED BY <1>1, <2>1, <2>2 DEF IInv, HandlerInv
<1>8. ASSUME NEW e \in Ends PROVE HubInv(e)' /\ HalfSettled(e)'
  <2>1. HubInv(e)'
    BY <1>1, <1>2, SameProp DEF IInv, HubInv
  <2> QED BY <1>1, <1>2, <2>1 DEF HalfSettled
<1>9. ASSUME NEW m \in net' PROVE MsgInv(m)'
  BY <1>1, <1>2, SameProp DEF IInv, MsgInv
<1>10. DisputeInv'
  <2>1. \A x \in Ends : Sent(x)' <=> Sent(x)
    BY <1>1 DEF Sent
  <2>2. ForcedFinal => ForcedFinal'
    BY <1>1, <1>2 DEF ForcedFinal
  <2> QED BY <1>1, <1>2, <2>1, <2>2 DEF IInv, DisputeInv
<1>11. Undisturbed' /\ MatchNotMissed'
  BY <1>1, SameProp DEF IInv, Undisturbed, CanAddSigs, MatchNotMissed
<1> QED BY <1>4, <1>5, <1>6, <1>7, <1>8, <1>9, <1>10, <1>11 DEF IInv

LEMMA UpdateVirtualStep ==
  ASSUME IInv, UpdateVirtual
  PROVE  IInv'
<1> DEFINE cur == virtual[1].cur
<1>1. /\ \A e \in Ends : op[e].pc = "opened" /\ virtual[e] = [phase |-> "Acting", cur |-> cur]
      /\ UNCHANGED <<hubVars, prop, parent, op, chain, net>>
  BY DEF UpdateVirtual
<1>2. PICK pay \in {0, 1}, final \in BOOLEAN, enabling \in {{1, 2}, {1}, {2}} :
        /\ pay <= cur.Balances[1][1] /\ (final \/ pay = 1)
        /\ virtual' = [e \in Ends |->
             IF e \notin enabling THEN virtual[e]
             ELSE [phase |-> IF final THEN "Final" ELSE "Acting",
                   cur |-> State(cur.Version + 1, <<cur.Balances[1][1] - pay,
                                                    cur.Balances[1][2] + pay>>, final)]]
  BY Zenon DEF UpdateVirtual
<1>3. IsV(cur) /\ cur.Version >= 0
  BY EndsFacts DEF IInv, States
<1>4. \A e \in Ends : ~virtual[e].cur.IsFinal
  <2>1. \A e \in Ends : virtual[e].phase = "Acting"
    BY <1>1
  <2> QED BY <2>1 DEF IInv, EndInv
<1>5. PICK w, ph : /\ w = State(cur.Version + 1, <<cur.Balances[1][1] - pay, cur.Balances[1][2] + pay>>, final)
                   /\ ph = IF final THEN "Final" ELSE "Acting"
  OBVIOUS
<1>6. virtual' = [e \in Ends |-> IF e \notin enabling THEN virtual[e] ELSE [phase |-> ph, cur |-> w]]
  BY <1>2, <1>5
<1>7. IsV(w) /\ w.Version >= 0 /\ (w.IsFinal <=> final)
  <2>1. PICK v : v = cur
    OBVIOUS
  <2> HIDE DEF cur
  <2>2. IsV(v) /\ v.Version >= 0
    BY <1>3, <2>1
  <2> DEFINE u == State(v.Version + 1, <<v.Balances[1][1] - pay, v.Balances[1][2] + pay>>, final)
  <2>3. IsV(u) /\ u.Version >= 0 /\ (u.IsFinal <=> final)
    BY <2>2, PayV
  <2>4. u = w
    BY <1>5, <2>1
  <2> QED BY <2>3, <2>4
<1> HIDE DEF cur
<1>8. ASSUME NEW e \in Ends
      PROVE  /\ virtual'[e] = [phase |-> virtual'[e].phase, cur |-> virtual'[e].cur]
             /\ \/ virtual'[e] = virtual[e]
                \/ virtual'[e].cur = w /\ virtual'[e].phase = ph
  <2>1. virtual[e] = [phase |-> virtual[e].phase, cur |-> virtual[e].cur]
    BY <1>1
  <2>2. virtual'[e] = virtual[e] \/ virtual'[e] = [phase |-> ph, cur |-> w]
    BY <1>6
  <2> QED BY <2>1, <2>2
<1>9. virtual' = [e \in Ends |-> [phase |-> virtual'[e].phase, cur |-> virtual'[e].cur]]
  <2>1. virtual' = [e \in Ends |-> virtual'[e]]
    BY <1>6
  <2> QED BY <1>8, <2>1
<1>10. ph = IF w.IsFinal THEN "Final" ELSE "Acting"
  BY <1>5, <1>7
<1>11. \A e \in Ends : \/ virtual'[e] = virtual[e]
                        \/ /\ virtual'[e].cur = w
                           /\ virtual'[e].phase = IF w.IsFinal THEN "Final" ELSE "Acting"
  BY <1>8, <1>10
<1>12. \A e \in Ends : op[e].pc = "opened" /\ ~virtual[e].cur.IsFinal
  BY <1>1, <1>4
<1> QED BY <1>1, <1>7, <1>9, <1>11, <1>12, virtualUpdated

LEMMA DisputeStep ==
  ASSUME IInv, NEW e \in Ends, Dispute(e)
  PROVE  IInv'
<1>0. EndShape
  BY DEF IInv
<1>1. /\ UNCHANGED <<hub, handler, store, watch, panicked, virtual, op, net>> /\ prop' = prop
      /\ op[e].pc = "opened" /\ parent[e].phase = "Acting" /\ chain' = virtual[e].cur
      /\ virtual[e].cur.Version > chain.Version
  BY DEF Dispute, hubVars
<1>2. parent' = [parent EXCEPT ![e].phase = "Registered"]
  BY DEF Dispute
<1>3. /\ parent'[e].phase = "Registered" /\ parent'[e].cur = parent[e].cur
      /\ \A x \in Ends : x # e => parent'[x] = parent[x]
  BY <1>0, <1>2, ParentPhase
<1>4. EndShape' /\ HandlerShape' /\ HubShape'
  <2>1. parent' = [x \in Ends |-> [phase |-> parent'[x].phase, cur |-> parent'[x].cur]]
    BY <1>0, <1>2, ParentPhase
  <2> QED BY <1>1, <2>1, SameProp DEF IInv, EndShape, HandlerShape, HubShape
<1>5. States' /\ StoreInv'
  <2>1. StoreInv'
    BY <1>1, SameProp DEF IInv, StoreInv
  <2> QED BY <1>1, <2>1 DEF IInv, States
<1>6. ASSUME NEW x \in Ends PROVE EndInv(x)'
  <2>1. CASE x = e
    BY <1>1, <1>3, <2>1, SameProp DEF IInv, EndInv, Unopened
  <2>2. CASE x # e
    BY <1>1, <1>3, <2>2, SameProp DEF IInv, EndInv
  <2> QED BY <2>1, <2>2
<1>7. ASSUME NEW x \in Ends PROVE HandlerInv(x)'
  <2>1. FundingInv(x)'
    BY <1>1, SameProp DEF IInv, HandlerInv, FundingInv
  <2>2. SettlementInv(x)'
    BY <1>1, SameProp DEF IInv, HandlerInv, SettlementInv, Settling
  <2> QED BY <1>1, <2>1, <2>2 DEF IInv, HandlerInv
<1>8. ASSUME NEW x \in Ends PROVE HubInv(x)' /\ HalfSettled(x)'
  <2>1. hub[x].Version = 0 => chain'.Version <= 0
    <3>1. hub[x].Version = 0 => virtual[1].cur = InitVirtual /\ virtual[2].cur = InitVirtual
      BY DEF IInv, EndInv
    <3> QED BY <1>1, <3>1, InitV DEF Ends
  <2>2. HubInv(x)'
    BY <1>1, <2>1, SameProp DEF IInv, HubInv, Settling
  <2> QED BY <1>1, <2>2 DEF IInv, HalfSettled
<1>9. ASSUME NEW m \in net' PROVE MsgInv(m)'
  BY <1>1, SameProp DEF IInv, MsgInv
<1>10. DisputeInv'
  <2>1. /\ \A x \in Ends : Sent(x)' <=> Sent(x)
        /\ ForcedFinal' <=> ForcedFinal
    BY <1>1 DEF Sent, ForcedFinal
  <2>2. CASE ~Sent(e)
    BY <1>3, <2>1, <2>2 DEF DisputeInv
  <2>3. CASE Sent(e)
    <3>1. virtual[e].cur.IsFinal
      BY <2>3 DEF IInv, Sent, MsgInv, HandlerInv, SettlementInv, HubInv
    <3>2. CASE chain = NotRegistered /\ watch.pc \in {"none", "next"} /\ ForcedFinal
      BY <1>1, <2>1, <3>1, <3>2 DEF DisputeInv
    <3>3. CASE \E x \in Ends : parent[x].phase = "Registered" /\ ~Sent(x)
      BY <1>1, <1>3, <2>1, <3>3 DEF DisputeInv
    <3>4. ~(chain.IsFinal /\ \E x \in Ends : chain = virtual[x].cur)
      <4> SUFFICES ASSUME NEW x \in Ends, chain.IsFinal, chain = virtual[x].cur PROVE FALSE
        OBVIOUS
      <4>1. virtual[x].cur = virtual[e].cur
        BY <3>1 DEF IInv, EndInv, Ends
      <4>2. chain.Version \in Int
        BY DEF IInv, States, IsV
      <4> QED BY <1>1, <4>1, <4>2
    <3> QED BY <3>2, <3>3, <3>4 DEF IInv, DisputeInv
  <2> QED BY <2>2, <2>3
<1>11. Undisturbed' /\ MatchNotMissed'
  <2>1. chain'.Version >= 0 /\ chain'.Version \in Int
    BY <1>1 DEF IInv, States, IsV
  <2>2. chain' # NotRegistered
    BY <2>1, InitV
  <2> QED BY <1>1, <2>2, SameProp DEF IInv, Undisturbed, MatchNotMissed
<1> QED BY <1>4, <1>5, <1>6, <1>7, <1>8, <1>9, <1>10, <1>11 DEF IInv
-----------------------------------------------------------------------------
(* The invariant holds *)

LEMMA InitIInv == Init => IInv
<1> SUFFICES ASSUME Init PROVE IInv
  OBVIOUS
<1>1. PICK r \in Requests : prop = Prop(r)
  BY DEF Init, Agreed
<1>2. prop.IndexMaps = r.maps /\ prop.Parents = <<1, 2>>
  BY <1>1 DEF Prop, Msgs!NewVirtualChannelProposal
<1>3. \A e \in Ends : IndexMap(e) \in Seq(Nat)
  BY <1>2, MapsAssumption DEF IndexMap
<1>4. \A e \in Ends : proposalParent(prop, e) = H0(e)
  <2>1. \A e \in Ends : prop.Parents[e] = e
    BY <1>2 DEF Ends
  <2> QED BY <2>1 DEF proposalParent, H0
<1>5. /\ parent = [e \in Ends |-> [phase |-> "Acting", cur |-> proposalParent(prop, e)]]
      /\ virtual = [e \in Ends |-> [phase |-> "Funding", cur |-> InitVirtual]]
      /\ op = [e \in Ends |-> [pc |-> "fund", next |-> InitVirtual]]
      /\ hub = [e \in Ends |-> H0(e)]
      /\ handler = [e \in Ends |-> NoHandler]
      /\ store = [in |-> FALSE, phase |-> "none", cur |-> InitVirtual,
                  staging |-> InitVirtual, signed |-> FALSE]
      /\ watch = [pc |-> "none", ev |-> NotRegistered]
      /\ chain = NotRegistered /\ net = {} /\ panicked = FALSE
  BY DEF Init, H0
<1>6. /\ \A e \in Ends : /\ parent[e].phase = "Acting" /\ parent[e].cur = H0(e)
                         /\ virtual[e].phase = "Funding" /\ virtual[e].cur = InitVirtual
                         /\ op[e].pc = "fund" /\ hub[e] = H0(e) /\ handler[e] = NoHandler
      /\ store.phase = "none" /\ store.cur = InitVirtual /\ store.staging = InitVirtual
      /\ store.in = FALSE /\ store.signed = FALSE
      /\ watch.pc = "none" /\ watch.ev = NotRegistered
      /\ chain = NotRegistered /\ net = {} /\ panicked = FALSE
  BY <1>4, <1>5
<1>7. EndShape
  BY <1>3, <1>5 DEF EndShape
<1>8. HandlerShape /\ HubShape
  BY <1>5, <1>6, NoHandlerFacts DEF HandlerShape, HubShape
<1>9. States /\ StoreInv
  BY <1>6, InitV, EndsFacts DEF States, StoreInv
<1>10. ASSUME NEW e \in Ends PROVE EndInv(e) /\ HandlerInv(e) /\ HubInv(e) /\ HalfSettled(e)
  <2>1. EndInv(e)
    BY <1>6, InitV, EndsFacts DEF EndInv, Unopened
  <2>2. HandlerInv(e)
    BY <1>6, NoHandlerFacts DEF HandlerInv, FundingInv, SettlementInv
  <2>3. HubInv(e) /\ HalfSettled(e)
    BY <1>6, InitV, FundedVersion DEF HubInv, HalfSettled
  <2> QED BY <2>1, <2>2, <2>3
<1>11. DisputeInv /\ Undisturbed /\ MatchNotMissed
  BY <1>6, NoHandlerFacts, EndsFacts DEF DisputeInv, ForcedFinal, Undisturbed, MatchNotMissed
<1> QED BY <1>6, <1>7, <1>8, <1>9, <1>10, <1>11 DEF IInv

LEMMA StutterIInv ==
  ASSUME IInv, UNCHANGED vars
  PROVE  IInv'
<1>1. UNCHANGED <<endVars, hub, handler, store, watch, panicked, net>>
  BY DEF vars, hubVars
<1>2. UNCHANGED <<parent, virtual, prop, op, chain>>
  BY <1>1 DEF endVars
<1>3. /\ EndShape' /\ HubShape' /\ States' /\ StoreInv'
      /\ \A x \in Ends : EndInv(x)' /\ HubInv(x)'
  BY <1>1, Frame
<1>4. HandlerShape'
  BY <1>1 DEF IInv, HandlerShape
<1>5. ASSUME NEW x \in Ends PROVE HandlerInv(x)' /\ HalfSettled(x)'
  <2>1. FundingInv(x)'
    BY <1>1, <1>2, SameProp DEF IInv, HandlerInv, FundingInv
  <2>2. SettlementInv(x)'
    BY <1>1, <1>2, SameProp DEF IInv, HandlerInv, SettlementInv, Settling
  <2> QED BY <1>1, <2>1, <2>2 DEF IInv, HandlerInv, HalfSettled
<1>6. ASSUME NEW m \in net' PROVE MsgInv(m)'
  BY <1>1, <1>2, SameProp DEF IInv, MsgInv
<1>7. DisputeInv' /\ Undisturbed' /\ MatchNotMissed'
  <2>1. DisputeInv'
    BY <1>1, <1>2 DEF IInv, DisputeInv, Sent, ForcedFinal
  <2> QED BY <1>1, <1>2, <2>1, SameProp DEF IInv, Undisturbed, CanAddSigs, MatchNotMissed
<1> QED BY <1>3, <1>4, <1>5, <1>6, <1>7 DEF IInv

\* The inductive invariant: what the hub, the ends and the messages between them
\* know of the parents and of the virtual channel fits together, after every step
\* of virtual_channel.go, virtual_channel_settlement.go and the watchers.
THEOREM VirtualInvariant == Spec => []IInv
<1>1. IInv /\ [Next]_vars => IInv'
  <2> SUFFICES ASSUME IInv, [Next]_vars PROVE IInv'
    OBVIOUS
  <2>1. CASE UNCHANGED vars
    BY <2>1, StutterIInv
  <2>2. CASE UpdateVirtual
    BY <2>2, UpdateVirtualStep
  <2>3. CASE Hub
    BY <2>3, HubStep
  <2>4. ASSUME NEW e \in Ends,
               \/ proposeVirtualChannelFunding(e) \/ withdrawVirtualChannel(e)
               \/ RecvResponse(e) \/ Dispute(e)
        PROVE  IInv'
    BY <2>4, proposeStep, withdrawStep, RecvResponseStep, DisputeStep
  <2> QED BY <2>1, <2>2, <2>3, <2>4 DEF Next
<1> QED BY <1>1, InitIInv, PTL DEF Spec

\* stateWatcher: two proposals that match never wait for each other until they
\* time out, unless a responder was used up or a dispute got in between.
THEOREM MatchingProposalsMeet == Spec => []MatchNotMissed
<1>1. IInv => MatchNotMissed
  BY DEF IInv
<1> QED BY <1>1, VirtualInvariant, PTL

-----------------------------------------------------------------------------
(* The claim of the hub *)

LEMMA ShareFacts ==
  ASSUME NEW im \in Seq(Nat), Len(im) = 2, NEW v, IsV(v)
  PROVE  /\ Share(im, v) = IF im[2] = 1 THEN v.Balances[1][2]
                           ELSE IF im[1] = 1 THEN v.Balances[1][1] ELSE 0
         /\ Share(im, v) \in Int
<1>1. PICK b \in [1..1 -> [1..2 -> Int]] : b = v.Balances
  BY VirtualParts
<1>2. transformBalances(b, 2, im)[1][2] =
        IF im[2] = 1 THEN b[1][2] ELSE IF im[1] = 1 THEN b[1][1] ELSE 0
  BY Transform
<1> QED BY <1>1, <1>2 DEF Share, hubIdx

\* A hub that stands in for every participant gains what participant 1 pays.
LEMMA CoveredShares ==
  ASSUME NEW v, IsV(v), HubCovers, NEW im1 \in Seq(Nat), NEW im2 \in Seq(Nat),
         im1 = IndexMap(1), im2 = IndexMap(2), Len(im1) = 2, Len(im2) = 2
  PROVE  /\ Share(im1, v) + Share(im2, v) >= Share(im1, InitVirtual) + Share(im2, InitVirtual)
         /\ Share(im1, v) \in Int /\ Share(im2, v) \in Int
         /\ Share(im1, InitVirtual) \in Int /\ Share(im2, InitVirtual) \in Int
<1>1. im1[2] + 1 = 2 \/ im2[2] + 1 = 2
  <2>1. 2 \in DOMAIN IndexMap(1)
    OBVIOUS
  <2> QED BY <2>1 DEF HubCovers, hubIdx, Ends
<1>2. im1[1] \in Nat /\ im1[2] \in Nat /\ im2[1] \in Nat /\ im2[2] \in Nat
  OBVIOUS
<1>3. PICK a \in Int, b \in Int, c \in Int, d \in Int :
        /\ a = v.Balances[1][1] /\ b = v.Balances[1][2]
        /\ c = InitVirtual.Balances[1][1] /\ d = InitVirtual.Balances[1][2]
  BY InitV DEF IsV
<1>4. a + b = c + d /\ b >= d
  <2>1. a + b = VirtualBals[1] + VirtualBals[2] /\ b >= VirtualBals[2]
    BY <1>3 DEF IsV
  <2>2. c = VirtualBals[1] /\ d = VirtualBals[2]
    BY <1>3 DEF InitVirtual, State
  <2> QED BY <2>1, <2>2
<1>6. /\ Share(im1, v) = IF im1[2] = 1 THEN b ELSE IF im1[1] = 1 THEN a ELSE 0
      /\ Share(im2, v) = IF im2[2] = 1 THEN b ELSE IF im2[1] = 1 THEN a ELSE 0
      /\ Share(im1, InitVirtual) = IF im1[2] = 1 THEN d ELSE IF im1[1] = 1 THEN c ELSE 0
      /\ Share(im2, InitVirtual) = IF im2[2] = 1 THEN d ELSE IF im2[1] = 1 THEN c ELSE 0
  BY <1>3, ShareFacts, InitV
<1>7. PICK s1, s2, t1, t2 : /\ s1 = Share(im1, v) /\ s2 = Share(im2, v)
                            /\ t1 = Share(im1, InitVirtual) /\ t2 = Share(im2, InitVirtual)
  OBVIOUS
<1>8. CASE im1[2] = 1
  <2>1. s1 = b /\ t1 = d
    BY <1>6, <1>7, <1>8
  <2>2. \/ s2 = b /\ t2 = d
        \/ s2 = a /\ t2 = c
        \/ s2 = 0 /\ t2 = 0
    BY <1>6, <1>7
  <2>3. s1 + s2 >= t1 + t2 /\ s1 \in Int /\ s2 \in Int /\ t1 \in Int /\ t2 \in Int
    BY <1>4, <2>1, <2>2
  <2> QED BY <1>7, <2>3
<1>9. CASE im2[2] = 1
  <2>1. s2 = b /\ t2 = d
    BY <1>6, <1>7, <1>9
  <2>2. \/ s1 = b /\ t1 = d
        \/ s1 = a /\ t1 = c
        \/ s1 = 0 /\ t1 = 0
    BY <1>6, <1>7
  <2>3. s1 + s2 >= t1 + t2 /\ s1 \in Int /\ s2 \in Int /\ t1 \in Int /\ t2 \in Int
    BY <1>4, <2>1, <2>2
  <2> QED BY <1>7, <2>3
<1> QED BY <1>1, <1>2, <1>8, <1>9

\* What the hub gets from the parent of e, by the version of that parent.
LEMMA HubGetsFacts ==
  ASSUME IInv, NEW e \in Ends, NEW v, IsV(v)
  PROVE  /\ hub[e].Version = 0 => HubGets(e, v) = ParentBals[e][hubIdx]
         /\ hub[e].Version = 1 => HubGets(e, v) = FundedBal(e, IndexMap(e)) + Share(IndexMap(e), v)
         /\ hub[e].Version = 2 =>
              HubGets(e, v) = FundedBal(e, IndexMap(e)) + Share(IndexMap(e), virtual[e].cur)
<1>1. CASE hub[e].Version = 0
  <2>1. hub[e] = H0(e)
    BY <1>1 DEF IInv, HubInv
  <2>2. ~LockedAt(e) /\ hub[e].Balances[1][2] = ParentBals[e][2]
    BY <2>1 DEF H0, State, LockedAt, HasSubAlloc
  <2>3. ParentBals[e][2] \in Int
    BY BalsAssumption
  <2> QED BY <1>1, <2>2, <2>3 DEF HubGets, hubIdx
<1>2. CASE hub[e].Version = 1
  <2>1. hub[e] = F(e) /\ Len(IndexMap(e)) = 2 /\ IndexMap(e) \in Seq(Nat)
    <3>1. IndexMap(e) \in Seq(Nat)
      BY DEF IInv, EndShape
    <3> QED BY <1>2, <3>1 DEF IInv, HubInv
  <2>2. /\ HasSubAlloc(hub[e], ID) /\ SubAlloc(hub[e], ID).IndexMap = IndexMap(e)
        /\ hub[e].Balances[1][2] = FundedBal(e, IndexMap(e))
    BY <2>1, FundedFacts DEF F
  <2> QED BY <1>2, <2>2 DEF HubGets, LockedAt, Share, hubIdx
<1>3. CASE hub[e].Version = 2
  <2>1. /\ ~HasSubAlloc(hub[e], ID)
        /\ hub[e].Balances[1][2] = FundedBal(e, IndexMap(e)) + Share(IndexMap(e), virtual[e].cur)
        /\ Len(IndexMap(e)) = 2
    BY <1>3 DEF IInv, HubInv, Settling, Settles, hubIdx
  <2>2. IndexMap(e) \in Seq(Nat) /\ IsV(virtual[e].cur)
    BY DEF IInv, EndShape, States
  <2>3. /\ Share(IndexMap(e), virtual[e].cur) \in Int /\ Share(IndexMap(e), InitVirtual) \in Int
        /\ ParentBals[e][2] \in Int
    BY <2>1, <2>2, ShareFacts, InitV, BalsAssumption
  <2> QED BY <1>3, <2>1, <2>3 DEF HubGets, LockedAt, FundedBal, hubIdx
<1> QED BY <1>1, <1>2, <1>3

LEMMA ClaimKept == IInv => HubClaimKept
<1> SUFFICES ASSUME IInv, NEW v \in Outcomes
             PROVE  HubGets(1, v) + HubGets(2, v) >= ParentBals[1][hubIdx] + ParentBals[2][hubIdx]
  BY DEF HubClaimKept
<1>0. 1 \in Ends /\ 2 \in Ends /\ ParentBals[1][hubIdx] \in Int /\ ParentBals[2][hubIdx] \in Int
  BY BalsAssumption, EndsFacts DEF hubIdx
<1>1. v = store.cur \/ v = virtual[1].cur \/ v = virtual[2].cur
  BY DEF Outcomes, Ends
<1>2. IsV(v)
  BY <1>0, <1>1 DEF IInv, States
<1>3. \A e \in Ends : hub[e].Version = 0 \/ hub[e].Version = 1 \/ hub[e].Version = 2
  BY DEF IInv, HubInv
<1>4. CASE \E e \in Ends : hub[e].Version = 0
  <2>1. virtual[1].cur = InitVirtual /\ virtual[2].cur = InitVirtual /\ store.cur = InitVirtual
    BY <1>4 DEF IInv, EndInv, HubInv
  <2>2. v = InitVirtual
    BY <1>1, <2>1
  <2>3. ASSUME NEW e \in Ends PROVE HubGets(e, v) = ParentBals[e][hubIdx]
    <3>1. hub[e].Version # 2
      BY <1>0, <2>1, <2>3, InitV DEF IInv, HubInv, Ends
    <3>2. CASE hub[e].Version = 0
      BY <1>2, <3>2, HubGetsFacts
    <3>3. CASE hub[e].Version = 1
      <4>1. Len(IndexMap(e)) = 2 /\ IndexMap(e) \in Seq(Nat)
        <5>1. IndexMap(e) \in Seq(Nat)
          BY DEF IInv, EndShape
        <5> QED BY <3>3, <5>1 DEF IInv, HubInv
      <4>2. PICK im \in Seq(Nat) : im = IndexMap(e)
        BY <4>1
      <4>3. Share(im, InitVirtual) \in Int
        BY <4>1, <4>2, ShareFacts, InitV
      <4>4. HubGets(e, v) = FundedBal(e, im) + Share(im, InitVirtual)
        BY <1>2, <2>2, <3>3, <4>2, HubGetsFacts
      <4>5. ParentBals[e][hubIdx] \in Int
        BY BalsAssumption DEF hubIdx
      <4> QED BY <4>3, <4>4, <4>5 DEF FundedBal
    <3> QED BY <1>3, <3>1, <3>2, <3>3
  <2> QED BY <1>0, <2>3
<1>5. CASE \A e \in Ends : hub[e].Version # 0
  <2>1. /\ IndexMap(1) \in Seq(Nat) /\ IndexMap(2) \in Seq(Nat)
        /\ Len(IndexMap(1)) = 2 /\ Len(IndexMap(2)) = 2 /\ HubCovers
    BY <1>0, <1>5 DEF IInv, EndShape, HubInv, StoreInv
  <2>2. PICK im1 \in Seq(Nat), im2 \in Seq(Nat) : im1 = IndexMap(1) /\ im2 = IndexMap(2)
    BY <2>1
  <2>3. Len(im1) = 2 /\ Len(im2) = 2
    BY <2>1, <2>2
  <2>4. /\ Share(im1, v) + Share(im2, v) >= Share(im1, InitVirtual) + Share(im2, InitVirtual)
        /\ Share(im1, v) \in Int /\ Share(im2, v) \in Int
        /\ Share(im1, InitVirtual) \in Int /\ Share(im2, InitVirtual) \in Int
    BY <1>2, <2>1, <2>2, <2>3, CoveredShares
  <2>5. ASSUME NEW e \in Ends, hub[e].Version = 2 PROVE v = virtual[e].cur
    <3>1. store.cur = virtual[e].cur /\ virtual[Other(e)].cur = virtual[e].cur
      BY <2>5 DEF IInv, HubInv
    <3> QED BY <1>1, <3>1, <2>5 DEF Ends, Other
  <2>6. HubGets(1, v) = ParentBals[1][hubIdx] - Share(im1, InitVirtual) + Share(im1, v)
    <3>1. CASE hub[1].Version = 1
      BY <1>0, <1>2, <2>2, <3>1, HubGetsFacts DEF FundedBal
    <3>2. CASE hub[1].Version = 2
      <4>1. v = virtual[1].cur
        BY <1>0, <2>5, <3>2
      <4>2. HubGets(1, v) = FundedBal(1, im1) + Share(im1, v)
        BY <1>0, <1>2, <2>2, <3>2, <4>1, HubGetsFacts
      <4> QED BY <1>0, <2>4, <4>2 DEF FundedBal
    <3> QED BY <1>0, <1>3, <1>5, <3>1, <3>2
  <2>7. HubGets(2, v) = ParentBals[2][hubIdx] - Share(im2, InitVirtual) + Share(im2, v)
    <3>1. CASE hub[2].Version = 1
      BY <1>0, <1>2, <2>2, <3>1, HubGetsFacts DEF FundedBal
    <3>2. CASE hub[2].Version = 2
      <4>1. v = virtual[2].cur
        BY <1>0, <2>5, <3>2
      <4>2. HubGets(2, v) = FundedBal(2, im2) + Share(im2, v)
        BY <1>0, <1>2, <2>2, <3>2, <4>1, HubGetsFacts
      <4> QED BY <1>0, <2>4, <4>2 DEF FundedBal
    <3> QED BY <1>0, <1>3, <1>5, <3>1, <3>2
  <2> QED
    <3>1. PICK p1 \in Int, p2 \in Int, s1 \in Int, s2 \in Int, t1 \in Int, t2 \in Int :
            /\ p1 = ParentBals[1][hubIdx] /\ p2 = ParentBals[2][hubIdx]
            /\ s1 = Share(im1, v) /\ s2 = Share(im2, v)
            /\ t1 = Share(im1, InitVirtual) /\ t2 = Share(im2, InitVirtual)
      BY <1>0, <2>4
    <3>2. s1 + s2 >= t1 + t2
      BY <2>4, <3>1
    <3>3. HubGets(1, v) = p1 - t1 + s1 /\ HubGets(2, v) = p2 - t2 + s2
      BY <2>6, <2>7, <3>1
    <3>4. HubGets(1, v) + HubGets(2, v) >= p1 + p2
      BY <3>2, <3>3
    <3> QED BY <3>1, <3>4
<1> QED BY <1>4, <1>5

\* The hub is neutral: whatever is lost, late, timed out or registered on the
\* chain, and wherever it stops between the acceptances of the two parents, every
\* outcome of the virtual channel leaves it with at least what it brought in.
THEOREM HubIsNeutral == Spec => []HubClaimKept
  BY ClaimKept, VirtualInvariant, PTL
=============================================================================
