-------------------------- MODULE SubChannelProofs --------------------------
(***************************************************************************)
(* Proofs about a sub-channel and its parent, for any balances, options,   *)
(* calls of the users and parties that register: what is locked in the     *)
(* parent is what the sub-channel distributes, and the update that locks   *)
(* it is not dropped by a proposee that is still opening the sub-channel.  *)
(***************************************************************************)
EXTENDS SubChannel, TLAPS

-----------------------------------------------------------------------------
(* The inductive invariant *)

\* The sub-allocation that funds the sub-channel, and states that have one.
SubLock == NewSubAlloc(Sub, BalancesSum(InitSub.Balances), <<>>)
Alloc(s) == s.Locked # <<>>

\* The states of the two channels.  The total of a sub-channel's state is that
\* of its initial one, and it locks nothing.
IsState(s) ==
  s = [Version |-> s.Version, Assets |-> s.Assets, Balances |-> s.Balances,
       Locked |-> s.Locked, IsFinal |-> s.IsFinal]
OfParent(s) == IsState(s) /\ s.Locked \in {<<>>, <<SubLock>>}
OfSub(s) ==
  /\ IsState(s) /\ s.Locked = <<>>
  /\ s.Balances = <<s.Balances[1]>> /\ s.Balances[1] \in [1..2 -> Int]
  /\ s.Balances[1][1] + s.Balances[1][2] = SubBals[1] + SubBals[2]
OfChannel(c, s) == (c = Parent => OfParent(s)) /\ (c = Sub => OfSub(s))

\* The variables are functions and records with the fields the actions use.
IsOp(o) ==
  o = [op |-> o.op, ch |-> o.ch, kind |-> o.kind, pc |-> o.pc,
       next |-> o.next, ctx |-> o.ctx, res |-> o.res]
MachShape ==
  mach = [p \in Parties |-> [c \in Channels |->
            [phase |-> mach[p][c].phase, cur |-> mach[p][c].cur]]]
OpShape ==
  /\ op = [p \in Parties |-> [g \in Goroutines |-> op[p][g]]]
  /\ \A p \in Parties, g \in Goroutines : IsOp(op[p][g])
LockShape == lock = [p \in Parties |-> [c \in Channels |-> lock[p][c]]]
HandlerShape ==
  handler = [p \in Parties |->
               [pc |-> handler[p].pc, ui |-> handler[p].ui,
                req |-> handler[p].req, orphan |-> handler[p].orphan]]
UiShape == ui = [p \in Parties |-> [fund |-> ui[p].fund, settle |-> ui[p].settle]]
ChannelsShape == channels \in [Parties -> SUBSET Channels]
Shape ==
  MachShape /\ OpShape /\ LockShape /\ HandlerShape /\ UiShape /\ ChannelsShape

\* All states, wherever they are kept.
States ==
  /\ \A p \in Parties : OfParent(mach[p][Parent].cur) /\ OfSub(mach[p][Sub].cur)
  /\ \A p \in Parties, g \in Goroutines :
       op[p][g].pc = "res" => OfChannel(UpdateOf(op[p][g]), op[p][g].next)
  /\ \A p \in Parties : OfParent(handler[p].req)
  /\ \A m \in net : m.type = "update" => m.ch \in Channels /\ OfChannel(m.ch, m.state)
  /\ \A d \in dropped : OfParent(d.state)

\* Where the three goroutines of a party can be, and the locks they hold.
OpenPcs(p) ==
  IF p = Proposer THEN {"await", "complete", "sigs", "fund", "res", "put"}
  ELSE {"accept", "complete", "sigs", "fund", "intercept", "respond", "put"}
OpenInv(p) ==
  LET o == op[p]["open"]
  IN \/ o.op = "none" /\ o.pc = "idle"
     \/ o.op = "open" /\ o.res = "none" /\ o.pc \in OpenPcs(p)
CallOK(p, o) ==
  \/ o.op = "none" /\ o.pc = "idle"
  \/ /\ o.op = "update" /\ o.pc \in {"lock", "locked", "res", "end"}
     /\ o.ch \in Channels /\ (o.ch = Sub => Sub \in channels[p])
     /\ o.pc # "lock" => lock[p][o.ch] = "call"
  \/ /\ o.op = "settle"
     /\ o.pc \in {"lock", "lockSub", "locked", "settle", "intercept", "lockedParent",
                  "res", "respond", "withdrawn"}
     /\ o.ch \in Channels /\ (o.ch = Sub => Sub \in channels[p])
     /\ o.pc \in {"intercept", "respond", "lockedParent", "res"} => o.ch = Sub
WatchOK(o) ==
  \/ o.op = "none" /\ o.pc = "idle"
  \/ o.op = "register" /\ o.ch = Parent /\ o.pc \in {"lock", "lockSub", "locked", "tx"}
GoInv(p) == OpenInv(p) /\ CallOK(p, op[p]["call"]) /\ WatchOK(op[p]["watch"])

\* The initial state of the sub-channel is signed by both before the opening goes
\* on to the funding, and before any funds are locked.
Opened(p) == mach[p][Sub].phase \notin {"none", "InitSigning"}
NotBegun(p) == op[p]["open"].pc = "idle" /\ op[p]["open"].res = "none"
OpeningInv(p) ==
  LET o == op[p]["open"]
  IN /\ NotBegun(p) \/ o.pc \in {"await", "accept", "complete", "sigs"} => ~Opened(p)
     /\ o.pc \in {"fund", "res", "intercept", "respond", "put"} => Opened(p)
     /\ Sub \in channels[p] => Opened(p) /\ o.pc = "idle" /\ o.res # "none"
     /\ Alloc(mach[p][Parent].cur) => Opened(p)
     /\ \A g \in Goroutines : op[p][g].pc = "res" /\ Alloc(op[p][g].next) => Opened(p)

\* A handler at an interceptor holds the machine mutex of the parent.
HandlerInv(p) ==
  /\ handler[p].pc # "none" => lock[p][Parent] = "handler"
  /\ handler[p].pc = "send" /\ handler[p].ui = "fund" => Alloc(handler[p].req)
  /\ handler[p].pc = "send" /\ handler[p].ui = "settle" => ~Alloc(handler[p].req)

\* The proposee's interceptor is there until its opening has taken the update, and
\* from then to the end of the opening the parent funds the sub-channel.
FundInv ==
  LET o == op[Proposee]["open"]
  IN /\ o.pc \in {"sigs", "fund", "intercept", "respond"} =>
          ui[Proposee].fund = <<SubLock.Bals>>
     /\ o.pc \in {"respond", "put"} =>
          /\ Alloc(mach[Proposee][Parent].cur)
          /\ op[Proposee]["call"].pc = "res" => Alloc(op[Proposee]["call"].next)

\* Until the proposer asks for the funding nothing is locked anywhere, and it
\* does not ask before the proposee has registered its interceptor.
NoAlloc ==
  /\ \A p \in Parties : ~Alloc(mach[p][Parent].cur) /\ ~Alloc(handler[p].req)
  /\ \A p \in Parties, g \in Goroutines : op[p][g].pc = "res" => ~Alloc(op[p][g].next)
  /\ \A m \in net : m.type = "update" => ~Alloc(m.state)
Before == NotBegun(Proposer) \/ op[Proposer]["open"].pc \in {"await", "complete", "sigs", "fund"}
Unready == NotBegun(Proposee) \/ op[Proposee]["open"].pc \in {"accept", "complete"}
PeerInv ==
  /\ Before \/ Unready => NoAlloc
  /\ Unready => Msg("sig0", Proposer, Sub, InitSub) \notin net
  /\ Unready => op[Proposer]["open"].pc # "fund"
  /\ NotBegun(Proposer) => NotBegun(Proposee)
  /\ \A m \in net : m.type = "proposal" =>
       /\ m = Msg("proposal", Proposee, Sub, InitSub)
       /\ NotBegun(Proposee) /\ ~NotBegun(Proposer)

DropInv ==
  \A d \in dropped :
    d.by = Proposee /\ Alloc(d.state) => op[Proposee]["open"].res # "none"

IInv ==
  /\ Shape /\ States /\ FundInv /\ PeerInv /\ DropInv
  /\ \A p \in Parties : GoInv(p) /\ OpeningInv(p) /\ HandlerInv(p)

-----------------------------------------------------------------------------
(* The operators on states *)

LEMMA Names ==
  /\ Parties = {Proposer, Proposee} /\ Proposer # Proposee
  /\ Channels = {Parent, Sub} /\ Parent # Sub
  /\ Goroutines = {"open", "call", "watch"}
  /\ 1 \in Parties /\ 2 \in Parties /\ Proposer = 1 /\ Proposee = 2
  /\ \A p \in Parties : Peer(p) \in Parties /\ Peer(p) # p
  BY DEF Parties, Proposer, Proposee, Channels, Parent, Sub, Goroutines, Peer

\* The sum of a row of two balances, whichever the fold takes first.
LEMMA SumRowOfTwo ==
  ASSUME NEW r, r \in [1..2 -> Int]
  PROVE  SumRow(r) = r[1] + r[2]
<1> DEFINE c(s) == CHOOSE i \in s : TRUE
           F(f) == [s \in SUBSET (1..2) |->
                      IF s = {} THEN 0 ELSE r[c(s)] + f[s \ {c(s)}]]
           g == [s \in SUBSET (1..2) |->
                   (IF 1 \in s THEN r[1] ELSE 0) + (IF 2 \in s THEN r[2] ELSE 0)]
           it == CHOOSE f : f = F(f)
<1>1. DOMAIN r = 1..2
  OBVIOUS
<1>2. SumRow(r) = it[1..2]
  BY <1>1 DEF SumRow, FoldSeq, FoldFunction, FoldFunctionOnSet, MapThenFoldSet
<1>3. g = F(g)
  <2>1. ASSUME NEW s \in SUBSET (1..2), s # {}
        PROVE  g[s] = r[c(s)] + g[s \ {c(s)}]
    <3>1. c(s) \in s
      BY <2>1
    <3> HIDE DEF c
    <3>2. CASE c(s) = 1
      BY <3>1, <3>2, <2>1
    <3>3. CASE c(s) = 2
      BY <3>1, <3>3, <2>1
    <3>4. \A i \in s : i = 1 \/ i = 2
      OBVIOUS
    <3>5. c(s) = 1 \/ c(s) = 2
      BY <3>1, <3>4, Zenon
    <3> QED BY <3>2, <3>3, <3>5
  <2>2. g[{}] = 0
    OBVIOUS
  <2> HIDE DEF c
  <2> QED BY <2>1, <2>2
<1>4. it = F(it)
  <2> HIDE DEF F, g
  <2> QED BY <1>3
<1>5. it[{}] = 0
  BY <1>4
<1>6. ASSUME NEW s \in SUBSET (1..2), s # {} PROVE it[s] = r[c(s)] + it[s \ {c(s)}]
  <2> HIDE DEF it, c
  <2> QED BY <1>4, <1>6
<1>7. \A s \in SUBSET (1..2) : s # {} => c(s) \in s
  OBVIOUS
<1> HIDE DEF it, c
<1>8. /\ {1} \in SUBSET (1..2) /\ {2} \in SUBSET (1..2) /\ (1..2) \in SUBSET (1..2)
      /\ {1} # {} /\ {2} # {} /\ (1..2) # {}
      /\ {1} \ {1} = {} /\ {2} \ {2} = {} /\ (1..2) \ {1} = {2} /\ (1..2) \ {2} = {1}
  OBVIOUS
<1>9. c({1}) = 1 /\ c({2}) = 2 /\ (c(1..2) = 1 \/ c(1..2) = 2)
  <2>1. c({1}) \in {1} /\ c({2}) \in {2} /\ c(1..2) \in 1..2
    BY <1>7, <1>8
  <2> QED BY <2>1
<1>10. it[{1}] = r[1] /\ it[{2}] = r[2]
  <2>1. it[{1}] = r[1] + it[{}] /\ it[{2}] = r[2] + it[{}]
    BY <1>6, <1>8, <1>9
  <2> QED BY <2>1, <1>5
<1>11. it[1..2] = r[1] + r[2]
  <2>1. CASE c(1..2) = 1
    <3>1. it[1..2] = r[1] + it[{2}]
      BY <1>6, <1>8, <2>1
    <3> QED BY <3>1, <1>10
  <2>2. CASE c(1..2) = 2
    <3>1. it[1..2] = r[2] + it[{1}]
      BY <1>6, <1>8, <2>2
    <3> QED BY <3>1, <1>10
  <2> QED BY <1>9, <2>1, <2>2
<1> QED BY <1>2, <1>11

LEMMA InitSubFacts ==
  /\ IsState(InitSub) /\ InitSub.Locked = <<>> /\ InitSub.Balances = <<SubBals>>
  /\ OfSub(InitSub) /\ OfParent(InitSub) /\ ~Alloc(InitSub)
<1>1. IsState(InitSub) /\ InitSub.Locked = <<>> /\ InitSub.Balances = <<SubBals>>
  BY DEF InitSub, State, IsState
<1>2. <<SubBals>>[1] = SubBals /\ SubBals \in [1..2 -> Int]
  BY BalsAssumption
<1> QED BY <1>1, <1>2 DEF OfSub, OfParent, Alloc

LEMMA SubLockFacts ==
  /\ SubLock.ID = Sub /\ SubLock.Bals = <<SubBals[1] + SubBals[2]>>
  /\ <<SubLock>> # <<>>
<1>1. SubLock.ID = Sub /\ SubLock.Bals = BalancesSum(<<SubBals>>)
  BY InitSubFacts DEF SubLock, NewSubAlloc
<1>2. SumRow(SubBals) = SubBals[1] + SubBals[2]
  BY SumRowOfTwo, BalsAssumption
<1>3. BalancesSum(<<SubBals>>) = <<SumRow(SubBals)>>
  BY DEF BalancesSum
<1> QED BY <1>1, <1>2, <1>3

\* What a state of the sub-channel distributes.
LEMMA SubTotal ==
  ASSUME NEW s, OfSub(s)
  PROVE  BalancesSum(s.Balances) = SubLock.Bals
<1>1. PICK r : r = s.Balances[1] /\ s.Balances = <<r>> /\ r \in [1..2 -> Int]
  BY DEF OfSub
<1>2. SumRow(r) = SubBals[1] + SubBals[2]
  BY <1>1, SumRowOfTwo DEF OfSub
<1>3. BalancesSum(<<r>>) = <<SumRow(r)>>
  BY DEF BalancesSum
<1> QED BY <1>1, <1>2, <1>3, SubLockFacts

LEMMA SubIsUnlocked ==
  ASSUME NEW s, OfSub(s)
  PROVE  OfParent(s) /\ ~Alloc(s)
  BY DEF OfSub, OfParent, Alloc

LEMMA AllocFacts ==
  ASSUME NEW s, OfParent(s)
  PROVE  /\ HasSubAlloc(s, Sub) <=> Alloc(s)
         /\ Alloc(s) => s.Locked = <<SubLock>> /\ SubAlloc(s, Sub) = SubLock
<1>1. CASE s.Locked = <<>>
  BY <1>1 DEF HasSubAlloc, Alloc
<1>2. CASE s.Locked = <<SubLock>>
  <2>1. HasSubAlloc(s, Sub) /\ Alloc(s)
    BY <1>2, SubLockFacts DEF HasSubAlloc, Alloc
  <2>2. {i \in 1..Len(s.Locked) : s.Locked[i].ID = Sub} = {1}
    BY <1>2, SubLockFacts
  <2>3. Min({1}) = 1
    BY DEF Min
  <2>4. SelectInSeq(s.Locked, LAMBDA l : l.ID = Sub) = 1
    BY <2>2, <2>3 DEF SelectInSeq
  <2> QED BY <1>2, <2>1, <2>4 DEF SubAlloc
<1> QED BY <1>1, <1>2 DEF OfParent

\* The sub-allocations of two states of the parent.
LEMMA LocksEqual ==
  ASSUME NEW s, NEW t, OfParent(s), OfParent(t)
  PROVE  SubAllocsAssertEqual(s.Locked, t.Locked) <=> (Alloc(s) <=> Alloc(t))
<1>1. SubAllocsAssertEqual(<<>>, <<>>)
  BY DEF SubAllocsAssertEqual
<1>2. SubAllocEqual(SubLock, SubLock)
  BY DEF SubAllocEqual, SlicesEqual, indexMapEqual
<1>3. SubAllocsAssertEqual(<<SubLock>>, <<SubLock>>)
  BY <1>2 DEF SubAllocsAssertEqual
<1>4. Len(<<>>) = 0 /\ Len(<<SubLock>>) = 1 /\ <<SubLock>> # <<>>
  BY SubLockFacts
<1>5. ~SubAllocsAssertEqual(<<>>, <<SubLock>>) /\ ~SubAllocsAssertEqual(<<SubLock>>, <<>>)
  BY <1>4 DEF SubAllocsAssertEqual
<1> QED BY <1>1, <1>3, <1>4, <1>5 DEF OfParent, Alloc

\* Records that a call of UpdateBy makes of the current state.
LEMMA UpdateByFacts ==
  ASSUME NEW cur, NEW s, IsState(s)
  PROVE  /\ IsState(updateBy(cur, s)) /\ updateBy(cur, s).Locked = s.Locked
         /\ updateBy(cur, s).Balances = s.Balances
<1>1. PICK a, b, c, d, e : s = [Version |-> a, Assets |-> b, Balances |-> c,
                                Locked |-> d, IsFinal |-> e]
  BY DEF IsState
<1>2. PICK v : v = cur.Version + 1
  OBVIOUS
<1>3. updateBy(cur, s) = [Version |-> v, Assets |-> b, Balances |-> c,
                          Locked |-> d, IsFinal |-> e]
  BY <1>1, <1>2 DEF updateBy
<1> QED BY <1>1, <1>3 DEF IsState

LEMMA ExceptBalances ==
  ASSUME NEW s, IsState(s), NEW b
  PROVE  [s EXCEPT !.Balances = b] =
           [Version |-> s.Version, Assets |-> s.Assets, Balances |-> b,
            Locked |-> s.Locked, IsFinal |-> s.IsFinal]
  BY DEF IsState

LEMMA ExceptLocked ==
  ASSUME NEW s, IsState(s), NEW l
  PROVE  [s EXCEPT !.Locked = l] =
           [Version |-> s.Version, Assets |-> s.Assets, Balances |-> s.Balances,
            Locked |-> l, IsFinal |-> s.IsFinal]
  BY DEF IsState

LEMMA ExceptIsFinal ==
  ASSUME NEW s, IsState(s), NEW f
  PROVE  [s EXCEPT !.IsFinal = f] =
           [Version |-> s.Version, Assets |-> s.Assets, Balances |-> s.Balances,
            Locked |-> s.Locked, IsFinal |-> f]
  BY DEF IsState

LEMMA FinaliseFacts ==
  ASSUME NEW s, IsState(s)
  PROVE  /\ IsState(Finalise(s)) /\ Finalise(s).Locked = s.Locked
         /\ Finalise(s).Balances = s.Balances
<1>1. PICK f : f = TRUE
  OBVIOUS
<1>2. Finalise(s) = [s EXCEPT !.IsFinal = f]
  BY <1>1, Zenon DEF Finalise
<1>3. Finalise(s) = [Version |-> s.Version, Assets |-> s.Assets, Balances |-> s.Balances,
                     Locked |-> s.Locked, IsFinal |-> f]
  BY <1>2, ExceptIsFinal
<1> QED BY <1>3 DEF IsState

LEMMA OneRow ==
  ASSUME NEW r, NEW x
  PROVE  [<<r>> EXCEPT ![1] = x] = <<x>>
  OBVIOUS

\* A payment moves one unit from p to its peer.
LEMMA PayFacts ==
  ASSUME NEW p \in Parties, NEW s, IsState(s)
  PROVE  /\ IsState(Pay(p, s)) /\ Pay(p, s).Locked = s.Locked
         /\ OfSub(s) => OfSub(Pay(p, s))
<1>1. PICK a, b, c, d, e : s = [Version |-> a, Assets |-> b, Balances |-> c,
                                Locked |-> d, IsFinal |-> e]
  BY DEF IsState
<1>2. PICK x, y : x = c[1][p] - 1 /\ y = c[1][Peer(p)] + 1
  OBVIOUS
<1> DEFINE c1 == [c EXCEPT ![1][p] = x]
           t == [s EXCEPT !.Balances[1][p] = x]
           c2 == [c1 EXCEPT ![1][Peer(p)] = y]
<1>3. t = [Version |-> a, Assets |-> b, Balances |-> c1, Locked |-> d, IsFinal |-> e]
  BY <1>1
<1>4. [t EXCEPT !.Balances[1][Peer(p)] = y]
        = [Version |-> a, Assets |-> b, Balances |-> c2, Locked |-> d, IsFinal |-> e]
  <2> HIDE DEF t, c1
  <2> QED BY <1>3
<1>5. Pay(p, s) = [Version |-> a, Assets |-> b, Balances |-> c2, Locked |-> d, IsFinal |-> e]
  <2>1. s.Balances = c
    BY <1>1
  <2>2. Pay(p, s) = [t EXCEPT !.Balances[1][Peer(p)] = y]
    BY <1>2, <2>1 DEF Pay
  <2> HIDE DEF t, c2
  <2> QED BY <1>4, <2>2
<1> HIDE DEF t, c2
<1>6. IsState(Pay(p, s)) /\ Pay(p, s).Locked = s.Locked /\ Pay(p, s).Balances = c2
  BY <1>1, <1>5 DEF IsState
<1>7. ASSUME OfSub(s) PROVE OfSub(Pay(p, s))
  <2>1. PICK r : c = <<r>> /\ r \in [1..2 -> Int] /\ r[1] + r[2] = SubBals[1] + SubBals[2]
    BY <1>1, <1>7 DEF OfSub
  <2>2. PICK r1 : r1 = [r EXCEPT ![p] = x]
    OBVIOUS
  <2>3. c1 = <<r1>>
    BY <2>1, <2>2, OneRow
  <2>4. PICK r2 : r2 = [r1 EXCEPT ![Peer(p)] = y]
    OBVIOUS
  <2>5. c2 = <<r2>>
    <3> HIDE DEF c1
    <3> QED BY <2>3, <2>4, OneRow DEF c2
  <2>6. r2 \in [1..2 -> Int] /\ r2[1] + r2[2] = r[1] + r[2]
    <3>1. CASE p = 1
      BY <3>1, <1>2, <2>1, <2>2, <2>4 DEF Peer
    <3>2. CASE p = 2
      BY <3>2, <1>2, <2>1, <2>2, <2>4 DEF Peer
    <3> QED BY <3>1, <3>2 DEF Parties
  <2>7. Pay(p, s).Balances = <<r2>> /\ <<r2>>[1] = r2
    BY <1>6, <2>5
  <2>8. BalsAssumption /\ Pay(p, s).Locked = <<>>
    BY <1>6, <1>7, BalsAssumption DEF OfSub
  <2> QED BY <1>6, <2>1, <2>6, <2>7, <2>8 DEF OfSub
<1> QED BY <1>6, <1>7

\* The states that the user's updates propose.
LEMMA NextStateFacts ==
  ASSUME States, NEW p \in Parties, NEW c \in Channels, NEW kind
  PROVE  /\ OfChannel(c, NextState(p, c, kind))
         /\ NextState(p, c, kind).Locked = mach[p][c].cur.Locked
<1>1. PICK s : s = mach[p][c].cur
  OBVIOUS
<1>2. /\ IsState(s)
      /\ c = Parent => OfParent(s)
      /\ c = Sub => OfSub(s)
  BY <1>1, Names DEF States, OfParent, OfSub
<1>3. PICK t : t = IF kind = "pay" THEN Pay(p, s) ELSE Finalise(s)
  OBVIOUS
<1>4. IsState(t) /\ t.Locked = s.Locked
  <2>1. IsState(Pay(p, s)) /\ Pay(p, s).Locked = s.Locked
    BY <1>2, PayFacts
  <2>2. IsState(Finalise(s)) /\ Finalise(s).Locked = s.Locked
    BY <1>2, FinaliseFacts
  <2> QED BY <1>3, <2>1, <2>2
<1>5. c = Sub => OfSub(t)
  <2>1. c = Sub => OfSub(Pay(p, s))
    BY <1>2, PayFacts
  <2>2. c = Sub => OfSub(Finalise(s))
    BY <1>2, FinaliseFacts DEF OfSub
  <2> QED BY <1>3, <2>1, <2>2
<1>6. PICK u : u = updateBy(s, t)
  OBVIOUS
<1>7. IsState(u) /\ u.Locked = t.Locked /\ u.Balances = t.Balances
  BY <1>4, <1>6, UpdateByFacts
<1>8. OfChannel(c, u)
  BY <1>2, <1>4, <1>5, <1>7 DEF OfChannel, OfParent, OfSub
<1>9. NextState(p, c, kind) = u
  BY <1>1, <1>3, <1>6 DEF NextState
<1> QED BY <1>1, <1>4, <1>7, <1>8, <1>9

\* The update that funds the sub-channel locks its total in the parent ...
LEMMA FundFacts ==
  ASSUME NEW s, OfParent(s), ~Alloc(s)
  PROVE  OfParent(updateBy(s, fundSubChannel(s))) /\ Alloc(updateBy(s, fundSubChannel(s)))
<1>1. IsState(s) /\ s.Locked = <<>>
  BY DEF OfParent, Alloc
<1>2. PICK b : b = Minus(s.Balances, InitSub.Balances)
  OBVIOUS
<1>3. PICK t : t = [s EXCEPT !.Balances = b]
  OBVIOUS
<1>4. IsState(t) /\ t.Locked = <<>>
  BY <1>1, <1>3, ExceptBalances DEF IsState
<1>5. PICK u : u = [t EXCEPT !.Locked = <<SubLock>>]
  OBVIOUS
<1>6. IsState(u) /\ u.Locked = <<SubLock>>
  BY <1>4, <1>5, ExceptLocked DEF IsState
<1>7. fundSubChannel(s) = u
  <2>1. Append(t.Locked, SubLock) = <<SubLock>>
    BY <1>4
  <2>2. fundSubChannel(s) = AddSubAlloc(t, SubLock)
    BY <1>2, <1>3 DEF fundSubChannel, SubLock
  <2>3. AddSubAlloc(t, SubLock) = [t EXCEPT !.Locked = Append(t.Locked, SubLock)]
    BY <1>4 DEF AddSubAlloc
  <2> QED BY <1>5, <2>1, <2>2, <2>3
<1>8. IsState(updateBy(s, u)) /\ updateBy(s, u).Locked = u.Locked
  BY <1>6, UpdateByFacts
<1> QED BY <1>6, <1>7, <1>8, SubLockFacts DEF OfParent, Alloc

\* ... and the one that settles it releases it.
LEMMA WithdrawFacts ==
  ASSUME NEW s, OfParent(s), Alloc(s), NEW v
  PROVE  /\ OfParent(updateBy(s, withdrawSubChannel(s, v)))
         /\ ~Alloc(updateBy(s, withdrawSubChannel(s, v)))
<1>1. IsState(s) /\ s.Locked = <<SubLock>> /\ SubAlloc(s, Sub) = SubLock
  BY AllocFacts DEF OfParent
<1>2. PICK b : b = Plus(s.Balances, v.Balances)
  OBVIOUS
<1>3. PICK t : t = [s EXCEPT !.Balances = b]
  OBVIOUS
<1>4. IsState(t) /\ t.Locked = <<SubLock>>
  BY <1>1, <1>3, ExceptBalances DEF IsState
<1>5. PICK l : l = RemoveFirstMatch(<<SubLock>>, LAMBDA k : SubAllocEqual(SubLock, k))
  OBVIOUS
<1>6. l = <<>>
  <2>1. SubAllocEqual(SubLock, SubLock)
    BY DEF SubAllocEqual, SlicesEqual, indexMapEqual
  <2>2. {i \in 1..Len(<<SubLock>>) : SubAllocEqual(SubLock, <<SubLock>>[i])} = {1}
    BY <2>1
  <2>3. Min({1}) = 1
    BY DEF Min
  <2>4. SelectInSeq(<<SubLock>>, LAMBDA k : SubAllocEqual(SubLock, k)) = 1
    BY <2>2, <2>3 DEF SelectInSeq
  <2>5. \E i \in 1..Len(<<SubLock>>) : SubAllocEqual(SubLock, <<SubLock>>[i])
    BY <2>1
  <2>6. l = RemoveAt(<<SubLock>>, 1)
    BY <1>5, <2>4, <2>5 DEF RemoveFirstMatch
  <2>7. RemoveAt(<<SubLock>>, 1) = <<>>
    BY DEF RemoveAt
  <2> QED BY <2>6, <2>7
<1>7. PICK u : u = [t EXCEPT !.Locked = <<>>]
  OBVIOUS
<1>8. IsState(u) /\ u.Locked = <<>>
  BY <1>4, <1>7, ExceptLocked DEF IsState
<1>9. withdrawSubChannel(s, v) = u
  <2>1. withdrawSubChannel(s, v) = RemoveSubAlloc(t, SubLock)
    BY <1>1, <1>2, <1>3 DEF withdrawSubChannel
  <2>2. RemoveSubAlloc(t, SubLock) = [t EXCEPT !.Locked = l]
    BY <1>4, <1>5 DEF RemoveSubAlloc
  <2> QED BY <1>6, <1>7, <2>1, <2>2
<1>10. IsState(updateBy(s, u)) /\ updateBy(s, u).Locked = u.Locked
  BY <1>8, UpdateByFacts
<1> QED BY <1>8, <1>9, <1>10 DEF OfParent, Alloc

-----------------------------------------------------------------------------
(* What the assignments change *)

LEMMA NoOpFacts ==
  /\ IsOp(NoOp) /\ NoOp.op = "none" /\ NoOp.pc = "idle" /\ NoOp.res = "none"
  /\ NoHandler.pc = "none" /\ NoHandler.req = InitSub /\ NoHandler.ui = "none"
  /\ NoHandler = [pc |-> NoHandler.pc, ui |-> NoHandler.ui,
                  req |-> NoHandler.req, orphan |-> NoHandler.orphan]
  BY DEF NoOp, IsOp, NoHandler

\* A call that has returned.
LEMMA Returned ==
  ASSUME NEW r
  PROVE  LET o == [NoOp EXCEPT !.res = r]
         IN IsOp(o) /\ o.op = "none" /\ o.pc = "idle" /\ o.res = r
  BY NoOpFacts DEF IsOp

LEMMA ExceptPc ==
  ASSUME NEW o, IsOp(o), NEW pc
  PROVE  [o EXCEPT !.pc = pc] =
           [op |-> o.op, ch |-> o.ch, kind |-> o.kind, pc |-> pc,
            next |-> o.next, ctx |-> o.ctx, res |-> o.res]
  BY DEF IsOp

LEMMA PcFacts ==
  ASSUME NEW o, IsOp(o), NEW pc
  PROVE  LET n == [o EXCEPT !.pc = pc]
         IN /\ IsOp(n) /\ n.op = o.op /\ n.ch = o.ch /\ n.pc = pc
            /\ n.next = o.next /\ n.res = o.res
<1>1. PICK n : n = [o EXCEPT !.pc = pc]
  OBVIOUS
<1>2. n = [op |-> o.op, ch |-> o.ch, kind |-> o.kind, pc |-> pc,
           next |-> o.next, ctx |-> o.ctx, res |-> o.res]
  BY <1>1, ExceptPc
<1> QED BY <1>1, <1>2 DEF IsOp

LEMMA OpFacts ==
  ASSUME OpShape, NEW p \in Parties, NEW g \in Goroutines, NEW o, IsOp(o), SetOp(p, g, o)
  PROVE  /\ OpShape' /\ op'[p][g] = o
         /\ \A q \in Parties, h \in Goroutines : q # p \/ h # g => op'[q][h] = op[q][h]
<1>1. op'[p][g] = o
  BY DEF OpShape, SetOp
<1>2. \A q \in Parties, h \in Goroutines : q # p \/ h # g => op'[q][h] = op[q][h]
  BY DEF OpShape, SetOp
<1>3. op' = [q \in Parties |-> [h \in Goroutines |-> op'[q][h]]]
  BY DEF OpShape, SetOp
<1> QED BY <1>1, <1>2, <1>3 DEF OpShape

\* Locks that others hold stay as they are.
LockKept(p, g) ==
  /\ LockShape'
  /\ \A q \in Parties, c \in Channels :
       lock[q][c] \in {"handler", "call"} /\ ~(q = p /\ lock[q][c] = g)
         => lock'[q][c] = lock[q][c]

LEMMA SameLock ==
  ASSUME LockShape, UNCHANGED lock, NEW p, NEW g
  PROVE  LockKept(p, g)
  BY DEF LockKept, LockShape

LEMMA TryLockFacts ==
  ASSUME LockShape, NEW p \in Parties, NEW c \in Channels, NEW g, TryLock(p, c, g)
  PROVE  LockKept(p, g) /\ lock'[p][c] = g
  BY DEF LockKept, LockShape, TryLock, Free

LEMMA UnlockFacts ==
  ASSUME LockShape, NEW p \in Parties, NEW g, UnlockAll(p, g)
  PROVE  LockKept(p, g)
  BY DEF LockKept, LockShape, UnlockAll

LEMMA ReturnFacts ==
  ASSUME OpShape, LockShape, NEW p \in Parties, NEW g \in Goroutines, NEW r, Return(p, g, r)
  PROVE  /\ LockKept(p, g) /\ OpShape' /\ IsOp(op'[p][g])
         /\ SetOp(p, g, op'[p][g])
         /\ op'[p][g].op = "none" /\ op'[p][g].pc = "idle" /\ op'[p][g].res = r
         /\ \A q \in Parties, h \in Goroutines : q # p \/ h # g => op'[q][h] = op[q][h]
<1>1. PICK o : o = [NoOp EXCEPT !.res = r]
  OBVIOUS
<1>2. IsOp(o) /\ o.op = "none" /\ o.pc = "idle" /\ o.res = r
  BY <1>1, Returned
<1>3. SetOp(p, g, o) /\ UnlockAll(p, g)
  BY <1>1 DEF Return
<1>4. LockKept(p, g)
  BY <1>3, UnlockFacts
<1> QED BY <1>2, <1>3, <1>4, OpFacts

LEMMA GotoFacts ==
  ASSUME OpShape, NEW p \in Parties, NEW g \in Goroutines, NEW pc, Goto(p, g, pc)
  PROVE  /\ OpShape' /\ IsOp(op'[p][g]) /\ SetOp(p, g, op'[p][g])
         /\ op'[p][g].op = op[p][g].op /\ op'[p][g].ch = op[p][g].ch
         /\ op'[p][g].pc = pc /\ op'[p][g].next = op[p][g].next
         /\ op'[p][g].res = op[p][g].res
         /\ \A q \in Parties, h \in Goroutines : q # p \/ h # g => op'[q][h] = op[q][h]
<1>1. PICK o : o = op[p][g]
  OBVIOUS
<1>2. IsOp(o)
  BY <1>1 DEF OpShape
<1>3. PICK n : n = [o EXCEPT !.pc = pc]
  OBVIOUS
<1>4. /\ IsOp(n) /\ n.op = o.op /\ n.ch = o.ch /\ n.pc = pc
      /\ n.next = o.next /\ n.res = o.res
  BY <1>2, <1>3, PcFacts
<1>5. SetOp(p, g, n)
  BY <1>1, <1>3 DEF Goto
<1> QED BY <1>1, <1>4, <1>5, OpFacts

\* The current states stay as they are, and nobody's opening gets on.
CurKept ==
  /\ MachShape'
  /\ \A q \in Parties : /\ mach'[q][Parent].cur = mach[q][Parent].cur
                        /\ mach'[q][Sub].cur = mach[q][Sub].cur
                        /\ Opened(q)' <=> Opened(q)

LEMMA SameMach ==
  ASSUME MachShape, UNCHANGED mach
  PROVE  CurKept
  BY DEF CurKept, MachShape, Opened

LEMMA SetPhaseFacts ==
  ASSUME MachShape, NEW p \in Parties, NEW cs, NEW ph, SetPhase(p, cs, ph)
  PROVE  /\ MachShape'
         /\ \A q \in Parties, c \in Channels :
              /\ mach'[q][c].cur = mach[q][c].cur
              /\ q # p \/ c \notin cs => mach'[q][c].phase = mach[q][c].phase
         /\ \A c \in Channels : c \in cs => mach'[p][c].phase = ph
<1>1. \A q \in Parties : q # p => mach'[q] = mach[q]
  BY DEF MachShape, SetPhase
<1>2. \A c \in Channels : c \notin cs => mach'[p][c] = mach[p][c]
  BY DEF MachShape, SetPhase
<1>3. \A c \in Channels : mach[p][c] = [phase |-> mach[p][c].phase, cur |-> mach[p][c].cur]
  BY DEF MachShape
<1>4. \A c \in Channels : c \in cs => mach'[p][c] = [mach[p][c] EXCEPT !.phase = ph]
  BY DEF MachShape, SetPhase
<1>5. \A c \in Channels : c \in cs => mach'[p][c] = [phase |-> ph, cur |-> mach[p][c].cur]
  BY <1>3, <1>4
<1>6. /\ mach' = [q \in Parties |-> [c \in Channels |-> mach'[q][c]]]
  BY DEF MachShape, SetPhase
<1>7. \A q \in Parties, c \in Channels :
        mach'[q][c] = [phase |-> mach'[q][c].phase, cur |-> mach'[q][c].cur]
  <2> TAKE q \in Parties, c \in Channels
  <2>1. mach[q][c] = [phase |-> mach[q][c].phase, cur |-> mach[q][c].cur]
    BY DEF MachShape
  <2> QED BY <1>1, <1>2, <1>5, <2>1
<1>8. MachShape'
  BY <1>6, <1>7 DEF MachShape
<1>9. ASSUME NEW q \in Parties, NEW c \in Channels
      PROVE  /\ mach'[q][c].cur = mach[q][c].cur
             /\ q # p \/ c \notin cs => mach'[q][c].phase = mach[q][c].phase
  <2>1. CASE q # p \/ c \notin cs
    BY <1>1, <1>2, <2>1
  <2>2. CASE q = p /\ c \in cs
    <3>1. mach'[q][c] = [phase |-> ph, cur |-> mach[q][c].cur]
      BY <1>5, <2>2
    <3> QED BY <2>2, <3>1
  <2> QED BY <2>1, <2>2
<1>10. ASSUME NEW c \in Channels, c \in cs PROVE mach'[p][c].phase = ph
  <2>1. mach'[p][c] = [phase |-> ph, cur |-> mach[p][c].cur]
    BY <1>5, <1>10
  <2> QED BY <2>1
<1> QED BY <1>8, <1>9, <1>10

\* A phase is set that an opened channel can have, of channels that are opened.
LEMMA PhaseStep ==
  ASSUME MachShape, NEW p \in Parties, NEW cs, NEW ph, SetPhase(p, cs, ph),
         ph \notin {"none", "InitSigning"}, Sub \in cs => Opened(p)
  PROVE  CurKept
<1>1. Sub \in Channels /\ Parent \in Channels
  BY Names
<1> QED BY <1>1, SetPhaseFacts DEF CurKept, Opened

-----------------------------------------------------------------------------
(* Steps of a user's call or of the watcher that wait for no response *)

LEMMA CallStep ==
  ASSUME IInv, NEW p \in Parties, NEW g \in {"call", "watch"}, NEW o, IsOp(o),
         SetOp(p, g, o), o.pc # "res",
         g = "call" => CallOK(p, o)', g = "watch" => WatchOK(o),
         LockKept(p, g), CurKept, net' \subseteq net,
         UNCHANGED <<handler, ui, channels, dropped>>
  PROVE  IInv'
<1>1. g \in Goroutines /\ g # "open" /\ "open" \in Goroutines /\ "call" \in Goroutines
      /\ "watch" \in Goroutines
  BY Names
<1>2. /\ OpShape' /\ op'[p][g] = o
      /\ \A q \in Parties, h \in Goroutines : q # p \/ h # g => op'[q][h] = op[q][h]
  BY <1>1, OpFacts DEF IInv, Shape
<1>3. \A q \in Parties : op'[q]["open"] = op[q]["open"]
  BY <1>1, <1>2
<1>4. \A q \in Parties, h \in Goroutines : op'[q][h].pc = "res" => op'[q][h] = op[q][h]
  BY <1>2
<1>5. Shape'
  BY <1>2 DEF IInv, Shape, LockKept, CurKept, HandlerShape, UiShape, ChannelsShape
<1>6. States'
  <2>1. \A q \in Parties : OfParent(mach[q][Parent].cur)' /\ OfSub(mach[q][Sub].cur)'
    BY DEF IInv, States, CurKept
  <2>2. ASSUME NEW q \in Parties, NEW h \in Goroutines, op'[q][h].pc = "res"
        PROVE  OfChannel(UpdateOf(op[q][h]), op[q][h].next)'
    BY <1>4, <2>2 DEF IInv, States
  <2> QED BY <2>1, <2>2 DEF IInv, States
<1>7. ASSUME NEW q \in Parties PROVE GoInv(q)'
  <2>1. OpenInv(q)'
    BY <1>3, <1>7 DEF IInv, GoInv, OpenInv
  <2>2. CallOK(q, op[q]["call"])'
    <3>1. CASE q = p /\ g = "call"
      BY <1>2, <3>1
    <3>2. CASE ~(q = p /\ g = "call")
      <4>1. op'[q]["call"] = op[q]["call"] /\ CallOK(q, op[q]["call"])
        BY <1>1, <1>2, <3>2 DEF IInv, GoInv
      <4>2. \A c \in Channels : lock[q][c] = "call" => lock'[q][c] = "call"
        BY <3>2 DEF LockKept
      <4> QED BY <4>1, <4>2 DEF CallOK
    <3> QED BY <3>1, <3>2
  <2>3. WatchOK(op[q]["watch"])'
    <3>1. CASE q = p /\ g = "watch"
      BY <1>2, <3>1 DEF WatchOK
    <3>2. CASE ~(q = p /\ g = "watch")
      BY <1>1, <1>2, <3>2 DEF IInv, GoInv, WatchOK
    <3> QED BY <3>1, <3>2
  <2> QED BY <2>1, <2>2, <2>3 DEF GoInv
<1>8. ASSUME NEW q \in Parties PROVE OpeningInv(q)'
  BY <1>3, <1>4 DEF IInv, OpeningInv, NotBegun, CurKept
<1>9. ASSUME NEW q \in Parties PROVE HandlerInv(q)'
  BY Names DEF IInv, HandlerInv, LockKept
<1>10. FundInv'
  BY <1>1, <1>3, <1>4, Names DEF IInv, FundInv, CurKept
<1>11. NoAlloc => NoAlloc'
  BY <1>4 DEF NoAlloc, CurKept
<1>12. PeerInv'
  BY <1>3, <1>11, Names DEF IInv, PeerInv, Before, Unready, NotBegun
<1>13. DropInv'
  BY <1>3, Names DEF IInv, DropInv
<1> QED BY <1>5, <1>6, <1>7, <1>8, <1>9, <1>10, <1>12, <1>13 DEF IInv

LEMMA CallReturn ==
  ASSUME IInv, NEW p \in Parties, NEW g \in {"call", "watch"}, NEW r, Return(p, g, r),
         CurKept, net' \subseteq net, UNCHANGED <<handler, ui, channels, dropped>>
  PROVE  IInv'
<1>1. g \in Goroutines
  BY Names
<1>2. /\ LockKept(p, g) /\ IsOp(op'[p][g]) /\ SetOp(p, g, op'[p][g])
      /\ op'[p][g].op = "none" /\ op'[p][g].pc = "idle"
  BY <1>1, ReturnFacts DEF IInv, Shape
<1>3. PICK o : o = op'[p][g]
  OBVIOUS
<1>4. CallOK(p, o)' /\ WatchOK(o)
  BY <1>2, <1>3 DEF CallOK, WatchOK
<1> QED BY <1>2, <1>3, <1>4, CallStep

\* The call goes on at another place; what CallOK says of it is checked there.
LEMMA CallGoto ==
  ASSUME IInv, NEW p \in Parties, NEW g \in {"call", "watch"}, NEW pc, Goto(p, g, pc),
         pc # "res", LockKept(p, g), CurKept, net' \subseteq net,
         UNCHANGED <<handler, ui, channels, dropped>>,
         g = "call" =>
           \/ /\ op[p][g].op = "update" /\ pc \in {"lock", "locked", "end"}
              /\ pc # "lock" => lock'[p][op[p][g].ch] = "call"
           \/ /\ op[p][g].op = "settle"
              /\ pc \in {"lock", "lockSub", "locked", "settle", "intercept", "lockedParent",
                         "respond", "withdrawn"}
              /\ pc \in {"intercept", "respond", "lockedParent"} => op[p][g].ch = Sub,
         g = "watch" => op[p][g].op = "register" /\ pc \in {"lock", "lockSub", "locked", "tx"}
  PROVE  IInv'
<1>1. g \in Goroutines
  BY Names
<1>2. /\ IsOp(op'[p][g]) /\ SetOp(p, g, op'[p][g])
      /\ op'[p][g].op = op[p][g].op /\ op'[p][g].pc = pc /\ op'[p][g].ch = op[p][g].ch
  BY <1>1, GotoFacts DEF IInv, Shape
<1>3. PICK o : o = op'[p][g]
  OBVIOUS
<1>4. g = "call" => CallOK(p, o)'
  BY <1>2, <1>3 DEF IInv, GoInv, CallOK
<1>5. g = "watch" => WatchOK(o)
  BY <1>2, <1>3 DEF IInv, GoInv, WatchOK
<1> QED BY <1>2, <1>3, <1>4, <1>5, CallStep

\* A call that begins.
Begun(o) == [NoOp EXCEPT !.op = o.op, !.ch = o.ch, !.kind = o.kind, !.pc = "lock"]

LEMMA BeginFacts ==
  ASSUME NEW o
  PROVE  /\ IsOp(Begun(o)) /\ Begun(o).op = o.op /\ Begun(o).ch = o.ch
         /\ Begun(o).pc = "lock" /\ Begun(o).res = "none"
<1>1. PICK a, b, c : a = o.op /\ b = o.ch /\ c = o.kind
  OBVIOUS
<1>2. PICK x, y : NoOp = [op |-> "none", ch |-> Parent, kind |-> "none", pc |-> "idle",
                          next |-> x, ctx |-> y, res |-> "none"]
  BY DEF NoOp
<1>3. PICK n1 : n1 = [NoOp EXCEPT !.op = a]
  OBVIOUS
<1>4. PICK n2 : n2 = [n1 EXCEPT !.ch = b]
  OBVIOUS
<1>5. PICK n3 : n3 = [n2 EXCEPT !.kind = c]
  OBVIOUS
<1>6. n1 = [op |-> a, ch |-> Parent, kind |-> "none", pc |-> "idle",
            next |-> x, ctx |-> y, res |-> "none"]
  BY <1>2, <1>3
<1>7. n2 = [op |-> a, ch |-> b, kind |-> "none", pc |-> "idle",
            next |-> x, ctx |-> y, res |-> "none"]
  BY <1>4, <1>6
<1>8. n3 = [op |-> a, ch |-> b, kind |-> c, pc |-> "idle",
            next |-> x, ctx |-> y, res |-> "none"]
  BY <1>5, <1>7
<1>9. [n3 EXCEPT !.pc = "lock"] =
        [op |-> a, ch |-> b, kind |-> c, pc |-> "lock", next |-> x, ctx |-> y, res |-> "none"]
  BY <1>8
<1>10. Begun(o) = [n3 EXCEPT !.pc = "lock"]
  BY <1>1, <1>3, <1>4, <1>5 DEF Begun
<1>11. PICK n : n = Begun(o)
  OBVIOUS
<1>12. n = [op |-> a, ch |-> b, kind |-> c, pc |-> "lock", next |-> x, ctx |-> y, res |-> "none"]
  BY <1>9, <1>10, <1>11
<1>13. IsOp(n) /\ n.op = a /\ n.ch = b /\ n.pc = "lock" /\ n.res = "none"
  BY <1>12 DEF IsOp
<1> QED BY <1>1, <1>11, <1>13

LEMMA UserCallStep ==
  ASSUME IInv, NEW p \in Parties, UserCall(p)
  PROVE  IInv'
<1>1. PICK i \in DOMAIN Calls[p] : \E u \in Calls[p][i] :
        u.ch \in channels[p] /\ Begin(p, "call", u)
  BY DEF UserCall
<1>2. PICK u \in Calls[p][i] : u.ch \in channels[p] /\ Begin(p, "call", u)
  BY <1>1
<1>3. u.op \in {"update", "settle"} /\ u.ch \in Channels
  BY <1>2, CallsAssumption
<1>4. PICK o : o = Begun(u)
  OBVIOUS
<1>5. IsOp(o) /\ o.op = u.op /\ o.ch = u.ch /\ o.pc = "lock"
  BY <1>4, BeginFacts
<1>6. UNCHANGED <<mach, lock, net, handler, ui, channels, dropped>>
  BY DEF UserCall
<1>7. CallOK(p, o)'
  BY <1>2, <1>3, <1>5, <1>6 DEF CallOK
<1>8. SetOp(p, "call", o) /\ LockKept(p, "call") /\ CurKept
  BY <1>2, <1>4, <1>6, SameLock, SameMach DEF Begin, Begun, IInv, Shape
<1> QED BY <1>5, <1>6, <1>7, <1>8, CallStep

LEMMA WatchStep ==
  ASSUME IInv, NEW p \in Parties, Watch(p)
  PROVE  IInv'
<1>1. PICK u : u = [op |-> "register", ch |-> Parent, kind |-> "all"]
  OBVIOUS
<1>2. u.op = "register" /\ u.ch = Parent
  BY <1>1
<1>3. PICK o : o = Begun(u)
  OBVIOUS
<1>4. IsOp(o) /\ o.op = u.op /\ o.ch = u.ch /\ o.pc = "lock"
  BY <1>3, BeginFacts
<1>5. UNCHANGED <<mach, lock, net, handler, ui, channels, dropped>>
  BY DEF Watch
<1>6. WatchOK(o)
  BY <1>2, <1>4 DEF WatchOK
<1>7. SetOp(p, "watch", o) /\ LockKept(p, "watch") /\ CurKept
  BY <1>1, <1>3, <1>5, SameLock, SameMach DEF Watch, Begin, Begun, IInv, Shape
<1> QED BY <1>4, <1>5, <1>6, <1>7, CallStep

\* The locks of a tree, one after the other.
LEMMA tryLockRecursiveStep ==
  ASSUME IInv, NEW p \in Parties, NEW g \in Goroutines, tryLockRecursive(p, g)
  PROVE  IInv'
<1>1. op[p][g].op \in {"settle", "register"}
      /\ UNCHANGED <<mach, net, handler, ui, channels, dropped>>
  BY DEF tryLockRecursive
<1>2. /\ g \in {"call", "watch"}
      /\ g = "call" => op[p][g].op = "settle" /\ op[p][g].ch \in Channels
      /\ g = "watch" => op[p][g].op = "register" /\ op[p][g].ch \in Channels
  BY <1>1, Names DEF IInv, GoInv, OpenInv, CallOK, WatchOK
<1>3. CurKept /\ LockShape /\ OpShape
  BY <1>1, SameMach DEF IInv, Shape
<1>4. CASE TryLock(p, op[p][g].ch, g) /\ Goto(p, g, "lockSub")
  <2>1. LockKept(p, g)
    BY <1>2, <1>3, <1>4, TryLockFacts
  <2> QED BY <1>1, <1>2, <1>3, <1>4, <2>1, CallGoto
<1>5. CASE /\ \A c \in SubChannelsOf(p, op[p][g].ch) : Free(p, c)
           /\ lock' = [lock EXCEPT ![p] = [c \in Channels |->
                         IF c \in SubChannelsOf(p, op[p][g].ch) THEN g ELSE @[c]]]
           /\ Goto(p, g, "locked")
  <2>1. LockKept(p, g)
    BY <1>3, <1>5 DEF LockKept, LockShape, Free
  <2> QED BY <1>1, <1>2, <1>3, <1>5, <2>1, CallGoto
<1>6. CASE Return(p, g, "err")
  BY <1>1, <1>2, <1>3, <1>6, CallReturn
<1> QED BY <1>4, <1>5, <1>6 DEF tryLockRecursive

LEMMA LockTimeoutStep ==
  ASSUME IInv, NEW p \in Parties, LockTimeout(p)
  PROVE  IInv'
<1>1. Return(p, "call", "err") /\ UNCHANGED <<mach, net, handler, ui, channels, dropped>>
  BY DEF LockTimeout
<1>2. CurKept
  BY <1>1, SameMach DEF IInv, Shape
<1> QED BY <1>1, <1>2, CallReturn

\* A tree has the sub-channel only if the parent locks funds for it.
LEMMA TreeFacts ==
  ASSUME IInv, NEW p \in Parties, NEW c \in Channels, c = Sub => Opened(p)
  PROVE  Sub \in Tree(p, c) => Opened(p)
<1>1. HasSubAlloc(mach[p][Parent].cur, Sub) => Opened(p)
  BY AllocFacts DEF IInv, States, OpeningInv
<1> QED BY <1>1, Names DEF Tree, SubChannelsOf

LEMMA RegisterStep ==
  ASSUME IInv, NEW p \in Parties, Register(p)
  PROVE  IInv'
<1>1. UNCHANGED <<net, handler, ui, channels, dropped>> /\ op[p]["watch"].op = "register"
  BY DEF Register
<1>2. Parent \in Channels /\ Parent # Sub
  BY Names
<1>3. Sub \in Tree(p, Parent) => Opened(p)
  BY <1>2, TreeFacts
<1>4. MachShape /\ LockShape
  BY DEF IInv, Shape
<1>5. CASE SetPhase(p, Tree(p, Parent), "Registering") /\ Goto(p, "watch", "tx")
           /\ UNCHANGED lock
  <2>1. CurKept /\ LockKept(p, "watch")
    BY <1>3, <1>4, <1>5, PhaseStep, SameLock
  <2> QED BY <1>1, <1>5, <2>1, CallGoto
<1>6. CASE SetPhase(p, Tree(p, Parent), "Registered") /\ Return(p, "watch", "nil")
  <2>1. CurKept
    BY <1>3, <1>4, <1>6, PhaseStep
  <2> QED BY <1>1, <1>6, <2>1, CallReturn
<1>7. CASE Return(p, "watch", "err") /\ UNCHANGED mach
  <2>1. CurKept
    BY <1>4, <1>7, SameMach
  <2> QED BY <1>1, <1>7, <2>1, CallReturn
<1> QED BY <1>5, <1>6, <1>7 DEF Register

LEMMA SettleLockedStep ==
  ASSUME IInv, NEW p \in Parties, SettleLocked(p)
  PROVE  IInv'
<1>1. PICK o : o = op[p]["call"]
  OBVIOUS
<1>2. /\ o.op = "settle" /\ o.pc = "locked"
      /\ UNCHANGED <<net, handler, ui, channels, dropped>>
  BY <1>1 DEF SettleLocked
<1>3. o.ch \in Channels /\ (o.ch = Sub => Opened(p))
  BY <1>1, <1>2 DEF IInv, GoInv, CallOK, OpeningInv
<1>4. Sub \in Tree(p, o.ch) => Opened(p)
  BY <1>3, TreeFacts
<1>5. PICK cs : SetPhase(p, cs, "Withdrawing") /\ (Sub \in cs => Sub \in Tree(p, o.ch))
  BY <1>1 DEF SettleLocked, Tree
<1>6. CurKept /\ LockShape
  BY <1>4, <1>5, PhaseStep DEF IInv, Shape
<1>7. CASE Goto(p, "call", "settle") /\ UNCHANGED lock
  <2>1. LockKept(p, "call")
    BY <1>6, <1>7, SameLock
  <2> QED BY <1>1, <1>2, <1>6, <1>7, <2>1, CallGoto
<1>8. CASE Return(p, "call", "err")
  BY <1>2, <1>6, <1>8, CallReturn
<1> QED BY <1>7, <1>8 DEF SettleLocked

LEMMA settleStep ==
  ASSUME IInv, NEW p \in Parties, settle(p)
  PROVE  IInv'
<1>1. /\ op[p]["call"].op = "settle"
      /\ UNCHANGED <<mach, net, handler, ui, channels, dropped>>
  BY DEF settle
<1>2. CurKept /\ LockShape
  BY <1>1, SameMach DEF IInv, Shape
<1>3. CASE Goto(p, "call", "withdrawn") /\ UNCHANGED lock
  <2>1. LockKept(p, "call")
    BY <1>2, <1>3, SameLock
  <2> QED BY <1>1, <1>2, <1>3, <2>1, CallGoto
<1>4. CASE Return(p, "call", "err")
  BY <1>1, <1>2, <1>4, CallReturn
<1> QED BY <1>3, <1>4 DEF settle

LEMMA SettleEndsStep ==
  ASSUME IInv, NEW p \in Parties, SettleEnds(p)
  PROVE  IInv'
<1>1. PICK o : o = op[p]["call"]
  OBVIOUS
<1>2. /\ o.op = "settle" /\ o.pc = "withdrawn" /\ SetPhase(p, Tree(p, o.ch), "Withdrawn")
      /\ Return(p, "call", "nil")
      /\ UNCHANGED <<net, handler, ui, channels, dropped>>
  BY <1>1 DEF SettleEnds
<1>3. o.ch \in Channels /\ (o.ch = Sub => Opened(p))
  BY <1>1, <1>2 DEF IInv, GoInv, CallOK, OpeningInv
<1>4. Sub \in Tree(p, o.ch) => Opened(p)
  BY <1>3, TreeFacts
<1>5. CurKept
  BY <1>2, <1>4, PhaseStep DEF IInv, Shape
<1> QED BY <1>2, <1>5, CallReturn

-----------------------------------------------------------------------------
(* Proposing an update and taking the answer *)

\* The operation that waits for the response to s.
Waiting(o, s) == [o EXCEPT !.pc = "res", !.next = s]

LEMMA WaitingFacts ==
  ASSUME NEW o, IsOp(o), NEW s
  PROVE  /\ IsOp(Waiting(o, s)) /\ Waiting(o, s).op = o.op /\ Waiting(o, s).ch = o.ch
         /\ Waiting(o, s).pc = "res" /\ Waiting(o, s).next = s /\ Waiting(o, s).res = o.res
<1>1. PICK n : n = [o EXCEPT !.pc = "res"]
  OBVIOUS
<1>2. IsOp(n) /\ n.op = o.op /\ n.ch = o.ch /\ n.pc = "res" /\ n.res = o.res
  BY <1>1, PcFacts
<1>3. [n EXCEPT !.next = s] =
        [op |-> n.op, ch |-> n.ch, kind |-> n.kind, pc |-> n.pc,
         next |-> s, ctx |-> n.ctx, res |-> n.res]
  BY <1>2 DEF IsOp
<1>4. Waiting(o, s) = [n EXCEPT !.next = s]
  BY <1>1 DEF Waiting
<1>5. PICK w : w = Waiting(o, s)
  OBVIOUS
<1>6. w = [op |-> n.op, ch |-> n.ch, kind |-> n.kind, pc |-> n.pc,
           next |-> s, ctx |-> n.ctx, res |-> n.res]
  BY <1>3, <1>4, <1>5
<1>7. IsOp(w) /\ w.op = n.op /\ w.ch = n.ch /\ w.pc = n.pc /\ w.next = s /\ w.res = n.res
  BY <1>6 DEF IsOp
<1> QED BY <1>2, <1>5, <1>7

LEMMA MsgFacts ==
  ASSUME NEW t, NEW q, NEW c, NEW s
  PROVE  /\ Msg(t, q, c, s).type = t /\ Msg(t, q, c, s).to = q
         /\ Msg(t, q, c, s).ch = c /\ Msg(t, q, c, s).state = s
  BY DEF Msg

\* The parts of the invariant that do not change when s is proposed.
LEMMA StageFrame ==
  ASSUME IInv, NEW p \in Parties, NEW g \in {"open", "call"}, NEW c \in Channels, NEW s,
         updateGeneric(p, g, c, s), c = UpdateOf(op[p][g]), OfChannel(c, s),
         op[p][g].op \in {"open", "update", "settle"},
         Alloc(s) => Opened(p),
         LockShape', lock' = lock, UNCHANGED <<handler, ui, channels, dropped>>
  PROVE  /\ Shape' /\ States' /\ CurKept
         /\ SetOp(p, g, Waiting(op[p][g], s))
         /\ net' = net \cup {Msg("update", Peer(p), c, s)}
         /\ op'[p][g] = Waiting(op[p][g], s)
         /\ \A q \in Parties, h \in Goroutines : q # p \/ h # g => op'[q][h] = op[q][h]
         /\ \A q \in Parties : HandlerInv(q)'
<1>1. g \in Goroutines
  BY Names
<1>2. PICK o : o = op[p][g] /\ IsOp(o)
  BY <1>1 DEF IInv, Shape, OpShape
<1>3. PICK w : w = Waiting(o, s)
  OBVIOUS
<1>4. IsOp(w) /\ w.op = o.op /\ w.ch = o.ch /\ w.pc = "res" /\ w.next = s
  BY <1>2, <1>3, WaitingFacts
<1>5. SetOp(p, g, w) /\ net' = net \cup {Msg("update", Peer(p), c, s)}
      /\ mach[p][c].phase = "Acting"
      /\ mach' = [mach EXCEPT ![p][c].phase = "Signing"]
  BY <1>2, <1>3 DEF updateGeneric, Waiting, CanUpdate
<1>6. /\ OpShape' /\ op'[p][g] = w
      /\ \A q \in Parties, h \in Goroutines : q # p \/ h # g => op'[q][h] = op[q][h]
  BY <1>1, <1>4, <1>5, OpFacts DEF IInv, Shape
<1>7. CurKept
  <2>1. SetPhase(p, {c}, "Signing")
    BY <1>5, Names DEF SetPhase, IInv, Shape, MachShape
  <2>2. Sub \in {c} => Opened(p)
    BY <1>5 DEF Opened
  <2> QED BY <2>1, <2>2, PhaseStep DEF IInv, Shape
<1>8. Shape'
  BY <1>6, <1>7 DEF IInv, Shape, CurKept, HandlerShape, UiShape, ChannelsShape
<1>9. States'
  <2>1. \A q \in Parties : OfParent(mach[q][Parent].cur)' /\ OfSub(mach[q][Sub].cur)'
    BY <1>7 DEF IInv, States, CurKept
  <2>2. ASSUME NEW q \in Parties, NEW h \in Goroutines, op'[q][h].pc = "res"
        PROVE  OfChannel(UpdateOf(op[q][h]), op[q][h].next)'
    <3>1. CASE q = p /\ h = g
      BY <1>2, <1>4, <1>6, <3>1 DEF UpdateOf
    <3>2. CASE q # p \/ h # g
      BY <1>6, <2>2, <3>2 DEF IInv, States
    <3> QED BY <3>1, <3>2
  <2>3. ASSUME NEW m \in net', m.type = "update"
        PROVE  m.ch \in Channels /\ OfChannel(m.ch, m.state)
    <3>1. CASE m \in net
      BY <2>3, <3>1 DEF IInv, States
    <3>2. CASE m = Msg("update", Peer(p), c, s)
      BY <3>2, MsgFacts
    <3> QED BY <1>5, <3>1, <3>2
  <2> QED BY <2>1, <2>2, <2>3 DEF IInv, States
<1>10. \A q \in Parties : HandlerInv(q)'
  BY DEF IInv, HandlerInv
<1> QED BY <1>2, <1>3, <1>5, <1>6, <1>7, <1>8, <1>9, <1>10

\* A call proposes s, whose sub-allocation is that of the parent's current state
\* if it has one.
LEMMA StageCall ==
  ASSUME IInv, NEW p \in Parties, NEW c \in Channels, NEW s,
         updateGeneric(p, "call", c, s), c = UpdateOf(op[p]["call"]), OfChannel(c, s),
         \/ op[p]["call"].op = "update" /\ op[p]["call"].pc = "locked"
         \/ op[p]["call"].op = "settle" /\ op[p]["call"].pc = "lockedParent",
         Alloc(s) => Alloc(mach[p][Parent].cur),
         op[p]["call"].op = "update" /\ c = Parent /\ Alloc(mach[p][Parent].cur) => Alloc(s),
         UNCHANGED <<lock, handler, ui, channels, dropped>>
  PROVE  IInv'
<1>1. "call" \in Goroutines /\ "open" \in Goroutines /\ "watch" \in Goroutines
  BY Names
<1>2. Alloc(s) => Opened(p)
  BY DEF IInv, OpeningInv
<1>3. LockShape'
  BY DEF IInv, Shape, LockShape
<1>4. PICK w : w = Waiting(op[p]["call"], s)
  OBVIOUS
<1>5. /\ w.op = op[p]["call"].op /\ w.ch = op[p]["call"].ch /\ w.pc = "res" /\ w.next = s
  BY <1>1, <1>4, WaitingFacts DEF IInv, Shape, OpShape
<1>6. /\ Shape' /\ States' /\ CurKept
      /\ net' = net \cup {Msg("update", Peer(p), c, s)}
      /\ op'[p]["call"] = w
      /\ \A q \in Parties, h \in Goroutines : q # p \/ h # "call" => op'[q][h] = op[q][h]
      /\ \A q \in Parties : HandlerInv(q)'
  BY <1>2, <1>3, <1>4, StageFrame
<1>7. \A q \in Parties : op'[q]["open"] = op[q]["open"] /\ op'[q]["watch"] = op[q]["watch"]
  BY <1>1, <1>6
<1>8. ASSUME NEW q \in Parties PROVE GoInv(q)'
  <2>1. OpenInv(q)' /\ WatchOK(op[q]["watch"])'
    BY <1>7 DEF IInv, GoInv, OpenInv, WatchOK
  <2>2. CallOK(q, op[q]["call"])'
    <3>1. CASE q = p
      <4>1. CallOK(p, op[p]["call"])
        BY DEF IInv, GoInv
      <4>2. CallOK(p, w)'
        BY <1>5, <4>1 DEF CallOK
      <4> QED BY <1>6, <3>1, <4>2
    <3>2. CASE q # p
      BY <1>1, <1>6, <3>2 DEF IInv, GoInv, CallOK
    <3> QED BY <3>1, <3>2
  <2> QED BY <2>1, <2>2 DEF GoInv
<1>9. ASSUME NEW q \in Parties PROVE OpeningInv(q)'
  <2>1. ASSUME NEW h \in Goroutines, op'[q][h].pc = "res", Alloc(op'[q][h].next)
        PROVE  Opened(q)
    <3>1. CASE q = p /\ h = "call"
      BY <1>2, <1>5, <1>6, <2>1, <3>1
    <3>2. CASE q # p \/ h # "call"
      BY <1>6, <2>1, <3>2 DEF IInv, OpeningInv
    <3> QED BY <3>1, <3>2
  <2> QED BY <1>6, <1>7, <2>1 DEF IInv, OpeningInv, NotBegun, CurKept
<1>10. FundInv'
  <2>1. ASSUME p = Proposee, op[p]["open"].pc \in {"respond", "put"}
        PROVE  Alloc(s)
    <3>1. Sub \notin channels[p] /\ Alloc(mach[p][Parent].cur)
      BY <2>1 DEF IInv, OpeningInv, FundInv
    <3>2. op[p]["call"].op = "update" /\ c = Parent
      BY <3>1, Names DEF IInv, GoInv, CallOK, UpdateOf
    <3> QED BY <3>1, <3>2
  <2> QED BY <1>1, <1>5, <1>6, <1>7, <2>1, Names DEF IInv, FundInv, CurKept
<1>11. NoAlloc => NoAlloc'
  <2> SUFFICES ASSUME NoAlloc PROVE NoAlloc'
    OBVIOUS
  <2>1. ~Alloc(s)
    BY DEF NoAlloc
  <2>2. ASSUME NEW q \in Parties, NEW h \in Goroutines, op'[q][h].pc = "res"
        PROVE  ~Alloc(op'[q][h].next)
    BY <1>5, <1>6, <2>1, <2>2 DEF NoAlloc
  <2>3. ASSUME NEW m \in net', m.type = "update" PROVE ~Alloc(m.state)
    BY <1>6, <2>1, <2>3, MsgFacts DEF NoAlloc
  <2> QED BY <1>6, <2>2, <2>3 DEF NoAlloc, CurKept
<1>12. PeerInv'
  <2>1. \A m \in net' : m.type = "proposal" => m \in net
    BY <1>6, MsgFacts
  <2>2. Msg("sig0", Proposer, Sub, InitSub) \in net' => Msg("sig0", Proposer, Sub, InitSub) \in net
    BY <1>6, MsgFacts
  <2> QED BY <1>7, <1>11, <2>1, <2>2, Names DEF IInv, PeerInv, Before, Unready, NotBegun
<1>13. DropInv'
  BY <1>7, Names DEF IInv, DropInv
<1> QED BY <1>6, <1>8, <1>9, <1>10, <1>12, <1>13 DEF IInv

LEMMA UpdateByStep ==
  ASSUME IInv, NEW p \in Parties, UpdateBy(p)
  PROVE  IInv'
<1>1. PICK o : o = op[p]["call"]
  OBVIOUS
<1>2. o.op = "update" /\ UNCHANGED <<handler, ui, channels, dropped>>
  BY <1>1 DEF UpdateBy
<1>3. CallOK(p, o) /\ MachShape /\ LockShape /\ States
  BY <1>1 DEF IInv, GoInv, Shape
<1>4. o.ch \in Channels /\ (o.ch = Sub => Opened(p))
  BY <1>2, <1>3 DEF CallOK, IInv, OpeningInv
<1>5. CASE o.pc = "lock" /\ TryLock(p, o.ch, "call") /\ Goto(p, "call", "locked")
           /\ UNCHANGED <<mach, net>>
  <2>1. LockKept(p, "call") /\ lock'[p][o.ch] = "call" /\ CurKept
    BY <1>3, <1>4, <1>5, TryLockFacts, SameMach
  <2> QED BY <1>1, <1>2, <1>5, <2>1, CallGoto
<1>6. CASE o.pc = "locked" /\ updateGeneric(p, "call", o.ch, NextState(p, o.ch, o.kind))
           /\ UNCHANGED lock
  <2>1. PICK s : s = NextState(p, o.ch, o.kind)
    OBVIOUS
  <2>2. OfChannel(o.ch, s) /\ s.Locked = mach[p][o.ch].cur.Locked
    BY <1>3, <1>4, <2>1, NextStateFacts
  <2>3. o.ch = Sub => ~Alloc(s)
    BY <2>2 DEF OfChannel, OfSub, Alloc
  <2>4. o.ch = Parent => (Alloc(s) <=> Alloc(mach[p][Parent].cur))
    BY <2>2 DEF Alloc
  <2>5. o.ch = UpdateOf(o) /\ (o.ch = Parent \/ o.ch = Sub)
    BY <1>2, <1>4, Names DEF UpdateOf
  <2>6. updateGeneric(p, "call", o.ch, s)
    BY <1>6, <2>1
  <2> QED BY <1>1, <1>2, <1>4, <1>6, <2>2, <2>3, <2>4, <2>5, <2>6, StageCall
<1>7. CASE (\E r : Return(p, "call", r)) /\ UNCHANGED <<mach, net>>
  <2>1. CurKept
    BY <1>3, <1>7, SameMach
  <2> QED BY <1>2, <1>7, <2>1, CallReturn
<1> QED BY <1>1, <1>5, <1>6, <1>7 DEF UpdateBy

LEMMA withdrawSubChannelIntoParentStep ==
  ASSUME IInv, NEW p \in Parties, withdrawSubChannelIntoParent(p)
  PROVE  IInv'
<1>1. PICK o : o = op[p]["call"]
  OBVIOUS
<1>2. o.op = "settle" /\ o.ch = Sub /\ UNCHANGED <<handler, ui, channels, dropped>>
  BY <1>1 DEF withdrawSubChannelIntoParent
<1>3. MachShape /\ LockShape /\ States /\ Parent \in Channels
  BY Names DEF IInv, Shape
<1>4. CASE (\E r : Return(p, "call", r)) /\ UNCHANGED <<mach, net>>
  <2>1. CurKept
    BY <1>3, <1>4, SameMach
  <2> QED BY <1>2, <1>4, <2>1, CallReturn
<1>5. CASE Goto(p, "call", "intercept") /\ UNCHANGED <<mach, net, lock>>
  <2>1. LockKept(p, "call") /\ CurKept
    BY <1>3, <1>5, SameLock, SameMach
  <2> QED BY <1>1, <1>2, <1>5, <2>1, CallGoto
<1>6. CASE TryLock(p, Parent, "call") /\ Goto(p, "call", "lockedParent") /\ UNCHANGED <<mach, net>>
  <2>1. LockKept(p, "call") /\ CurKept
    BY <1>3, <1>6, TryLockFacts, SameMach
  <2> QED BY <1>1, <1>2, <1>6, <2>1, CallGoto
<1>7. ASSUME NEW s, o.pc = "lockedParent", HasSubAlloc(mach[p][Parent].cur, Sub),
             s = updateBy(mach[p][Parent].cur,
                          withdrawSubChannel(mach[p][Parent].cur, mach[p][Sub].cur)),
             updateGeneric(p, "call", Parent, s), UNCHANGED lock
      PROVE  IInv'
  <2>1. OfParent(mach[p][Parent].cur) /\ Alloc(mach[p][Parent].cur)
    BY <1>3, <1>7, AllocFacts DEF States
  <2>2. OfParent(s) /\ ~Alloc(s)
    BY <1>7, <2>1, WithdrawFacts
  <2>3. UpdateOf(o) = Parent /\ OfChannel(Parent, s) /\ Parent # Sub
    BY <1>2, <2>2, Names DEF UpdateOf, OfChannel
  <2> QED BY <1>1, <1>2, <1>3, <1>7, <2>2, <2>3, StageCall
<1> QED BY <1>1, <1>4, <1>5, <1>6, <1>7 DEF withdrawSubChannelIntoParent

-----------------------------------------------------------------------------
(* Steps of the opening *)

\* A goroutine that has begun to open the channel.
OpeningAt(pc) == [NoOp EXCEPT !.op = "open", !.pc = pc]

LEMMA OpeningAtFacts ==
  ASSUME NEW pc
  PROVE  /\ IsOp(OpeningAt(pc)) /\ OpeningAt(pc).op = "open" /\ OpeningAt(pc).pc = pc
         /\ OpeningAt(pc).res = "none"
<1>1. PICK x, y : NoOp = [op |-> "none", ch |-> Parent, kind |-> "none", pc |-> "idle",
                          next |-> x, ctx |-> y, res |-> "none"]
  BY DEF NoOp
<1>2. PICK n1 : n1 = [NoOp EXCEPT !.op = "open"]
  OBVIOUS
<1>3. n1 = [op |-> "open", ch |-> Parent, kind |-> "none", pc |-> "idle",
            next |-> x, ctx |-> y, res |-> "none"]
  BY <1>1, <1>2
<1>4. [n1 EXCEPT !.pc = pc] =
        [op |-> "open", ch |-> Parent, kind |-> "none", pc |-> pc,
         next |-> x, ctx |-> y, res |-> "none"]
  BY <1>3
<1>5. OpeningAt(pc) = [n1 EXCEPT !.pc = pc]
  BY <1>2 DEF OpeningAt
<1>6. PICK n : n = OpeningAt(pc)
  OBVIOUS
<1>7. n = [op |-> "open", ch |-> Parent, kind |-> "none", pc |-> pc,
           next |-> x, ctx |-> y, res |-> "none"]
  BY <1>4, <1>5, <1>6
<1>8. IsOp(n) /\ n.op = "open" /\ n.pc = pc /\ n.res = "none"
  BY <1>7 DEF IsOp
<1> QED BY <1>6, <1>8

\* The parts of the invariant that a step of the opening at p keeps when it
\* changes no current state and proposes no update.
LEMMA OpenFrame ==
  ASSUME IInv, NEW p \in Parties, NEW o, IsOp(o), SetOp(p, "open", o), o.pc # "res",
         \/ o.op = "none" /\ o.pc = "idle"
         \/ o.op = "open" /\ o.res = "none" /\ o.pc \in OpenPcs(p),
         p = Proposee /\ op[p]["open"].res # "none" => o.res # "none",
         LockKept(p, "open"), MachShape', UiShape', ChannelsShape',
         \A q \in Parties : /\ mach'[q][Parent].cur = mach[q][Parent].cur
                            /\ mach'[q][Sub].cur = mach[q][Sub].cur,
         \A q \in Parties : channels[q] \subseteq channels'[q],
         \A m \in net' : m.type = "update" => m \in net,
         UNCHANGED <<handler, dropped>>
  PROVE  /\ Shape' /\ States' /\ DropInv' /\ (NoAlloc => NoAlloc')
         /\ \A q \in Parties : GoInv(q)' /\ HandlerInv(q)'
         /\ op'[p]["open"] = o
         /\ \A q \in Parties, h \in Goroutines : q # p \/ h # "open" => op'[q][h] = op[q][h]
<1>1. "call" \in Goroutines /\ "open" \in Goroutines /\ "watch" \in Goroutines
  BY Names
<1>2. /\ OpShape' /\ op'[p]["open"] = o
      /\ \A q \in Parties, h \in Goroutines : q # p \/ h # "open" => op'[q][h] = op[q][h]
  BY <1>1, OpFacts DEF IInv, Shape
<1>3. \A q \in Parties : op'[q]["call"] = op[q]["call"] /\ op'[q]["watch"] = op[q]["watch"]
  BY <1>1, <1>2
<1>4. \A q \in Parties, h \in Goroutines : op'[q][h].pc = "res" => op'[q][h] = op[q][h]
  BY <1>2
<1>5. Shape'
  BY <1>2 DEF IInv, Shape, LockKept, HandlerShape
<1>6. States'
  <2>1. \A q \in Parties : OfParent(mach[q][Parent].cur)' /\ OfSub(mach[q][Sub].cur)'
    BY DEF IInv, States
  <2>2. ASSUME NEW q \in Parties, NEW h \in Goroutines, op'[q][h].pc = "res"
        PROVE  OfChannel(UpdateOf(op[q][h]), op[q][h].next)'
    BY <1>4, <2>2 DEF IInv, States
  <2> QED BY <2>1, <2>2 DEF IInv, States
<1>7. ASSUME NEW q \in Parties PROVE GoInv(q)'
  <2>1. OpenInv(q)'
    <3>1. CASE q = p
      BY <1>2, <3>1 DEF OpenInv
    <3>2. CASE q # p
      BY <1>1, <1>2, <3>2 DEF IInv, GoInv, OpenInv
    <3> QED BY <3>1, <3>2
  <2>2. CallOK(q, op[q]["call"])'
    <3>1. \A c \in Channels : lock[q][c] = "call" => lock'[q][c] = "call"
      BY DEF LockKept
    <3>2. CallOK(q, op[q]["call"])
      BY DEF IInv, GoInv
    <3> QED BY <1>3, <3>1, <3>2 DEF CallOK
  <2>3. WatchOK(op[q]["watch"])'
    BY <1>3 DEF IInv, GoInv, WatchOK
  <2> QED BY <2>1, <2>2, <2>3 DEF GoInv
<1>8. ASSUME NEW q \in Parties PROVE HandlerInv(q)'
  BY Names DEF IInv, HandlerInv, LockKept
<1>9. NoAlloc => NoAlloc'
  BY <1>4 DEF NoAlloc
<1>10. DropInv'
  BY <1>1, <1>2, Names DEF IInv, DropInv
<1> QED BY <1>2, <1>5, <1>6, <1>7, <1>8, <1>9, <1>10

\* The same for a step that leaves the interceptors and the registry alone as well.
LEMMA OpenFrame2 ==
  ASSUME IInv, NEW p \in Parties, NEW o, IsOp(o), SetOp(p, "open", o), o.pc # "res",
         \/ o.op = "none" /\ o.pc = "idle"
         \/ o.op = "open" /\ o.res = "none" /\ o.pc \in OpenPcs(p),
         p = Proposee /\ op[p]["open"].res # "none" => o.res # "none",
         LockKept(p, "open"), CurKept, \A m \in net' : m.type = "update" => m \in net,
         UNCHANGED <<handler, dropped, ui, channels>>
  PROVE  /\ Shape' /\ States' /\ DropInv' /\ (NoAlloc => NoAlloc')
         /\ \A q \in Parties : GoInv(q)' /\ HandlerInv(q)'
         /\ op'[p]["open"] = o
         /\ \A q \in Parties, h \in Goroutines : q # p \/ h # "open" => op'[q][h] = op[q][h]
         /\ \A q \in Parties : q # p => OpeningInv(q)'
<1>1. MachShape' /\ UiShape' /\ ChannelsShape'
  BY DEF CurKept, IInv, Shape, UiShape, ChannelsShape
<1>2. /\ Shape' /\ States' /\ DropInv' /\ (NoAlloc => NoAlloc')
      /\ \A q \in Parties : GoInv(q)' /\ HandlerInv(q)'
      /\ op'[p]["open"] = o
      /\ \A q \in Parties, h \in Goroutines : q # p \/ h # "open" => op'[q][h] = op[q][h]
  BY <1>1, OpenFrame DEF CurKept
<1>3. ASSUME NEW q \in Parties, q # p PROVE OpeningInv(q)'
  BY <1>2, <1>3, Names DEF IInv, OpeningInv, NotBegun, CurKept
<1> QED BY <1>2, <1>3

\* The opening fails.
LEMMA OpenReturn ==
  ASSUME IInv, NEW p \in Parties, Return(p, "open", "err"), op[p]["open"].op = "open",
         CurKept, net' \subseteq net, UNCHANGED <<handler, dropped, ui, channels>>
  PROVE  IInv'
<1>1. "open" \in Goroutines /\ "call" \in Goroutines
  BY Names
<1>2. PICK o : o = op'[p]["open"]
  OBVIOUS
<1>3. /\ LockKept(p, "open") /\ IsOp(o) /\ SetOp(p, "open", o)
      /\ o.op = "none" /\ o.pc = "idle" /\ o.res = "err"
  BY <1>1, <1>2, ReturnFacts DEF IInv, Shape
<1>4. /\ Shape' /\ States' /\ DropInv' /\ (NoAlloc => NoAlloc')
      /\ \A q \in Parties : GoInv(q)' /\ HandlerInv(q)'
      /\ op'[p]["open"] = o
      /\ \A q \in Parties, h \in Goroutines : q # p \/ h # "open" => op'[q][h] = op[q][h]
      /\ \A q \in Parties : q # p => OpeningInv(q)'
  BY <1>3, OpenFrame2
<1>5. OpeningInv(p)'
  <2>1. \A h \in Goroutines : op'[p][h].pc = "res" => op'[p][h] = op[p][h]
    BY <1>3, <1>4
  <2>2. OpeningInv(p) /\ op[p]["open"].pc # "idle"
    BY DEF IInv, GoInv, OpenInv, OpenPcs
  <2> QED BY <1>3, <1>4, <2>1, <2>2 DEF OpeningInv, NotBegun, CurKept
<1>6. FundInv'
  BY <1>1, <1>3, <1>4, Names DEF IInv, FundInv, CurKept
<1>7. PeerInv'
  <2>1. op[p]["open"].pc # "idle"
    BY DEF IInv, GoInv, OpenInv, OpenPcs
  <2> QED BY <1>1, <1>3, <1>4, <2>1, Names DEF IInv, PeerInv, Before, Unready, NotBegun
<1> QED BY <1>4, <1>5, <1>6, <1>7 DEF IInv

\* Only messages change, and none of the three kinds that matter is added.
LEMMA NetStep ==
  ASSUME IInv, UNCHANGED <<mach, lock, op, handler, ui, channels, dropped>>,
         \A m \in net' : m.type \in {"update", "sig0", "proposal"} => m \in net
  PROVE  IInv'
<1>1. Shape' /\ FundInv' /\ DropInv'
  BY DEF IInv, Shape, MachShape, OpShape, LockShape, HandlerShape, UiShape, ChannelsShape,
         FundInv, DropInv
<1>2. States'
  BY DEF IInv, States
<1>3. \A q \in Parties : GoInv(q)' /\ OpeningInv(q)' /\ HandlerInv(q)'
  BY DEF IInv, GoInv, OpenInv, CallOK, WatchOK, OpeningInv, NotBegun, Opened, HandlerInv
<1>4. NoAlloc => NoAlloc'
  BY DEF NoAlloc
<1>5. PeerInv'
  <2>1. Msg("sig0", Proposer, Sub, InitSub) \in net' => Msg("sig0", Proposer, Sub, InitSub) \in net
    BY MsgFacts
  <2> QED BY <1>4, <2>1 DEF IInv, PeerInv, Before, Unready, NotBegun
<1> QED BY <1>1, <1>2, <1>3, <1>5 DEF IInv

LEMMA ProposeChannelStep ==
  ASSUME IInv, ProposeChannel
  PROVE  IInv'
<1>1. Proposer \in Parties /\ Parent \in Channels /\ "open" \in Goroutines /\ "call" \in Goroutines
      /\ Proposer # Proposee
  BY Names
<1>2. PICK o : o = OpeningAt("await")
  OBVIOUS
<1>3. IsOp(o) /\ o.op = "open" /\ o.pc = "await" /\ o.res = "none"
  BY <1>2, OpeningAtFacts
<1>4. /\ SetOp(Proposer, "open", o) /\ TryLock(Proposer, Parent, "open")
      /\ op[Proposer]["open"] = NoOp
      /\ net' = net \cup {Msg("proposal", Proposee, Sub, InitSub)}
      /\ UNCHANGED <<mach, handler, ui, channels, dropped>>
  BY <1>2 DEF ProposeChannel, OpeningAt
<1>5. LockKept(Proposer, "open") /\ CurKept
  BY <1>1, <1>4, TryLockFacts, SameMach DEF IInv, Shape
<1>6. \A m \in net' : m.type \in {"update", "sig0"} => m \in net
  BY <1>4, MsgFacts
<1>7. o.pc \in OpenPcs(Proposer)
  BY <1>3 DEF OpenPcs
<1>8. /\ Shape' /\ States' /\ DropInv' /\ (NoAlloc => NoAlloc')
      /\ \A q \in Parties : GoInv(q)' /\ HandlerInv(q)'
      /\ op'[Proposer]["open"] = o
      /\ \A q \in Parties, h \in Goroutines : q # Proposer \/ h # "open" => op'[q][h] = op[q][h]
      /\ \A q \in Parties : q # Proposer => OpeningInv(q)'
  BY <1>1, <1>3, <1>4, <1>5, <1>6, <1>7, OpenFrame2
<1>9. NotBegun(Proposer) /\ NotBegun(Proposee)
  BY <1>4, NoOpFacts DEF NotBegun, IInv, PeerInv
<1>10. OpeningInv(Proposer)'
  <2>1. \A h \in Goroutines : op'[Proposer][h].pc = "res" => op'[Proposer][h] = op[Proposer][h]
    BY <1>1, <1>3, <1>8
  <2>2. OpeningInv(Proposer)
    BY <1>1 DEF IInv
  <2> QED BY <1>1, <1>3, <1>4, <1>5, <1>8, <1>9, <2>1, <2>2 DEF OpeningInv, NotBegun, CurKept
<1>11. op'[Proposee]["open"] = op[Proposee]["open"] /\ op'[Proposee]["call"] = op[Proposee]["call"]
  BY <1>1, <1>8, Names
<1>12. FundInv'
  BY <1>4, <1>5, <1>11, Names DEF IInv, FundInv, CurKept
<1>13. PeerInv'
  <2>1. Msg("sig0", Proposer, Sub, InitSub) \notin net'
    BY <1>6, <1>9, MsgFacts DEF IInv, PeerInv, Unready
  <2>2. NoAlloc'
    BY <1>8, <1>9 DEF IInv, PeerInv, Before
  <2>3. NotBegun(Proposee)' /\ ~NotBegun(Proposer)'
    BY <1>3, <1>8, <1>9, <1>11 DEF NotBegun
  <2>4. \A m \in net' : m.type = "proposal" => m = Msg("proposal", Proposee, Sub, InitSub)
    BY <1>4 DEF IInv, PeerInv
  <2> QED BY <1>3, <1>8, <2>1, <2>2, <2>3, <2>4 DEF PeerInv
<1> QED BY <1>8, <1>10, <1>12, <1>13, Names DEF IInv

LEMMA handleChannelProposalStep ==
  ASSUME IInv, handleChannelProposal
  PROVE  IInv'
<1>1. Proposee \in Parties /\ Proposer \in Parties /\ Parent \in Channels
      /\ "open" \in Goroutines /\ "call" \in Goroutines /\ Proposer # Proposee
  BY Names
<1>2. PICK m \in net :
        /\ m.type = "proposal" /\ Free(Proposee, Parent)
        /\ UNCHANGED <<mach, handler, ui, channels, dropped>>
        /\ \/ /\ net' = net \ {m} /\ SetOp(Proposee, "open", OpeningAt("accept"))
              /\ lock' = lock \/ lock' = [lock EXCEPT ![Proposee][Parent] = "open"]
           \/ /\ net' = (net \ {m}) \cup {Msg("proposalRej", Proposer, Sub, InitSub)}
              /\ UNCHANGED <<op, lock>>
           \/ net' = net \ {m} /\ UNCHANGED <<op, lock>>
  BY DEF handleChannelProposal, OpeningAt
<1>3. CASE UNCHANGED <<op, lock>>
  <2>1. net' \subseteq net \cup {Msg("proposalRej", Proposer, Sub, InitSub)} \/ net' \subseteq net
    BY <1>2
  <2>2. \A x \in net' : x.type \in {"update", "sig0", "proposal"} => x \in net
    BY <2>1, MsgFacts
  <2> QED BY <1>2, <1>3, <2>2, NetStep
<1>4. CASE /\ net' = net \ {m} /\ SetOp(Proposee, "open", OpeningAt("accept"))
           /\ lock' = lock \/ lock' = [lock EXCEPT ![Proposee][Parent] = "open"]
  <2>1. PICK o : o = OpeningAt("accept")
    OBVIOUS
  <2>2. IsOp(o) /\ o.op = "open" /\ o.pc = "accept" /\ o.res = "none"
    BY <2>1, OpeningAtFacts
  <2>3. LockKept(Proposee, "open") /\ CurKept
    <3>1. lock' = lock \/ TryLock(Proposee, Parent, "open")
      BY <1>2, <1>4 DEF TryLock
    <3> QED BY <1>1, <1>2, <3>1, TryLockFacts, SameLock, SameMach DEF IInv, Shape
  <2>4. NotBegun(Proposee) /\ ~NotBegun(Proposer)
    BY <1>2 DEF IInv, PeerInv
  <2>5. op[Proposee]["open"].res = "none" /\ o.pc \in OpenPcs(Proposee)
    BY <1>1, <2>2, <2>4 DEF NotBegun, OpenPcs
  <2>6. SetOp(Proposee, "open", o) /\ \A x \in net' : x.type = "update" => x \in net
    BY <1>4, <2>1
  <2>7. /\ Shape' /\ States' /\ DropInv' /\ (NoAlloc => NoAlloc')
        /\ \A q \in Parties : GoInv(q)' /\ HandlerInv(q)'
        /\ op'[Proposee]["open"] = o
        /\ \A q \in Parties, h \in Goroutines : q # Proposee \/ h # "open" => op'[q][h] = op[q][h]
        /\ \A q \in Parties : q # Proposee => OpeningInv(q)'
    BY <1>1, <1>2, <2>2, <2>3, <2>5, <2>6, OpenFrame2
  <2>8. OpeningInv(Proposee)'
    <3>1. \A h \in Goroutines : op'[Proposee][h].pc = "res" => op'[Proposee][h] = op[Proposee][h]
      BY <1>1, <2>2, <2>7
    <3>2. OpeningInv(Proposee)
      BY <1>1 DEF IInv
    <3> QED BY <1>1, <1>2, <2>2, <2>3, <2>4, <2>7, <3>1, <3>2 DEF OpeningInv, NotBegun, CurKept
  <2>9. FundInv'
    BY <2>2, <2>7 DEF FundInv
  <2>10. PeerInv'
    <3>1. op'[Proposer]["open"] = op[Proposer]["open"]
      BY <1>1, <2>7
    <3>2. NoAlloc' /\ Msg("sig0", Proposer, Sub, InitSub) \notin net'
          /\ op[Proposer]["open"].pc # "fund"
      BY <1>4, <2>4, <2>7 DEF IInv, PeerInv, Unready
    <3>3. ~NotBegun(Proposer)'
      BY <2>4, <3>1 DEF NotBegun
    <3>4. ~\E x \in net' : x.type = "proposal"
      <4>1. \A x \in net : x.type = "proposal" => x = m
        BY <1>2 DEF IInv, PeerInv
      <4> QED BY <1>4, <4>1
    <3> QED BY <3>1, <3>2, <3>3, <3>4 DEF PeerInv
  <2> QED BY <2>7, <2>8, <2>9, <2>10, Names DEF IInv
<1> QED BY <1>2, <1>3, <1>4

LEMMA acceptChannelProposalStep ==
  ASSUME IInv, acceptChannelProposal
  PROVE  IInv'
<1>1. Proposee \in Parties /\ Proposer \in Parties /\ "open" \in Goroutines
      /\ "call" \in Goroutines /\ Proposer # Proposee
  BY Names
<1>2. /\ op[Proposee]["open"].pc = "accept" /\ Goto(Proposee, "open", "complete")
      /\ net' = net \cup {Msg("proposalAcc", Proposer, Sub, InitSub)}
      /\ UNCHANGED <<mach, lock, handler, ui, channels, dropped>>
  BY DEF acceptChannelProposal
<1>3. PICK o : o = op'[Proposee]["open"]
  OBVIOUS
<1>4. op[Proposee]["open"].op = "open" /\ op[Proposee]["open"].res = "none"
  BY <1>1, <1>2 DEF IInv, GoInv, OpenInv
<1>5. IsOp(o) /\ SetOp(Proposee, "open", o) /\ o.op = "open" /\ o.pc = "complete" /\ o.res = "none"
  BY <1>1, <1>2, <1>3, <1>4, GotoFacts DEF IInv, Shape
<1>6. LockKept(Proposee, "open") /\ CurKept /\ o.pc \in OpenPcs(Proposee)
  BY <1>1, <1>2, <1>5, SameLock, SameMach DEF IInv, Shape, OpenPcs
<1>7. \A m \in net' : m.type \in {"update", "sig0", "proposal"} => m \in net
  BY <1>2, MsgFacts
<1>8. /\ Shape' /\ States' /\ DropInv' /\ (NoAlloc => NoAlloc')
      /\ \A q \in Parties : GoInv(q)' /\ HandlerInv(q)'
      /\ op'[Proposee]["open"] = o
      /\ \A q \in Parties, h \in Goroutines : q # Proposee \/ h # "open" => op'[q][h] = op[q][h]
      /\ \A q \in Parties : q # Proposee => OpeningInv(q)'
  BY <1>1, <1>2, <1>4, <1>5, <1>6, <1>7, OpenFrame2
<1>9. OpeningInv(Proposee)'
  <2>1. \A h \in Goroutines : op'[Proposee][h].pc = "res" => op'[Proposee][h] = op[Proposee][h]
    BY <1>1, <1>5, <1>8
  <2>2. OpeningInv(Proposee)
    BY <1>1 DEF IInv
  <2> QED BY <1>1, <1>2, <1>5, <1>6, <1>8, <2>1, <2>2 DEF OpeningInv, NotBegun, CurKept
<1>10. FundInv'
  BY <1>5, <1>8 DEF FundInv
<1>11. PeerInv'
  <2>1. op'[Proposer]["open"] = op[Proposer]["open"]
    BY <1>1, <1>8
  <2>2. Unready /\ ~NotBegun(Proposee)
    BY <1>2 DEF Unready, NotBegun
  <2>3. NoAlloc' /\ Msg("sig0", Proposer, Sub, InitSub) \notin net'
        /\ op'[Proposer]["open"].pc # "fund"
    BY <1>7, <1>8, <2>1, <2>2, MsgFacts DEF IInv, PeerInv
  <2>4. ~NotBegun(Proposer)'
    BY <2>1, <2>2 DEF IInv, PeerInv, NotBegun
  <2>5. \A m \in net' : m.type # "proposal"
    BY <1>7, <2>2 DEF IInv, PeerInv
  <2> QED BY <2>3, <2>4, <2>5 DEF PeerInv
<1> QED BY <1>8, <1>9, <1>10, <1>11, Names DEF IInv

LEMMA proposeTwoPartyChannelStep ==
  ASSUME IInv, proposeTwoPartyChannel
  PROVE  IInv'
<1>1. Proposee \in Parties /\ Proposer \in Parties /\ "open" \in Goroutines
      /\ "call" \in Goroutines /\ Proposer # Proposee
  BY Names
<1>2. /\ op[Proposer]["open"].pc = "await" /\ net' \subseteq net
      /\ UNCHANGED <<mach, handler, ui, channels, dropped>>
  BY DEF proposeTwoPartyChannel
<1>3. op[Proposer]["open"].op = "open" /\ op[Proposer]["open"].res = "none"
  BY <1>1, <1>2 DEF IInv, GoInv, OpenInv
<1>4. CurKept
  BY <1>2, SameMach DEF IInv, Shape
<1>5. CASE Return(Proposer, "open", "err")
  BY <1>1, <1>2, <1>3, <1>4, <1>5, OpenReturn
<1>6. CASE Goto(Proposer, "open", "complete") /\ UNCHANGED lock
  <2>1. PICK o : o = op'[Proposer]["open"]
    OBVIOUS
  <2>2. IsOp(o) /\ SetOp(Proposer, "open", o) /\ o.op = "open" /\ o.pc = "complete" /\ o.res = "none"
    BY <1>1, <1>3, <1>6, <2>1, GotoFacts DEF IInv, Shape
  <2>3. LockKept(Proposer, "open") /\ o.pc \in OpenPcs(Proposer)
    BY <1>1, <1>6, <2>2, SameLock DEF IInv, Shape, OpenPcs
  <2>4. \A m \in net' : m \in net
    BY <1>2
  <2>5. /\ Shape' /\ States' /\ DropInv' /\ (NoAlloc => NoAlloc')
        /\ \A q \in Parties : GoInv(q)' /\ HandlerInv(q)'
        /\ op'[Proposer]["open"] = o
        /\ \A q \in Parties, h \in Goroutines : q # Proposer \/ h # "open" => op'[q][h] = op[q][h]
        /\ \A q \in Parties : q # Proposer => OpeningInv(q)'
    BY <1>1, <1>2, <1>4, <2>2, <2>3, <2>4, OpenFrame2
  <2>6. OpeningInv(Proposer)'
    <3>1. \A h \in Goroutines : op'[Proposer][h].pc = "res" => op'[Proposer][h] = op[Proposer][h]
      BY <1>1, <2>2, <2>5
    <3>2. OpeningInv(Proposer)
      BY <1>1 DEF IInv
    <3> QED BY <1>1, <1>2, <1>4, <2>2, <2>5, <3>1, <3>2 DEF OpeningInv, NotBegun, CurKept
  <2>7. op'[Proposee]["open"] = op[Proposee]["open"] /\ op'[Proposee]["call"] = op[Proposee]["call"]
    BY <1>1, <2>5
  <2>8. FundInv'
    BY <1>1, <1>2, <1>4, <2>7 DEF IInv, FundInv, CurKept
  <2>9. PeerInv'
    BY <1>2, <2>2, <2>4, <2>5, <2>7 DEF IInv, PeerInv, Before, Unready, NotBegun
  <2> QED BY <2>5, <2>6, <2>8, <2>9, Names DEF IInv
<1> QED BY <1>5, <1>6 DEF proposeTwoPartyChannel

LEMMA completeCPPStep ==
  ASSUME IInv, NEW p \in Parties, completeCPP(p)
  PROVE  IInv'
<1>1. Proposee \in Parties /\ Proposer \in Parties /\ "open" \in Goroutines
      /\ "call" \in Goroutines /\ Proposer # Proposee /\ Sub \in Channels /\ Parent \in Channels
      /\ Parent # Sub /\ p \in {Proposer, Proposee}
  BY Names
<1>2. /\ op[p]["open"].pc = "complete" /\ Goto(p, "open", "sigs")
      /\ mach' = [mach EXCEPT ![p][Sub].phase = "InitSigning"]
      /\ net' = net \cup {Msg("sig0", Peer(p), Sub, InitSub)}
      /\ UNCHANGED <<lock, handler, channels, dropped>>
  BY DEF completeCPP
<1>3. PICK o : o = op'[p]["open"]
  OBVIOUS
<1>4. op[p]["open"].op = "open" /\ op[p]["open"].res = "none"
  BY <1>2 DEF IInv, GoInv, OpenInv
<1>5. IsOp(o) /\ SetOp(p, "open", o) /\ o.op = "open" /\ o.pc = "sigs" /\ o.res = "none"
  BY <1>1, <1>2, <1>3, <1>4, GotoFacts DEF IInv, Shape
<1>6. o.pc \in OpenPcs(p) /\ LockKept(p, "open")
  BY <1>2, <1>5, SameLock DEF IInv, Shape, OpenPcs
<1>7. ~Opened(p)
  BY <1>2 DEF IInv, OpeningInv
<1>8. CurKept /\ MachShape'
  <2>1. SetPhase(p, {Sub}, "InitSigning")
    BY <1>1, <1>2 DEF SetPhase, IInv, Shape, MachShape
  <2>2. /\ MachShape'
        /\ \A q \in Parties, c \in Channels :
             /\ mach'[q][c].cur = mach[q][c].cur
             /\ q # p \/ c \notin {Sub} => mach'[q][c].phase = mach[q][c].phase
        /\ mach'[p][Sub].phase = "InitSigning"
    BY <1>1, <2>1, SetPhaseFacts DEF IInv, Shape
  <2> QED BY <1>1, <1>7, <2>2 DEF CurKept, Opened
<1>9. UiShape' /\ ChannelsShape' /\ (p # Proposee => ui' = ui)
      /\ (p = Proposee => ui'[Proposee].fund = <<SubLock.Bals>>)
  <2>1. ui' = IF p = Proposee THEN [ui EXCEPT ![p].fund = <<SubLock.Bals>>] ELSE ui
    BY DEF completeCPP, SubLock, NewSubAlloc
  <2>2. UiShape /\ ChannelsShape
    BY DEF IInv, Shape
  <2>3. ChannelsShape'
    BY <1>2, <2>2 DEF ChannelsShape
  <2>4. CASE p # Proposee
    BY <2>1, <2>2, <2>3, <2>4 DEF UiShape
  <2>5. CASE p = Proposee
    <3>1. PICK x : x = <<SubLock.Bals>>
      OBVIOUS
    <3>2. ui' = [ui EXCEPT ![p].fund = x]
      BY <2>1, <2>5, <3>1
    <3>3. ui'[p] = [fund |-> x, settle |-> ui[p].settle] /\ \A q \in Parties : q # p => ui'[q] = ui[q]
      BY <2>2, <3>2 DEF UiShape
    <3>4. ui' = [q \in Parties |-> ui'[q]]
      BY <2>2, <3>2 DEF UiShape
    <3>5. \A q \in Parties : ui'[q] = [fund |-> ui'[q].fund, settle |-> ui'[q].settle]
      BY <2>2, <3>3 DEF UiShape
    <3> QED BY <2>3, <2>5, <3>1, <3>3, <3>4, <3>5 DEF UiShape
  <2> QED BY <2>4, <2>5
<1>10. \A m \in net' : m.type \in {"update", "proposal"} => m \in net
  BY <1>2, MsgFacts
<1>11. /\ Shape' /\ States' /\ DropInv' /\ (NoAlloc => NoAlloc')
       /\ \A q \in Parties : GoInv(q)' /\ HandlerInv(q)'
       /\ op'[p]["open"] = o
       /\ \A q \in Parties, h \in Goroutines : q # p \/ h # "open" => op'[q][h] = op[q][h]
  BY <1>2, <1>4, <1>5, <1>6, <1>8, <1>9, <1>10, OpenFrame DEF CurKept
<1>12. ASSUME NEW q \in Parties PROVE OpeningInv(q)'
  <2>1. \A h \in Goroutines : op'[q][h].pc = "res" => op'[q][h] = op[q][h]
    BY <1>5, <1>11
  <2>2. CASE q = p
    BY <1>2, <1>4, <1>5, <1>7, <1>8, <1>11, <2>1, <2>2 DEF IInv, OpeningInv, NotBegun, CurKept
  <2>3. CASE q # p
    BY <1>1, <1>2, <1>8, <1>11, <2>1, <2>3 DEF IInv, OpeningInv, NotBegun, CurKept
  <2> QED BY <2>2, <2>3
<1>13. op'[Proposee]["call"] = op[Proposee]["call"]
  BY <1>1, <1>11
<1>14. FundInv'
  <2>1. CASE p = Proposee
    BY <1>5, <1>9, <1>11, <2>1 DEF FundInv
  <2>2. CASE p # Proposee
    <3>1. op'[Proposee]["open"] = op[Proposee]["open"]
      BY <1>1, <1>11, <2>2
    <3> QED BY <1>1, <1>8, <1>9, <1>13, <2>2, <3>1 DEF IInv, FundInv, CurKept
  <2> QED BY <2>1, <2>2
<1>15. PeerInv'
  <2>1. CASE p = Proposee
    <3>1. op'[Proposer]["open"] = op[Proposer]["open"]
      BY <1>1, <1>11, <2>1
    <3>2. ~Unready' /\ ~NotBegun(Proposee) /\ ~NotBegun(Proposee)'
      BY <1>2, <1>5, <1>11, <2>1 DEF Unready, NotBegun
    <3>3. NoAlloc'
      BY <1>2, <1>11, <2>1 DEF IInv, PeerInv, Unready
    <3>4. ~NotBegun(Proposer)'
      BY <3>1, <3>2 DEF IInv, PeerInv, NotBegun
    <3>5. \A m \in net' : m.type # "proposal"
      BY <1>10, <3>2 DEF IInv, PeerInv
    <3> QED BY <3>2, <3>3, <3>4, <3>5 DEF PeerInv
  <2>2. CASE p = Proposer
    <3>1. op'[Proposee]["open"] = op[Proposee]["open"]
      BY <1>1, <1>11, <2>2
    <3>2. NoAlloc' /\ ~NotBegun(Proposer)' /\ op'[Proposer]["open"].pc # "fund"
      BY <1>2, <1>5, <1>11, <2>2 DEF IInv, PeerInv, Before, NotBegun
    <3>3. Msg("sig0", Proposer, Sub, InitSub) \in net' => Msg("sig0", Proposer, Sub, InitSub) \in net
      BY <1>1, <1>2, <2>2, MsgFacts, Names
    <3>4. Unready' <=> Unready
      BY <3>1 DEF Unready, NotBegun
    <3>5. NotBegun(Proposee)' <=> NotBegun(Proposee)
      BY <3>1 DEF NotBegun
    <3> QED BY <1>10, <3>2, <3>3, <3>4, <3>5 DEF IInv, PeerInv
  <2> QED BY <1>1, <2>1, <2>2
<1> QED BY <1>11, <1>12, <1>14, <1>15 DEF IInv

\* The signature of the peer has arrived.
LEMMA initExchangeSigsAndEnableStep ==
  ASSUME IInv, NEW p \in Parties, initExchangeSigsAndEnable(p)
  PROVE  IInv'
<1>1. Proposee \in Parties /\ Proposer \in Parties /\ "open" \in Goroutines
      /\ "call" \in Goroutines /\ Proposer # Proposee /\ Sub \in Channels /\ Parent \in Channels
      /\ Parent # Sub /\ p \in {Proposer, Proposee}
  BY Names
<1>2. /\ op[p]["open"].pc = "sigs" /\ UNCHANGED <<handler, ui, channels, dropped>>
  BY DEF initExchangeSigsAndEnable
<1>3. op[p]["open"].op = "open" /\ op[p]["open"].res = "none"
  BY <1>2 DEF IInv, GoInv, OpenInv
<1>4. CASE Return(p, "open", "err") /\ UNCHANGED <<mach, net>>
  <2>1. CurKept
    BY <1>4, SameMach DEF IInv, Shape
  <2> QED BY <1>2, <1>3, <1>4, <2>1, OpenReturn
<1>5. CASE /\ Msg("sig0", p, Sub, InitSub) \in net
           /\ net' = net \ {Msg("sig0", p, Sub, InitSub)}
           /\ mach' = [mach EXCEPT ![p][Sub].phase = "Funding"]
           /\ Goto(p, "open", "fund") /\ UNCHANGED lock
  <2>1. PICK o : o = op'[p]["open"]
    OBVIOUS
  <2>2. IsOp(o) /\ SetOp(p, "open", o) /\ o.op = "open" /\ o.pc = "fund" /\ o.res = "none"
    BY <1>1, <1>3, <1>5, <2>1, GotoFacts DEF IInv, Shape
  <2>3. o.pc \in OpenPcs(p) /\ LockKept(p, "open")
    BY <1>5, <2>2, SameLock DEF IInv, Shape, OpenPcs
  <2>4. SetPhase(p, {Sub}, "Funding")
    BY <1>1, <1>5 DEF SetPhase, IInv, Shape, MachShape
  <2>5. /\ MachShape'
        /\ \A q \in Parties, c \in Channels :
             /\ mach'[q][c].cur = mach[q][c].cur
             /\ q # p \/ c \notin {Sub} => mach'[q][c].phase = mach[q][c].phase
        /\ mach'[p][Sub].phase = "Funding"
    BY <1>1, <2>4, SetPhaseFacts DEF IInv, Shape
  <2>6. \A m \in net' : m \in net
    BY <1>5
  <2>7. UiShape' /\ ChannelsShape'
    BY <1>2 DEF IInv, Shape, UiShape, ChannelsShape
  <2>8. \A q \in Parties : mach'[q][Parent].cur = mach[q][Parent].cur
                           /\ mach'[q][Sub].cur = mach[q][Sub].cur
    BY <1>1, <2>5
  <2>9. /\ Shape' /\ States' /\ DropInv' /\ (NoAlloc => NoAlloc')
        /\ \A q \in Parties : GoInv(q)' /\ HandlerInv(q)'
        /\ op'[p]["open"] = o
        /\ \A q \in Parties, h \in Goroutines : q # p \/ h # "open" => op'[q][h] = op[q][h]
    BY <1>2, <1>3, <2>2, <2>3, <2>5, <2>6, <2>7, <2>8, OpenFrame
  <2>10. Opened(p)' /\ \A q \in Parties : q # p => (Opened(q)' <=> Opened(q))
    BY <1>1, <2>5 DEF Opened
  <2>11. ASSUME NEW q \in Parties PROVE OpeningInv(q)'
    <3>1. \A h \in Goroutines : op'[q][h].pc = "res" => op'[q][h] = op[q][h]
      BY <2>2, <2>9
    <3>2. CASE q = p
      BY <1>2, <2>2, <2>9, <2>10, <3>2 DEF IInv, OpeningInv, NotBegun
    <3>3. CASE q # p
      BY <1>1, <1>2, <2>8, <2>9, <2>10, <3>1, <3>3 DEF IInv, OpeningInv, NotBegun
    <3> QED BY <3>2, <3>3
  <2>12. op'[Proposee]["call"] = op[Proposee]["call"]
    BY <1>1, <2>9
  <2>13. FundInv'
    <3>1. CASE p = Proposee
      BY <1>2, <2>2, <2>9, <3>1 DEF IInv, FundInv
    <3>2. CASE p # Proposee
      <4>1. op'[Proposee]["open"] = op[Proposee]["open"]
        BY <1>1, <2>9, <3>2
      <4> QED BY <1>1, <1>2, <2>8, <2>12, <4>1 DEF IInv, FundInv
    <3> QED BY <3>1, <3>2
  <2>14. PeerInv'
    <3>1. CASE p = Proposee
      <4>1. op'[Proposer]["open"] = op[Proposer]["open"]
        BY <1>1, <2>9, <3>1
      <4> QED BY <1>2, <2>2, <2>6, <2>9, <3>1, <4>1 DEF IInv, PeerInv, Before, Unready, NotBegun
    <3>2. CASE p = Proposer
      <4>1. op'[Proposee]["open"] = op[Proposee]["open"]
        BY <1>1, <2>9, <3>2
      <4>2. ~Unready
        BY <1>5, <3>2 DEF IInv, PeerInv
      <4> QED BY <1>2, <2>2, <2>6, <2>9, <3>2, <4>1, <4>2
              DEF IInv, PeerInv, Before, Unready, NotBegun
    <3> QED BY <1>1, <3>1, <3>2
  <2> QED BY <2>9, <2>11, <2>13, <2>14 DEF IInv
<1> QED BY <1>4, <1>5 DEF initExchangeSigsAndEnable

\* The proposer asks for the funding.
LEMMA StageFunding ==
  ASSUME IInv, NEW s, op[Proposer]["open"].pc = "fund",
         s = updateBy(mach[Proposer][Parent].cur, fundSubChannel(mach[Proposer][Parent].cur)),
         updateGeneric(Proposer, "open", Parent, s),
         UNCHANGED <<lock, handler, ui, channels, dropped>>
  PROVE  IInv'
<1>1. Proposee \in Parties /\ Proposer \in Parties /\ "open" \in Goroutines
      /\ "call" \in Goroutines /\ "watch" \in Goroutines
      /\ Proposer # Proposee /\ Parent \in Channels /\ Parent # Sub
  BY Names
<1>2. op[Proposer]["open"].op = "open" /\ op[Proposer]["open"].res = "none"
  BY <1>1 DEF IInv, GoInv, OpenInv
<1>3. NoAlloc /\ ~Unready /\ Opened(Proposer)
  BY <1>1 DEF IInv, PeerInv, Before, OpeningInv
<1>4. OfParent(mach[Proposer][Parent].cur) /\ ~Alloc(mach[Proposer][Parent].cur)
  BY <1>1, <1>3 DEF NoAlloc, IInv, States
<1>5. OfParent(s) /\ OfChannel(Parent, s) /\ UpdateOf(op[Proposer]["open"]) = Parent
  BY <1>1, <1>2, <1>4, FundFacts DEF OfChannel, UpdateOf
<1>6. LockShape'
  BY DEF IInv, Shape, LockShape
<1>7. PICK w : w = Waiting(op[Proposer]["open"], s)
  OBVIOUS
<1>8. /\ w.op = "open" /\ w.pc = "res" /\ w.next = s /\ w.res = "none"
  BY <1>1, <1>2, <1>7, WaitingFacts DEF IInv, Shape, OpShape
<1>9. /\ Shape' /\ States' /\ CurKept
      /\ net' = net \cup {Msg("update", Peer(Proposer), Parent, s)}
      /\ op'[Proposer]["open"] = w
      /\ \A q \in Parties, h \in Goroutines : q # Proposer \/ h # "open" => op'[q][h] = op[q][h]
      /\ \A q \in Parties : HandlerInv(q)'
  BY <1>1, <1>2, <1>3, <1>5, <1>6, <1>7, StageFrame
<1>10. /\ op'[Proposee]["open"] = op[Proposee]["open"]
       /\ \A q \in Parties : op'[q]["call"] = op[q]["call"] /\ op'[q]["watch"] = op[q]["watch"]
  BY <1>1, <1>9
<1>11. ASSUME NEW q \in Parties PROVE GoInv(q)'
  <2>1. OpenInv(q)'
    <3>1. CASE q = Proposer
      BY <1>8, <1>9, <3>1 DEF OpenInv, OpenPcs
    <3>2. CASE q # Proposer
      BY <1>1, <1>9, <3>2 DEF IInv, GoInv, OpenInv
    <3> QED BY <3>1, <3>2
  <2>2. CallOK(q, op[q]["call"])' /\ WatchOK(op[q]["watch"])'
    BY <1>10 DEF IInv, GoInv, CallOK, WatchOK
  <2> QED BY <2>1, <2>2 DEF GoInv
<1>12. ASSUME NEW q \in Parties PROVE OpeningInv(q)'
  <2>1. CASE q = Proposer
    BY <1>3, <1>8, <1>9, <2>1 DEF IInv, OpeningInv, NotBegun, CurKept
  <2>2. CASE q # Proposer
    BY <1>1, <1>9, <2>2 DEF IInv, OpeningInv, NotBegun, CurKept
  <2> QED BY <2>1, <2>2
<1>13. FundInv'
  BY <1>1, <1>9, <1>10 DEF IInv, FundInv, CurKept
<1>14. PeerInv'
  <2>1. ~Before' /\ ~Unready' /\ ~NotBegun(Proposer)'
    BY <1>3, <1>8, <1>9, <1>10 DEF Before, Unready, NotBegun
  <2>2. \A m \in net' : m.type = "proposal" => m \in net
    BY <1>9, MsgFacts
  <2>3. \A m \in net : m.type # "proposal"
    BY <1>3 DEF IInv, PeerInv, Unready
  <2> QED BY <2>1, <2>2, <2>3 DEF PeerInv
<1>15. DropInv'
  BY <1>10 DEF IInv, DropInv
<1> QED BY <1>9, <1>11, <1>12, <1>13, <1>14, <1>15 DEF IInv

LEMMA fundSubchannelStep ==
  ASSUME IInv, NEW p \in Parties, fundSubchannel(p)
  PROVE  IInv'
<1>1. Proposee \in Parties /\ Proposer \in Parties /\ "open" \in Goroutines
      /\ "call" \in Goroutines /\ Proposer # Proposee
  BY Names
<1>2. /\ op[p]["open"].pc = "fund" /\ UNCHANGED <<handler, ui, channels, dropped>>
  BY DEF fundSubchannel
<1>3. op[p]["open"].op = "open" /\ op[p]["open"].res = "none"
  BY <1>2 DEF IInv, GoInv, OpenInv
<1>4. ASSUME NEW s, p = Proposer,
             s = updateBy(mach[p][Parent].cur, fundSubChannel(mach[p][Parent].cur)),
             updateGeneric(p, "open", Parent, s), UNCHANGED lock
      PROVE  IInv'
  BY <1>2, <1>4, StageFunding
<1>5. CASE Return(p, "open", "err") /\ UNCHANGED <<mach, net>>
  <2>1. CurKept
    BY <1>5, SameMach DEF IInv, Shape
  <2> QED BY <1>2, <1>3, <1>5, <2>1, OpenReturn
<1>6. CASE p = Proposee /\ Goto(p, "open", "intercept") /\ UNCHANGED <<mach, net, lock>>
  <2>1. PICK o : o = op'[p]["open"]
    OBVIOUS
  <2>2. IsOp(o) /\ SetOp(p, "open", o) /\ o.op = "open" /\ o.pc = "intercept" /\ o.res = "none"
    BY <1>1, <1>3, <1>6, <2>1, GotoFacts DEF IInv, Shape
  <2>3. LockKept(p, "open") /\ CurKept /\ o.pc \in OpenPcs(p)
    BY <1>1, <1>6, <2>2, SameLock, SameMach DEF IInv, Shape, OpenPcs
  <2>4. \A m \in net' : m \in net
    BY <1>6
  <2>5. /\ Shape' /\ States' /\ DropInv' /\ (NoAlloc => NoAlloc')
        /\ \A q \in Parties : GoInv(q)' /\ HandlerInv(q)'
        /\ op'[p]["open"] = o
        /\ \A q \in Parties, h \in Goroutines : q # p \/ h # "open" => op'[q][h] = op[q][h]
        /\ \A q \in Parties : q # p => OpeningInv(q)'
    BY <1>2, <1>3, <2>2, <2>3, <2>4, OpenFrame2
  <2>6. OpeningInv(p)'
    <3>1. \A h \in Goroutines : op'[p][h].pc = "res" => op'[p][h] = op[p][h]
      BY <1>1, <2>2, <2>5
    <3>2. OpeningInv(p)
      BY DEF IInv
    <3> QED BY <1>2, <2>2, <2>3, <2>5, <3>1, <3>2 DEF OpeningInv, NotBegun, CurKept
  <2>7. FundInv'
    BY <1>2, <1>6, <2>2, <2>5 DEF IInv, FundInv
  <2>8. PeerInv'
    <3>1. op'[Proposer]["open"] = op[Proposer]["open"]
      BY <1>1, <1>6, <2>5
    <3> QED BY <1>2, <1>6, <2>2, <2>4, <2>5, <3>1 DEF IInv, PeerInv, Before, Unready, NotBegun
  <2> QED BY <2>5, <2>6, <2>7, <2>8, Names DEF IInv
<1> QED BY <1>4, <1>5, <1>6 DEF fundSubchannel

LEMMA completeFundingStep ==
  ASSUME IInv, NEW p \in Parties, completeFunding(p)
  PROVE  IInv'
<1>1. Proposee \in Parties /\ Proposer \in Parties /\ "open" \in Goroutines
      /\ "call" \in Goroutines /\ Proposer # Proposee /\ Sub \in Channels /\ Parent \in Channels
      /\ p \in {Proposer, Proposee}
  BY Names
<1>2. /\ op[p]["open"].pc = "put" /\ SetPhase(p, {Sub}, "Acting") /\ Return(p, "open", "nil")
      /\ channels' = [channels EXCEPT ![p] = @ \cup {Sub}]
      /\ UNCHANGED <<handler, ui, net, dropped>>
  BY DEF completeFunding
<1>3. op[p]["open"].op = "open" /\ op[p]["open"].res = "none" /\ Opened(p)
  BY <1>2 DEF IInv, GoInv, OpenInv, OpeningInv
<1>4. PICK o : o = op'[p]["open"]
  OBVIOUS
<1>5. /\ LockKept(p, "open") /\ IsOp(o) /\ SetOp(p, "open", o)
      /\ o.op = "none" /\ o.pc = "idle" /\ o.res = "nil"
  BY <1>1, <1>2, <1>4, ReturnFacts DEF IInv, Shape
<1>6. CurKept
  BY <1>2, <1>3, PhaseStep DEF IInv, Shape
<1>7. /\ ChannelsShape' /\ \A q \in Parties : channels[q] \subseteq channels'[q]
      /\ \A q \in Parties : q # p => channels'[q] = channels[q]
  BY <1>1, <1>2 DEF IInv, Shape, ChannelsShape
<1>8. UiShape' /\ MachShape'
  BY <1>2, <1>6 DEF IInv, Shape, UiShape, CurKept
<1>9. /\ Shape' /\ States' /\ DropInv' /\ (NoAlloc => NoAlloc')
      /\ \A q \in Parties : GoInv(q)' /\ HandlerInv(q)'
      /\ op'[p]["open"] = o
      /\ \A q \in Parties, h \in Goroutines : q # p \/ h # "open" => op'[q][h] = op[q][h]
  BY <1>2, <1>3, <1>5, <1>6, <1>7, <1>8, OpenFrame DEF CurKept
<1>10. ASSUME NEW q \in Parties PROVE OpeningInv(q)'
  <2>1. \A h \in Goroutines : op'[q][h].pc = "res" => op'[q][h] = op[q][h]
    BY <1>5, <1>9
  <2>2. CASE q = p
    BY <1>3, <1>5, <1>6, <1>9, <2>2 DEF OpeningInv, NotBegun, CurKept
  <2>3. CASE q # p
    BY <1>1, <1>6, <1>7, <1>9, <2>1, <2>3 DEF IInv, OpeningInv, NotBegun, CurKept
  <2> QED BY <2>2, <2>3
<1>11. FundInv'
  <2>1. CASE p = Proposee
    BY <1>5, <1>9, <2>1 DEF FundInv
  <2>2. CASE p # Proposee
    <3>1. op'[Proposee]["open"] = op[Proposee]["open"] /\ op'[Proposee]["call"] = op[Proposee]["call"]
      BY <1>1, <1>9, <2>2
    <3> QED BY <1>1, <1>2, <1>6, <3>1 DEF IInv, FundInv, CurKept
  <2> QED BY <2>1, <2>2
<1>12. PeerInv'
  <2>1. CASE p = Proposee
    <3>1. op'[Proposer]["open"] = op[Proposer]["open"]
      BY <1>1, <1>9, <2>1
    <3> QED BY <1>2, <1>5, <1>9, <2>1, <3>1 DEF IInv, PeerInv, Before, Unready, NotBegun
  <2>2. CASE p = Proposer
    <3>1. op'[Proposee]["open"] = op[Proposee]["open"]
      BY <1>1, <1>9, <2>2
    <3> QED BY <1>2, <1>5, <1>9, <2>2, <3>1 DEF IInv, PeerInv, Before, Unready, NotBegun
  <2> QED BY <1>1, <2>1, <2>2
<1> QED BY <1>9, <1>10, <1>11, <1>12 DEF IInv

-----------------------------------------------------------------------------
(* Steps that change the current state of a channel *)

Enables(p, c, s) == mach' = [mach EXCEPT ![p][c] = Enabled(s)]

LEMMA EnableFacts ==
  ASSUME MachShape, States, NEW p \in Parties, NEW c \in Channels, NEW s, OfChannel(c, s),
         Enables(p, c, s), c = Sub => Opened(p)
  PROVE  /\ MachShape'
         /\ \A q \in Parties : OfParent(mach'[q][Parent].cur) /\ OfSub(mach'[q][Sub].cur)
         /\ \A q \in Parties : Opened(q)' <=> Opened(q)
         /\ \A q \in Parties : q # p \/ c # Parent => mach'[q][Parent].cur = mach[q][Parent].cur
         /\ c = Parent => mach'[p][Parent].cur = s
<1>1. Channels = {Parent, Sub} /\ Parent # Sub
  BY Names
<1>2. PICK e : e = Enabled(s)
  OBVIOUS
<1>3. e = [phase |-> e.phase, cur |-> e.cur] /\ e.cur = s /\ e.phase \notin {"none", "InitSigning"}
  BY <1>2 DEF Enabled
<1>4. mach' = [mach EXCEPT ![p][c] = e]
  BY <1>2 DEF Enables
<1>5. /\ mach'[p][c] = e
      /\ \A q \in Parties, d \in Channels : q # p \/ d # c => mach'[q][d] = mach[q][d]
      /\ mach' = [q \in Parties |-> [d \in Channels |-> mach'[q][d]]]
  <2>1. mach = [q \in Parties |-> [d \in Channels |-> mach[q][d]]]
    BY DEF MachShape
  <2> QED BY <1>4, <2>1
<1>6. \A q \in Parties, d \in Channels :
        mach'[q][d] = [phase |-> mach'[q][d].phase, cur |-> mach'[q][d].cur]
  <2> TAKE q \in Parties, d \in Channels
  <2>1. mach[q][d] = [phase |-> mach[q][d].phase, cur |-> mach[q][d].cur]
    BY DEF MachShape
  <2> QED BY <1>3, <1>5, <2>1
<1>7. MachShape'
  BY <1>5, <1>6 DEF MachShape
<1>8. \A q \in Parties : OfParent(mach'[q][Parent].cur) /\ OfSub(mach'[q][Sub].cur)
  BY <1>1, <1>3, <1>5 DEF States, OfChannel
<1>9. \A q \in Parties : Opened(q)' <=> Opened(q)
  BY <1>1, <1>3, <1>5 DEF Opened
<1>10. /\ \A q \in Parties : q # p \/ c # Parent => mach'[q][Parent].cur = mach[q][Parent].cur
       /\ c = Parent => mach'[p][Parent].cur = s
  BY <1>1, <1>3, <1>5
<1> QED BY <1>7, <1>8, <1>9, <1>10

\* The response is an acceptance of what was proposed.
LEMMA RecvAcc ==
  ASSUME IInv, NEW p \in Parties, NEW g \in {"open", "call"}, op[p][g].pc = "res",
         Enables(p, UpdateOf(op[p][g]), op[p][g].next),
         Goto(p, g, AfterUpdate(op[p][g])), net' \subseteq net,
         UNCHANGED <<lock, handler, ui, channels, dropped>>
  PROVE  IInv'
<1>1. Proposee \in Parties /\ Proposer \in Parties /\ "open" \in Goroutines
      /\ "call" \in Goroutines /\ "watch" \in Goroutines /\ Proposer # Proposee
      /\ Channels = {Parent, Sub} /\ Parent # Sub /\ g \in Goroutines
  BY Names
<1>2. PICK o : o = op[p][g]
  OBVIOUS
<1>3. PICK c : c = UpdateOf(o)
  OBVIOUS
<1>4. PICK s : s = o.next
  OBVIOUS
<1>5. PICK pc : pc = AfterUpdate(o)
  OBVIOUS
<1>6. /\ g = "open" => o.op = "open" /\ o.res = "none" /\ p = Proposer /\ pc = "put"
      /\ g = "call" => \/ o.op = "update" /\ pc = "end" /\ o.ch \in Channels
                       \/ o.op = "settle" /\ pc = "withdrawn"
  BY <1>1, <1>2, <1>5 DEF IInv, GoInv, OpenInv, OpenPcs, CallOK, AfterUpdate
<1>7. c \in Channels /\ OfChannel(c, s) /\ (c = Sub => Opened(p)) /\ (Alloc(s) => Opened(p))
  <2>1. c \in Channels
    BY <1>1, <1>3, <1>6 DEF UpdateOf
  <2>2. OfChannel(c, s) /\ (Alloc(s) => Opened(p))
    BY <1>1, <1>2, <1>3, <1>4 DEF IInv, States, OpeningInv
  <2>3. c = Sub => g = "call" /\ Sub \in channels[p]
    BY <1>1, <1>2, <1>3, <1>6 DEF IInv, GoInv, CallOK, UpdateOf
  <2> QED BY <2>1, <2>2, <2>3 DEF IInv, OpeningInv
<1>8. /\ MachShape'
      /\ \A q \in Parties : OfParent(mach'[q][Parent].cur) /\ OfSub(mach'[q][Sub].cur)
      /\ \A q \in Parties : Opened(q)' <=> Opened(q)
      /\ \A q \in Parties : q # p \/ c # Parent => mach'[q][Parent].cur = mach[q][Parent].cur
      /\ c = Parent => mach'[p][Parent].cur = s
  BY <1>2, <1>3, <1>4, <1>7, EnableFacts DEF IInv, Shape
<1>9. PICK n : n = op'[p][g]
  OBVIOUS
<1>10. /\ OpShape' /\ n.op = o.op /\ n.ch = o.ch /\ n.pc = pc /\ n.res = o.res
       /\ \A q \in Parties, h \in Goroutines : q # p \/ h # g => op'[q][h] = op[q][h]
  BY <1>1, <1>2, <1>5, <1>9, GotoFacts DEF IInv, Shape
<1>11. n.pc # "res" /\ n.pc # "idle"
  BY <1>6, <1>10
<1>12. \A q \in Parties, h \in Goroutines : op'[q][h].pc = "res" => op'[q][h] = op[q][h]
  BY <1>9, <1>10, <1>11
<1>13. Shape'
  BY <1>8, <1>10 DEF IInv, Shape, LockShape, HandlerShape, UiShape, ChannelsShape
<1>14. States'
  <2>1. ASSUME NEW q \in Parties, NEW h \in Goroutines, op'[q][h].pc = "res"
        PROVE  OfChannel(UpdateOf(op[q][h]), op[q][h].next)'
    BY <1>12, <2>1 DEF IInv, States
  <2> QED BY <1>8, <2>1 DEF IInv, States
<1>15. ASSUME NEW q \in Parties PROVE GoInv(q)'
  <2>1. OpenInv(q)'
    <3>1. CASE q = p /\ g = "open"
      BY <1>6, <1>9, <1>10, <3>1 DEF OpenInv, OpenPcs
    <3>2. CASE ~(q = p /\ g = "open")
      <4>1. op'[q]["open"] = op[q]["open"]
        BY <1>1, <1>10, <3>2
      <4> QED BY <4>1 DEF IInv, GoInv, OpenInv
    <3> QED BY <3>1, <3>2
  <2>2. CallOK(q, op[q]["call"])'
    <3>1. CallOK(q, op[q]["call"])
      BY DEF IInv, GoInv
    <3>2. CASE q = p /\ g = "call"
      <4>1. CallOK(p, n)'
        BY <1>2, <1>6, <1>10, <3>1, <3>2 DEF CallOK
      <4> QED BY <1>9, <3>2, <4>1
    <3>3. CASE ~(q = p /\ g = "call")
      <4>1. op'[q]["call"] = op[q]["call"]
        BY <1>1, <1>10, <3>3
      <4> QED BY <3>1, <4>1 DEF CallOK
    <3> QED BY <3>2, <3>3
  <2>3. WatchOK(op[q]["watch"])'
    BY <1>1, <1>10 DEF IInv, GoInv, WatchOK
  <2> QED BY <2>1, <2>2, <2>3 DEF GoInv
<1>16. op'[Proposee]["open"] = op[Proposee]["open"]
  BY <1>1, <1>6, <1>10
<1>17. ASSUME NEW q \in Parties PROVE OpeningInv(q)'
  <2>1. Alloc(mach'[q][Parent].cur) => Opened(q)
    BY <1>1, <1>7, <1>8 DEF IInv, OpeningInv
  <2>2. CASE q = p /\ g = "open"
    <3>1. op'[q]["open"].pc = "put" /\ Opened(q) /\ Sub \notin channels[q]
      BY <1>2, <1>6, <1>9, <1>10, <2>2 DEF IInv, OpeningInv
    <3> QED BY <1>8, <1>12, <2>1, <3>1 DEF IInv, OpeningInv, NotBegun
  <2>3. CASE ~(q = p /\ g = "open")
    <3>1. op'[q]["open"] = op[q]["open"]
      BY <1>1, <1>10, <2>3
    <3> QED BY <1>8, <1>12, <2>1, <3>1 DEF IInv, OpeningInv, NotBegun
  <2> QED BY <2>2, <2>3
<1>18. \A q \in Parties : HandlerInv(q)'
  BY DEF IInv, HandlerInv
<1>19. FundInv'
  <2>1. ASSUME op[Proposee]["open"].pc \in {"respond", "put"}
        PROVE  Alloc(mach'[Proposee][Parent].cur)
    <3>1. CASE p = Proposee /\ c = Parent
      <4>1. g = "call" /\ Alloc(s)
        BY <1>1, <1>2, <1>4, <1>6, <2>1, <3>1 DEF IInv, FundInv
      <4> QED BY <1>8, <3>1, <4>1
    <3>2. CASE ~(p = Proposee /\ c = Parent)
      BY <1>1, <1>8, <2>1, <3>2 DEF IInv, FundInv
    <3> QED BY <3>1, <3>2
  <2> QED BY <1>1, <1>12, <1>16, <2>1 DEF IInv, FundInv
<1>20. NoAlloc => NoAlloc'
  <2> SUFFICES ASSUME NoAlloc PROVE NoAlloc'
    OBVIOUS
  <2>1. ~Alloc(s)
    BY <1>1, <1>2, <1>4 DEF NoAlloc
  <2>2. \A q \in Parties : ~Alloc(mach'[q][Parent].cur)
    BY <1>8, <2>1 DEF NoAlloc
  <2> QED BY <1>12, <2>2 DEF NoAlloc
<1>21. PeerInv'
  <2>1. CASE g = "open"
    <3>1. /\ op[Proposer]["open"].pc = "res" /\ op'[Proposer]["open"].pc = "put"
      BY <1>2, <1>6, <1>9, <1>10, <2>1
    <3> QED BY <1>16, <1>20, <3>1 DEF IInv, PeerInv, Before, Unready, NotBegun
  <2>2. CASE g = "call"
    <3>1. op'[Proposer]["open"] = op[Proposer]["open"]
      BY <1>1, <1>10, <2>2
    <3> QED BY <1>16, <1>20, <3>1 DEF IInv, PeerInv, Before, Unready, NotBegun
  <2> QED BY <2>1, <2>2
<1>22. DropInv'
  BY <1>16 DEF IInv, DropInv
<1> QED BY <1>13, <1>14, <1>15, <1>17, <1>18, <1>19, <1>21, <1>22 DEF IInv

LEMMA RecvResponseStep ==
  ASSUME IInv, NEW p \in Parties, NEW g \in Goroutines, RecvResponse(p, g)
  PROVE  IInv'
<1>1. /\ op[p][g].pc = "res" /\ net' \subseteq net
      /\ UNCHANGED <<handler, ui, channels, dropped>>
  BY DEF RecvResponse
<1>2. g \in {"open", "call"}
  BY <1>1, Names DEF IInv, GoInv, WatchOK
<1>3. CASE /\ Enables(p, UpdateOf(op[p][g]), op[p][g].next)
           /\ Goto(p, g, AfterUpdate(op[p][g])) /\ UNCHANGED lock
  BY <1>1, <1>2, <1>3, RecvAcc
<1>4. CASE SetPhase(p, {UpdateOf(op[p][g])}, "Acting") /\ Return(p, g, "err")
  <2>1. UpdateOf(op[p][g]) = Sub => Opened(p)
    BY <1>1, <1>2, Names DEF IInv, GoInv, OpenInv, CallOK, OpeningInv, UpdateOf
  <2>2. CurKept
    BY <1>4, <2>1, PhaseStep DEF IInv, Shape
  <2>3. CASE g = "call"
    BY <1>1, <1>4, <2>2, <2>3, CallReturn
  <2>4. CASE g = "open"
    <3>1. op[p]["open"].op = "open"
      BY <1>1, <2>4 DEF IInv, GoInv, OpenInv
    <3> QED BY <1>1, <1>4, <2>2, <2>4, <3>1, OpenReturn
  <2> QED BY <1>2, <2>3, <2>4
<1> QED BY <1>1, <1>3, <1>4 DEF RecvResponse, Enables

-----------------------------------------------------------------------------
(* The interceptors *)

LEMMA InterceptorFacts ==
  ASSUME IInv, NEW p \in Parties, NEW g \in Goroutines,
         op[p][g].pc \in {"intercept", "respond"}
  PROVE  \/ /\ g = "open" /\ p = Proposee /\ InterceptorOf(op[p][g]) = "fund"
            /\ op[p][g].op = "open" /\ op[p][g].res = "none" /\ Opened(p)
            /\ Sub \notin channels[p]
         \/ /\ g = "call" /\ InterceptorOf(op[p][g]) = "settle"
            /\ op[p][g].op = "settle" /\ op[p][g].ch = Sub
            /\ Sub \in channels[p] /\ op[p]["open"].pc = "idle" /\ op[p]["open"].res # "none"
<1>1. Parties = {Proposer, Proposee} /\ Goroutines = {"open", "call", "watch"}
  BY Names
<1>2. CASE g = "open"
  BY <1>1, <1>2 DEF IInv, GoInv, OpenInv, OpenPcs, OpeningInv, InterceptorOf
<1>3. CASE g = "call"
  BY <1>3 DEF IInv, GoInv, CallOK, OpeningInv, InterceptorOf
<1>4. g # "watch"
  BY DEF IInv, GoInv, WatchOK
<1> QED BY <1>1, <1>2, <1>3, <1>4

\* The call at an interceptor leaves it: it fails, or the handler has its response.
LEMMA InterceptStep ==
  ASSUME IInv, NEW p \in Parties, NEW g \in Goroutines, NEW n, IsOp(n), SetOp(p, g, n),
         op[p][g].pc \in {"intercept", "respond"}, n.pc # "res",
         g = "call" => CallOK(p, n)',
         g = "open" => \/ n.op = "none" /\ n.pc = "idle" /\ n.res = "err"
                       \/ n.op = "open" /\ n.pc = "put" /\ n.res = "none"
                          /\ op[p][g].pc = "respond",
         UNCHANGED <<mach, net, channels, dropped>>,
         HandlerShape', LockShape', UiShape',
         \A q \in Parties : HandlerInv(q)' /\ OfParent(handler'[q].req),
         \A q \in Parties : Alloc(handler'[q].req) => Alloc(handler[q].req),
         \A q \in Parties, c \in Channels :
           lock[q][c] = "call" /\ ~(q = p /\ g = "call") => lock'[q][c] = "call",
         g # "open" => ui'[Proposee].fund = ui[Proposee].fund
  PROVE  IInv'
<1>1. Proposee \in Parties /\ Proposer \in Parties /\ "open" \in Goroutines
      /\ "call" \in Goroutines /\ "watch" \in Goroutines /\ Proposer # Proposee
  BY Names
<1>2. g \in {"open", "call"} /\ (g = "open" => p = Proposee /\ Opened(p) /\ Sub \notin channels[p])
  BY InterceptorFacts
<1>3. /\ OpShape' /\ op'[p][g] = n
      /\ \A q \in Parties, h \in Goroutines : q # p \/ h # g => op'[q][h] = op[q][h]
  BY OpFacts DEF IInv, Shape
<1>4. \A q \in Parties, h \in Goroutines : op'[q][h].pc = "res" => op'[q][h] = op[q][h]
  BY <1>3
<1>5. Shape'
  BY <1>3 DEF IInv, Shape, MachShape, ChannelsShape
<1>6. States'
  <2>1. ASSUME NEW q \in Parties, NEW h \in Goroutines, op'[q][h].pc = "res"
        PROVE  OfChannel(UpdateOf(op[q][h]), op[q][h].next)'
    BY <1>4, <2>1 DEF IInv, States
  <2> QED BY <2>1 DEF IInv, States
<1>7. ASSUME NEW q \in Parties PROVE GoInv(q)'
  <2>1. OpenInv(q)'
    <3>1. CASE q = p /\ g = "open"
      BY <1>1, <1>2, <1>3, <3>1 DEF OpenInv, OpenPcs
    <3>2. CASE ~(q = p /\ g = "open")
      <4>1. op'[q]["open"] = op[q]["open"]
        BY <1>1, <1>3, <3>2
      <4> QED BY <4>1 DEF IInv, GoInv, OpenInv
    <3> QED BY <3>1, <3>2
  <2>2. CallOK(q, op[q]["call"])'
    <3>1. CASE q = p /\ g = "call"
      BY <1>3, <3>1
    <3>2. CASE ~(q = p /\ g = "call")
      <4>1. op'[q]["call"] = op[q]["call"] /\ CallOK(q, op[q]["call"])
        BY <1>1, <1>3, <3>2 DEF IInv, GoInv
      <4>2. \A c \in Channels : lock[q][c] = "call" => lock'[q][c] = "call"
        BY <3>2
      <4> QED BY <4>1, <4>2 DEF CallOK
    <3> QED BY <3>1, <3>2
  <2>3. WatchOK(op[q]["watch"])'
    BY <1>1, <1>2, <1>3 DEF IInv, GoInv, WatchOK
  <2> QED BY <2>1, <2>2, <2>3 DEF GoInv
<1>8. ASSUME NEW q \in Parties PROVE OpeningInv(q)'
  <2>1. Opened(q)' <=> Opened(q)
    BY DEF Opened
  <2>2. CASE q = p /\ g = "open"
    BY <1>2, <1>3, <1>4, <2>1, <2>2 DEF IInv, OpeningInv, NotBegun
  <2>3. CASE ~(q = p /\ g = "open")
    <3>1. op'[q]["open"] = op[q]["open"]
      BY <1>1, <1>3, <2>3
    <3> QED BY <1>4, <2>1, <3>1 DEF IInv, OpeningInv, NotBegun
  <2> QED BY <2>2, <2>3
<1>9. FundInv'
  <2>1. CASE g = "open"
    <3>1. op'[Proposee]["open"] = n /\ op'[Proposee]["call"] = op[Proposee]["call"]
      BY <1>1, <1>2, <1>3, <2>1
    <3>2. CASE n.pc = "idle"
      BY <3>1, <3>2 DEF FundInv
    <3>3. CASE n.pc = "put" /\ op[p][g].pc = "respond"
      BY <1>2, <2>1, <3>1, <3>3 DEF IInv, FundInv
    <3> QED BY <2>1, <3>2, <3>3
  <2>2. CASE g = "call"
    <3>1. op'[Proposee]["open"] = op[Proposee]["open"]
      BY <1>1, <1>3, <2>2
    <3> QED BY <1>1, <1>4, <2>2, <3>1 DEF IInv, FundInv
  <2> QED BY <1>2, <2>1, <2>2
<1>10. NoAlloc => NoAlloc'
  BY <1>4 DEF NoAlloc
<1>11. op'[Proposer]["open"] = op[Proposer]["open"]
  BY <1>1, <1>2, <1>3
<1>12. PeerInv'
  <2>1. CASE g = "open"
    <3>1. op'[Proposee]["open"] = n
      BY <1>2, <1>3, <2>1
    <3> QED BY <1>2, <1>10, <1>11, <2>1, <3>1 DEF IInv, PeerInv, Before, Unready, NotBegun
  <2>2. CASE g = "call"
    <3>1. op'[Proposee]["open"] = op[Proposee]["open"]
      BY <1>1, <1>3, <2>2
    <3> QED BY <1>10, <1>11, <3>1 DEF IInv, PeerInv, Before, Unready, NotBegun
  <2> QED BY <1>2, <2>1, <2>2
<1>13. DropInv'
  <2>1. CASE g = "open"
    <3>1. op[Proposee]["open"].res = "none"
      BY <1>2, <2>1, InterceptorFacts
    <3> QED BY <3>1 DEF IInv, DropInv
  <2>2. CASE g = "call"
    <3>1. op'[Proposee]["open"] = op[Proposee]["open"]
      BY <1>1, <1>3, <2>2
    <3> QED BY <3>1 DEF IInv, DropInv
  <2> QED BY <1>2, <2>1, <2>2
<1> QED BY <1>5, <1>6, <1>7, <1>8, <1>9, <1>12, <1>13 DEF IInv

\* An interceptor is forgotten.
Forgets(p, u) == ui' = [ui EXCEPT ![p][u] = <<>>]
LEMMA ForgetFacts ==
  ASSUME UiShape, NEW p \in Parties, NEW u \in {"fund", "settle"}, Forgets(p, u)
  PROVE  UiShape' /\ (u # "fund" => \A q \in Parties : ui'[q].fund = ui[q].fund)
<1>1. \A q \in Parties : ui[q] = [fund |-> ui[q].fund, settle |-> ui[q].settle]
  BY DEF UiShape
<1>2. ui' = [q \in Parties |-> ui'[q]] /\ \A q \in Parties : q # p => ui'[q] = ui[q]
  BY DEF UiShape, Forgets
<1>3. ui'[p] = [ui[p] EXCEPT ![u] = <<>>]
  BY DEF UiShape, Forgets
<1>4. CASE u = "fund"
  <2>1. ui'[p] = [fund |-> <<>>, settle |-> ui[p].settle]
    BY <1>1, <1>3, <1>4
  <2>2. \A q \in Parties : ui'[q] = [fund |-> ui'[q].fund, settle |-> ui'[q].settle]
    BY <1>1, <1>2, <2>1
  <2> QED BY <1>2, <1>4, <2>2 DEF UiShape
<1>5. CASE u = "settle"
  <2>1. ui'[p] = [fund |-> ui[p].fund, settle |-> <<>>]
    BY <1>1, <1>3, <1>5
  <2>2. \A q \in Parties : ui'[q] = [fund |-> ui'[q].fund, settle |-> ui'[q].settle]
    BY <1>1, <1>2, <2>1
  <2>3. \A q \in Parties : ui'[q].fund = ui[q].fund
    BY <1>2, <2>1
  <2> QED BY <1>2, <2>2, <2>3 DEF UiShape
<1> QED BY <1>4, <1>5

\* The handler returns.
HandlerEnds(p) == handler' = [handler EXCEPT ![p] = NoHandler]
LEMMA HandlerEndFacts ==
  ASSUME IInv, NEW p \in Parties, HandlerEnds(p), LockShape',
         \A q \in Parties : q # p /\ lock[q][Parent] = "handler" => lock'[q][Parent] = "handler"
  PROVE  /\ HandlerShape'
         /\ \A q \in Parties : HandlerInv(q)' /\ OfParent(handler'[q].req)
         /\ \A q \in Parties : Alloc(handler'[q].req) => Alloc(handler[q].req)
<1>1. PICK h : h = NoHandler /\ h.pc = "none" /\ h.req = InitSub
                /\ h = [pc |-> h.pc, ui |-> h.ui, req |-> h.req, orphan |-> h.orphan]
  BY NoOpFacts
<1>2. handler'[p] = h /\ (\A q \in Parties : q # p => handler'[q] = handler[q])
      /\ handler' = [q \in Parties |-> handler'[q]]
  BY <1>1 DEF IInv, Shape, HandlerShape, HandlerEnds
<1>3. \A q \in Parties :
        handler'[q] = [pc |-> handler'[q].pc, ui |-> handler'[q].ui,
                       req |-> handler'[q].req, orphan |-> handler'[q].orphan]
  <2> TAKE q \in Parties
  <2>1. handler[q] = [pc |-> handler[q].pc, ui |-> handler[q].ui,
                      req |-> handler[q].req, orphan |-> handler[q].orphan]
    BY DEF IInv, Shape, HandlerShape
  <2> QED BY <1>1, <1>2, <2>1
<1>4. HandlerShape'
  BY <1>2, <1>3 DEF HandlerShape
<1>5. ASSUME NEW q \in Parties
      PROVE  HandlerInv(q)' /\ OfParent(handler'[q].req)
             /\ (Alloc(handler'[q].req) => Alloc(handler[q].req))
  <2>1. CASE q = p
    BY <1>1, <1>2, <2>1, InitSubFacts DEF HandlerInv
  <2>2. CASE q # p
    BY <1>2, <2>2 DEF IInv, HandlerInv, States
  <2> QED BY <2>1, <2>2
<1> QED BY <1>4, <1>5

LEMMA respondInterceptedStep ==
  ASSUME IInv, NEW p \in Parties, NEW g \in Goroutines, respondIntercepted(p, g)
  PROVE  IInv'
<1>1. /\ op[p][g].pc = "respond" /\ HandlerEnds(p)
      /\ lock' = [lock EXCEPT ![p][Parent] = IF @ = "handler" THEN "free" ELSE @]
      /\ Forgets(p, InterceptorOf(op[p][g])) /\ Goto(p, g, AfterUpdate(op[p][g]))
      /\ UNCHANGED <<mach, channels, net, dropped>>
  BY DEF respondIntercepted, HandlerEnds, Forgets
<1>2. Parent \in Channels
  BY Names
<1>3. /\ LockShape'
      /\ \A q \in Parties, c \in Channels :
           /\ q # p => lock'[q][c] = lock[q][c]
           /\ lock[q][c] = "call" => lock'[q][c] = "call"
  BY <1>1, <1>2 DEF IInv, Shape, LockShape
<1>4. /\ HandlerShape'
      /\ \A q \in Parties : HandlerInv(q)' /\ OfParent(handler'[q].req)
      /\ \A q \in Parties : Alloc(handler'[q].req) => Alloc(handler[q].req)
  BY <1>1, <1>2, <1>3, HandlerEndFacts
<1>5. PICK n : n = op'[p][g]
  OBVIOUS
<1>6. /\ IsOp(n) /\ SetOp(p, g, n) /\ n.op = op[p][g].op /\ n.ch = op[p][g].ch
      /\ n.pc = AfterUpdate(op[p][g]) /\ n.res = op[p][g].res
  BY <1>1, <1>5, GotoFacts DEF IInv, Shape
<1>7. CASE g = "open"
  <2>1. InterceptorOf(op[p][g]) = "fund" /\ n.op = "open" /\ n.res = "none" /\ n.pc = "put"
    BY <1>1, <1>6, <1>7, InterceptorFacts DEF AfterUpdate
  <2>2. UiShape'
    BY <1>1, <2>1, ForgetFacts DEF IInv, Shape
  <2> QED BY <1>1, <1>3, <1>4, <1>6, <1>7, <2>1, <2>2, InterceptStep
<1>8. CASE g = "call"
  <2>1. /\ InterceptorOf(op[p][g]) = "settle" /\ n.op = "settle" /\ n.pc = "withdrawn"
        /\ n.ch = Sub /\ Sub \in channels[p] /\ Sub \in Channels
    BY <1>1, <1>6, <1>8, InterceptorFacts, Names DEF AfterUpdate
  <2>2. UiShape' /\ ui'[Proposee].fund = ui[Proposee].fund
    BY <1>1, <2>1, ForgetFacts, Names DEF IInv, Shape
  <2>3. CallOK(p, n)'
    BY <1>1, <2>1 DEF CallOK
  <2> QED BY <1>1, <1>3, <1>4, <1>6, <1>8, <2>1, <2>2, <2>3, InterceptStep
<1> QED BY <1>1, <1>7, <1>8, InterceptorFacts

\* A change of the handler that leaves its interceptor and its update alone.
HandlerKept(p) ==
  /\ HandlerShape'
  /\ \A q \in Parties : handler'[q].req = handler[q].req /\ handler'[q].ui = handler[q].ui
  /\ \A q \in Parties : q # p => handler'[q].pc = handler[q].pc

Orphans(p, b) == handler' = [handler EXCEPT ![p].orphan = b]
LEMMA OrphanFacts ==
  ASSUME HandlerShape, NEW p \in Parties, NEW b, Orphans(p, b)
  PROVE  HandlerKept(p) /\ handler'[p].pc = handler[p].pc
<1>1. \A q \in Parties : handler[q] = [pc |-> handler[q].pc, ui |-> handler[q].ui,
                                       req |-> handler[q].req, orphan |-> handler[q].orphan]
  BY DEF HandlerShape
<1>2. handler'[p] = [handler[p] EXCEPT !.orphan = b] /\ handler' = [q \in Parties |-> handler'[q]]
      /\ \A q \in Parties : q # p => handler'[q] = handler[q]
  BY DEF HandlerShape, Orphans
<1>3. handler'[p] = [pc |-> handler[p].pc, ui |-> handler[p].ui,
                     req |-> handler[p].req, orphan |-> b]
  BY <1>1, <1>2
<1>4. \A q \in Parties : handler'[q] = [pc |-> handler'[q].pc, ui |-> handler'[q].ui,
                                        req |-> handler'[q].req, orphan |-> handler'[q].orphan]
  BY <1>1, <1>2, <1>3
<1> QED BY <1>2, <1>3, <1>4 DEF HandlerKept, HandlerShape

Responds(p) == handler' = [handler EXCEPT ![p].pc = "response"]
LEMMA RespondFacts ==
  ASSUME HandlerShape, NEW p \in Parties, Responds(p)
  PROVE  HandlerKept(p) /\ handler'[p].pc = "response"
<1>1. \A q \in Parties : handler[q] = [pc |-> handler[q].pc, ui |-> handler[q].ui,
                                       req |-> handler[q].req, orphan |-> handler[q].orphan]
  BY DEF HandlerShape
<1>2. handler'[p] = [handler[p] EXCEPT !.pc = "response"] /\ handler' = [q \in Parties |-> handler'[q]]
      /\ \A q \in Parties : q # p => handler'[q] = handler[q]
  BY DEF HandlerShape, Responds
<1>3. handler'[p] = [pc |-> "response", ui |-> handler[p].ui,
                     req |-> handler[p].req, orphan |-> handler[p].orphan]
  BY <1>1, <1>2
<1>4. \A q \in Parties : handler'[q] = [pc |-> handler'[q].pc, ui |-> handler'[q].ui,
                                        req |-> handler'[q].req, orphan |-> handler'[q].orphan]
  BY <1>1, <1>2, <1>3
<1> QED BY <1>2, <1>3, <1>4 DEF HandlerKept, HandlerShape

\* The call at the interceptor fails, with or without its handler.
LEMMA InterceptFails ==
  ASSUME IInv, NEW p \in Parties, NEW g \in Goroutines, op[p][g].pc = "intercept",
         Forgets(p, InterceptorOf(op[p][g])), SetOp(p, g, [NoOp EXCEPT !.res = "err"]),
         UNCHANGED <<mach, net, channels, dropped>>, HandlerShape', LockShape',
         \A q \in Parties : HandlerInv(q)' /\ OfParent(handler'[q].req),
         \A q \in Parties : Alloc(handler'[q].req) => Alloc(handler[q].req),
         \A q \in Parties, c \in Channels :
           lock[q][c] = "call" /\ ~(q = p /\ g = "call") => lock'[q][c] = "call"
  PROVE  IInv'
<1>1. PICK n : n = [NoOp EXCEPT !.res = "err"]
  OBVIOUS
<1>2. IsOp(n) /\ n.op = "none" /\ n.pc = "idle" /\ n.res = "err"
  BY <1>1, Returned
<1>3. SetOp(p, g, n) /\ CallOK(p, n)'
  BY <1>1, <1>2 DEF CallOK
<1>4. g \in {"open", "call"} /\ InterceptorOf(op[p][g]) \in {"fund", "settle"}
      /\ (g # "open" => InterceptorOf(op[p][g]) # "fund")
  BY InterceptorFacts
<1>5. UiShape' /\ (g # "open" => ui'[Proposee].fund = ui[Proposee].fund)
  BY <1>4, ForgetFacts, Names DEF IInv, Shape
<1> QED BY <1>2, <1>3, <1>4, <1>5, InterceptStep

\* Accept takes the update of the handler: the parent is funded, or settled.
LEMMA AcceptTakes ==
  ASSUME IInv, NEW p \in Parties, NEW g \in Goroutines, op[p][g].pc = "intercept",
         handler[p].pc = "send", handler[p].ui = InterceptorOf(op[p][g]),
         Enables(p, Parent, handler[p].req), Responds(p), Goto(p, g, "respond"),
         net' = net \cup {Msg("acc", Peer(p), Parent, handler[p].req)},
         UNCHANGED <<lock, ui, channels, dropped>>
  PROVE  IInv'
<1>1. Proposee \in Parties /\ Proposer \in Parties /\ "open" \in Goroutines
      /\ "call" \in Goroutines /\ "watch" \in Goroutines /\ Proposer # Proposee
      /\ Parent \in Channels /\ Parent # Sub
  BY Names
<1>2. PICK s : s = handler[p].req
  OBVIOUS
<1>3. \/ /\ g = "open" /\ p = Proposee /\ Alloc(s) /\ op[p][g].op = "open"
         /\ op[p][g].res = "none" /\ Opened(p) /\ Sub \notin channels[p]
      \/ /\ g = "call" /\ ~Alloc(s) /\ op[p][g].op = "settle" /\ op[p][g].ch = Sub
         /\ Sub \in channels[p] /\ op[p]["open"].pc = "idle" /\ op[p]["open"].res # "none"
  BY <1>2, InterceptorFacts DEF IInv, HandlerInv
<1>4. OfParent(s) /\ OfChannel(Parent, s)
  BY <1>1, <1>2 DEF IInv, States, OfChannel
<1>5. /\ MachShape'
      /\ \A q \in Parties : OfParent(mach'[q][Parent].cur) /\ OfSub(mach'[q][Sub].cur)
      /\ \A q \in Parties : Opened(q)' <=> Opened(q)
      /\ \A q \in Parties : q # p => mach'[q][Parent].cur = mach[q][Parent].cur
      /\ mach'[p][Parent].cur = s
  <2>1. Enables(p, Parent, s)
    BY <1>2
  <2> QED BY <1>1, <1>4, <2>1, EnableFacts DEF IInv, Shape
<1>6. PICK n : n = op'[p][g]
  OBVIOUS
<1>7. /\ OpShape' /\ n.op = op[p][g].op /\ n.ch = op[p][g].ch /\ n.pc = "respond"
      /\ n.res = op[p][g].res
      /\ \A q \in Parties, h \in Goroutines : q # p \/ h # g => op'[q][h] = op[q][h]
  BY <1>6, GotoFacts DEF IInv, Shape
<1>8. \A q \in Parties, h \in Goroutines : op'[q][h].pc = "res" => op'[q][h] = op[q][h]
  BY <1>6, <1>7
<1>9. HandlerKept(p) /\ handler'[p].pc = "response"
  BY RespondFacts DEF IInv, Shape
<1>10. Shape'
  BY <1>5, <1>7, <1>9 DEF IInv, Shape, LockShape, UiShape, ChannelsShape, HandlerKept
<1>11. \A m \in net' : m.type \in {"update", "sig0", "proposal"} => m \in net
  BY MsgFacts
<1>12. States'
  <2>1. ASSUME NEW q \in Parties, NEW h \in Goroutines, op'[q][h].pc = "res"
        PROVE  OfChannel(UpdateOf(op[q][h]), op[q][h].next)'
    BY <1>8, <2>1 DEF IInv, States
  <2>2. \A q \in Parties : OfParent(handler'[q].req)
    BY <1>9 DEF IInv, States, HandlerKept
  <2> QED BY <1>5, <1>11, <2>1, <2>2 DEF IInv, States
<1>13. ASSUME NEW q \in Parties PROVE GoInv(q)'
  <2>1. OpenInv(q)'
    <3>1. CASE q = p /\ g = "open"
      BY <1>1, <1>3, <1>6, <1>7, <3>1 DEF OpenInv, OpenPcs
    <3>2. CASE ~(q = p /\ g = "open")
      <4>1. op'[q]["open"] = op[q]["open"]
        BY <1>1, <1>7, <3>2
      <4> QED BY <4>1 DEF IInv, GoInv, OpenInv
    <3> QED BY <3>1, <3>2
  <2>2. CallOK(q, op[q]["call"])'
    <3>1. CASE q = p /\ g = "call"
      <4>1. CallOK(p, n)'
        BY <1>3, <1>7, <3>1, Names DEF CallOK
      <4> QED BY <1>6, <3>1, <4>1
    <3>2. CASE ~(q = p /\ g = "call")
      <4>1. op'[q]["call"] = op[q]["call"] /\ CallOK(q, op[q]["call"])
        BY <1>1, <1>7, <3>2 DEF IInv, GoInv
      <4> QED BY <4>1 DEF CallOK
    <3> QED BY <3>1, <3>2
  <2>3. WatchOK(op[q]["watch"])'
    BY <1>1, <1>3, <1>7 DEF IInv, GoInv, WatchOK
  <2> QED BY <2>1, <2>2, <2>3 DEF GoInv
<1>14. ASSUME NEW q \in Parties PROVE OpeningInv(q)'
  <2>1. Alloc(mach'[q][Parent].cur) => Opened(q)
    BY <1>3, <1>5 DEF IInv, OpeningInv
  <2>2. CASE q = p /\ g = "open"
    <3>1. op'[q]["open"].pc = "respond" /\ Opened(q) /\ Sub \notin channels[q]
      BY <1>3, <1>6, <1>7, <2>2
    <3> QED BY <1>5, <1>8, <2>1, <3>1 DEF IInv, OpeningInv, NotBegun
  <2>3. CASE ~(q = p /\ g = "open")
    <3>1. op'[q]["open"] = op[q]["open"]
      BY <1>1, <1>7, <2>3
    <3> QED BY <1>5, <1>8, <2>1, <3>1 DEF IInv, OpeningInv, NotBegun
  <2> QED BY <2>2, <2>3
<1>15. ASSUME NEW q \in Parties PROVE HandlerInv(q)'
  BY <1>9 DEF IInv, HandlerInv, HandlerKept
<1>16. FundInv'
  <2>1. CASE g = "open"
    <3>1. op'[Proposee]["open"] = n /\ op'[Proposee]["call"] = op[Proposee]["call"]
      BY <1>1, <1>3, <1>6, <1>7, <2>1
    <3>2. op[Proposee]["call"].pc # "res"
      <4>1. CallOK(Proposee, op[Proposee]["call"]) /\ lock[Proposee][Parent] = "handler"
            /\ Sub \notin channels[Proposee]
        BY <1>1, <1>3, <2>1 DEF IInv, GoInv, HandlerInv
      <4> QED BY <4>1, Names DEF CallOK
    <3> QED BY <1>3, <1>5, <1>7, <2>1, <3>1, <3>2 DEF IInv, FundInv
  <2>2. CASE g = "call"
    <3>1. op'[Proposee]["open"] = op[Proposee]["open"]
      BY <1>1, <1>7, <2>2
    <3>2. CASE p = Proposee
      BY <1>3, <2>2, <3>1, <3>2 DEF FundInv
    <3>3. CASE p # Proposee
      BY <1>1, <1>5, <1>8, <3>1, <3>3 DEF IInv, FundInv
    <3> QED BY <3>2, <3>3
  <2> QED BY <1>3, <2>1, <2>2
<1>17. NoAlloc => NoAlloc'
  <2> SUFFICES ASSUME NoAlloc PROVE NoAlloc'
    OBVIOUS
  <2>1. \A q \in Parties : ~Alloc(mach'[q][Parent].cur) /\ ~Alloc(handler'[q].req)
    BY <1>2, <1>5, <1>9 DEF NoAlloc, HandlerKept
  <2> QED BY <1>8, <1>11, <2>1 DEF NoAlloc
<1>18. op'[Proposer]["open"] = op[Proposer]["open"]
  BY <1>1, <1>3, <1>7
<1>19. Msg("sig0", Proposer, Sub, InitSub) \in net' => Msg("sig0", Proposer, Sub, InitSub) \in net
  BY <1>11, MsgFacts
<1>20. PeerInv' /\ DropInv'
  <2>1. CASE g = "open"
    <3>1. op'[Proposee]["open"] = n /\ op[Proposee]["open"].pc = "intercept"
      BY <1>3, <1>6, <2>1
    <3>2. PeerInv'
      BY <1>7, <1>11, <1>17, <1>18, <1>19, <3>1 DEF IInv, PeerInv, Before, Unready, NotBegun
    <3> QED BY <1>3, <1>7, <2>1, <3>1, <3>2 DEF IInv, DropInv
  <2>2. CASE g = "call"
    <3>1. op'[Proposee]["open"] = op[Proposee]["open"]
      BY <1>1, <1>7, <2>2
    <3>2. PeerInv'
      BY <1>11, <1>17, <1>18, <1>19, <3>1 DEF IInv, PeerInv, Before, Unready, NotBegun
    <3> QED BY <3>1, <3>2 DEF IInv, DropInv
  <2> QED BY <1>3, <2>1, <2>2
<1> QED BY <1>10, <1>12, <1>13, <1>14, <1>15, <1>16, <1>20 DEF IInv

LEMMA acceptInterceptedStep ==
  ASSUME IInv, NEW p \in Parties, NEW g \in Goroutines, acceptIntercepted(p, g)
  PROVE  IInv'
<1>1. op[p][g].pc = "intercept" /\ UNCHANGED <<channels, dropped>>
  BY DEF acceptIntercepted
<1>2. g \in {"open", "call"} /\ Parent \in Channels
  BY <1>1, InterceptorFacts, Names
<1> DEFINE u == InterceptorOf(op[p][g])
           frees == lock' = [lock EXCEPT ![p] = [c \in Channels |->
                               IF @[c] \in {g, "handler"} THEN "free" ELSE @[c]]]
<1>3. CASE /\ handler[p].pc = "send" /\ handler[p].ui = u
           /\ Enables(p, Parent, handler[p].req) /\ Responds(p) /\ Goto(p, g, "respond")
           /\ net' = net \cup {Msg("acc", Peer(p), Parent, handler[p].req)}
           /\ UNCHANGED <<lock, ui>>
  BY <1>1, <1>3, AcceptTakes
<1>4. CASE /\ Forgets(p, u) /\ HandlerEnds(p) /\ SetOp(p, g, [NoOp EXCEPT !.res = "err"])
           /\ frees /\ UNCHANGED <<mach, net>>
  <2>1. /\ LockShape'
        /\ \A q \in Parties, c \in Channels :
             /\ q # p => lock'[q][c] = lock[q][c]
             /\ lock[q][c] = "call" /\ ~(q = p /\ g = "call") => lock'[q][c] = "call"
    BY <1>2, <1>4 DEF IInv, Shape, LockShape
  <2>2. /\ HandlerShape'
        /\ \A q \in Parties : HandlerInv(q)' /\ OfParent(handler'[q].req)
        /\ \A q \in Parties : Alloc(handler'[q].req) => Alloc(handler[q].req)
    BY <1>2, <1>4, <2>1, HandlerEndFacts
  <2> QED BY <1>1, <1>4, <2>1, <2>2, InterceptFails
<1>5. CASE Release(p, u) /\ Return(p, g, "err") /\ UNCHANGED <<mach, net>>
  <2>1. Forgets(p, u) /\ SetOp(p, g, [NoOp EXCEPT !.res = "err"])
    BY <1>5 DEF Release, Return, Forgets
  <2>2. PICK b : Orphans(p, b)
    BY <1>5 DEF Release, Orphans
  <2>3. HandlerKept(p) /\ handler'[p].pc = handler[p].pc
    BY <2>2, OrphanFacts DEF IInv, Shape
  <2>4. LockKept(p, g)
    BY <1>5, ReturnFacts DEF IInv, Shape
  <2>5. /\ LockShape'
        /\ \A q \in Parties, c \in Channels :
             /\ lock[q][c] = "call" /\ ~(q = p /\ g = "call") => lock'[q][c] = "call"
             /\ lock[q][c] = "handler" => lock'[q][c] = "handler"
    BY <1>2, <2>4 DEF LockKept
  <2>6. /\ HandlerShape'
        /\ \A q \in Parties : OfParent(handler'[q].req)
        /\ \A q \in Parties : Alloc(handler'[q].req) => Alloc(handler[q].req)
    BY <2>3 DEF HandlerKept, IInv, States
  <2>7. ASSUME NEW q \in Parties PROVE HandlerInv(q)'
    <3>1. handler'[q].pc = handler[q].pc /\ handler'[q].ui = handler[q].ui
          /\ handler'[q].req = handler[q].req
      BY <2>3 DEF HandlerKept
    <3> QED BY <1>2, <2>5, <3>1 DEF IInv, HandlerInv
  <2> QED BY <1>1, <1>5, <2>1, <2>5, <2>6, <2>7, InterceptFails
<1> QED BY <1>1, <1>3, <1>4, <1>5
        DEF acceptIntercepted, Enables, Responds, Forgets, HandlerEnds

-----------------------------------------------------------------------------
(* Handling the peer's updates *)

LEMMA FilterFacts ==
  ASSUME States, NEW p \in Parties, NEW c \in Channels, NEW s, OfChannel(c, s)
  PROVE  /\ Filter(p, c, s) # "none" => c = Parent
         /\ Filter(p, c, s) = "fund" => Alloc(s)
         /\ Filter(p, c, s) = "settle" => ~Alloc(s)
<1>1. c # Parent => Filter(p, c, s) = "none"
  BY DEF Filter
<1>2. CASE c = Parent
  <2>1. HasSubAlloc(s, Sub) <=> Alloc(s)
    BY <1>2, AllocFacts DEF OfChannel
  <2> QED BY <1>2, <2>1 DEF Filter, SubChannelFunding, SubChannelSettlement
<1> QED BY <1>1, <1>2

\* An update that locks the funds, and that a proposee neither intercepts nor hands
\* to its user, comes after the opening.
LEMMA NotIntercepted ==
  ASSUME IInv, NEW m \in net, m.type = "update", m.ch = Parent, Alloc(m.state),
         Filter(Proposee, Parent, m.state) = "none",
         ~validTwoPartyUpdate(Proposee, Parent, m.state)
  PROVE  op[Proposee]["open"].res # "none"
<1>1. Proposee \in Parties /\ Proposer \in Parties /\ Parent # Sub /\ Proposee # Proposer
  BY Names
<1>2. PICK s : s = m.state
  OBVIOUS
<1>3. PICK cur : cur = mach[Proposee][Parent].cur
  OBVIOUS
<1>4. OfParent(s) /\ Alloc(s) /\ OfParent(cur)
  BY <1>1, <1>2, <1>3 DEF IInv, States, OfChannel
<1>5. ~Alloc(cur)
  <2>1. ~SubAllocsAssertEqual(cur.Locked, s.Locked)
    BY <1>2, <1>3 DEF validTwoPartyUpdate
  <2> QED BY <1>4, <2>1, LocksEqual
<1>6. HasSubAlloc(s, Sub) /\ ~HasSubAlloc(cur, Sub) /\ SubAlloc(s, Sub) = SubLock
  BY <1>4, <1>5, AllocFacts
<1>7. ~NoAlloc
  BY <1>2, <1>4 DEF NoAlloc
<1>8. ~Unready
  BY <1>7 DEF IInv, PeerInv
<1>9. ui[Proposee].fund # <<SubLock.Bals>>
  <2>1. NewSubAlloc(Sub, SubLock.Bals, <<>>) = SubLock
    BY DEF SubLock, NewSubAlloc
  <2>2. SubAllocEqual(SubLock, SubLock)
    BY DEF SubAllocEqual, SlicesEqual, indexMapEqual
  <2>3. ~SubChannelFunding(Proposee, s)
    BY <1>2 DEF Filter
  <2>4. <<SubLock.Bals>> # <<>> /\ <<SubLock.Bals>>[1] = SubLock.Bals
    OBVIOUS
  <2> SUFFICES ASSUME ui[Proposee].fund = <<SubLock.Bals>> PROVE FALSE
    OBVIOUS
  <2> QED BY <1>3, <1>6, <2>1, <2>2, <2>3, <2>4 DEF SubChannelFunding
<1>10. op[Proposee]["open"].pc \notin {"sigs", "fund", "intercept", "respond", "put"}
  BY <1>3, <1>5, <1>9 DEF IInv, FundInv
<1> QED BY <1>1, <1>8, <1>10 DEF IInv, GoInv, OpenInv, OpenPcs, Unready, NotBegun

\* The update is kept by a handler at an interceptor.
Intercepts(p, h) == handler' = [handler EXCEPT ![p] = h]
Locks(p) == lock' = [lock EXCEPT ![p][Parent] = "handler"]
LEMMA InterceptedStep ==
  ASSUME IInv, NEW p \in Parties, NEW m \in net, m.type = "update", m.ch = Parent, NEW u,
         u = "fund" => Alloc(m.state), u = "settle" => ~Alloc(m.state),
         Intercepts(p, [pc |-> "send", ui |-> u, req |-> m.state, orphan |-> FALSE]),
         Free(p, Parent), Locks(p), net' = net \ {m},
         UNCHANGED <<mach, ui, op, channels, dropped>>
  PROVE  IInv'
<1>1. Parent \in Channels /\ Parent # Sub
  BY Names
<1>2. OfParent(m.state)
  BY <1>1 DEF IInv, States, OfChannel
<1>3. PICK h : h = [pc |-> "send", ui |-> u, req |-> m.state, orphan |-> FALSE]
  OBVIOUS
<1>4. /\ h.pc = "send" /\ h.ui = u /\ h.req = m.state
      /\ h = [pc |-> h.pc, ui |-> h.ui, req |-> h.req, orphan |-> h.orphan]
  BY <1>3
<1>5. handler' = [handler EXCEPT ![p] = h]
  BY <1>3 DEF Intercepts
<1>6. handler'[p] = h /\ (\A q \in Parties : q # p => handler'[q] = handler[q])
      /\ handler' = [q \in Parties |-> handler'[q]]
  BY <1>5 DEF IInv, Shape, HandlerShape
<1>7. HandlerShape'
  <2>1. \A q \in Parties :
          handler'[q] = [pc |-> handler'[q].pc, ui |-> handler'[q].ui,
                         req |-> handler'[q].req, orphan |-> handler'[q].orphan]
    <3> TAKE q \in Parties
    <3>1. handler[q] = [pc |-> handler[q].pc, ui |-> handler[q].ui,
                        req |-> handler[q].req, orphan |-> handler[q].orphan]
      BY DEF IInv, Shape, HandlerShape
    <3> QED BY <1>4, <1>6, <3>1
  <2> QED BY <1>6, <2>1 DEF HandlerShape
<1>8. /\ LockShape' /\ lock'[p][Parent] = "handler"
      /\ \A q \in Parties, d \in Channels : q # p \/ d # Parent => lock'[q][d] = lock[q][d]
      /\ lock[p][Parent] = "free"
  BY <1>1 DEF IInv, Shape, LockShape, Locks, Free
<1>9. \A q \in Parties, d \in Channels : lock[q][d] = "call" => lock'[q][d] = "call"
  BY <1>8
<1>10. Shape'
  BY <1>7, <1>8 DEF IInv, Shape, MachShape, OpShape, UiShape, ChannelsShape
<1>11. States'
  <2>1. \A q \in Parties : OfParent(handler'[q].req)
    BY <1>2, <1>4, <1>6 DEF IInv, States
  <2> QED BY <2>1 DEF IInv, States
<1>12. ASSUME NEW q \in Parties PROVE GoInv(q)' /\ OpeningInv(q)' /\ HandlerInv(q)'
  <2>1. OpenInv(q)' /\ WatchOK(op[q]["watch"])' /\ OpeningInv(q)'
    BY DEF IInv, GoInv, OpenInv, WatchOK, OpeningInv, NotBegun, Opened
  <2>2. CallOK(q, op[q]["call"])'
    <3>1. CallOK(q, op[q]["call"])
      BY DEF IInv, GoInv
    <3> QED BY <1>9, <3>1 DEF CallOK
  <2>3. HandlerInv(q)'
    <3>1. CASE q = p
      BY <1>4, <1>6, <1>8, <3>1 DEF HandlerInv
    <3>2. CASE q # p
      BY <1>1, <1>6, <1>8, <3>2 DEF IInv, HandlerInv
    <3> QED BY <3>1, <3>2
  <2> QED BY <2>1, <2>2, <2>3 DEF GoInv
<1>13. NoAlloc => NoAlloc'
  <2> SUFFICES ASSUME NoAlloc PROVE NoAlloc'
    OBVIOUS
  <2>1. \A q \in Parties : ~Alloc(handler'[q].req)
    BY <1>4, <1>6 DEF NoAlloc
  <2> QED BY <2>1 DEF NoAlloc
<1>14. FundInv' /\ DropInv'
  BY DEF IInv, FundInv, DropInv
<1>15. PeerInv'
  BY <1>13 DEF IInv, PeerInv, Before, Unready, NotBegun
<1> QED BY <1>10, <1>11, <1>12, <1>14, <1>15 DEF IInv

\* The user accepts the update, which locks what the current state locks.
LEMMA AcceptedStep ==
  ASSUME IInv, NEW p \in Parties, NEW c \in Channels, NEW m \in net, m.type = "update",
         m.ch = c, c \in channels[p], Enables(p, c, m.state),
         validTwoPartyUpdate(p, c, m.state), UiShape',
         \A q \in Parties : ui'[q].fund = ui[q].fund,
         \A x \in net' : x.type \in {"update", "sig0", "proposal"} => x \in net,
         UNCHANGED <<op, lock, handler, channels, dropped>>
  PROVE  IInv'
<1>1. Channels = {Parent, Sub} /\ Parent # Sub /\ Proposee \in Parties
  BY Names
<1>2. PICK s : s = m.state
  OBVIOUS
<1>3. OfChannel(c, s) /\ (c = Sub => Opened(p))
  BY <1>2 DEF IInv, States, OpeningInv
<1>4. /\ MachShape'
      /\ \A q \in Parties : OfParent(mach'[q][Parent].cur) /\ OfSub(mach'[q][Sub].cur)
      /\ \A q \in Parties : Opened(q)' <=> Opened(q)
      /\ \A q \in Parties : q # p \/ c # Parent => mach'[q][Parent].cur = mach[q][Parent].cur
      /\ c = Parent => mach'[p][Parent].cur = s
  <2>1. Enables(p, c, s)
    BY <1>2
  <2> QED BY <1>3, <2>1, EnableFacts DEF IInv, Shape
<1>5. \A q \in Parties : Alloc(mach'[q][Parent].cur) <=> Alloc(mach[q][Parent].cur)
  <2> TAKE q \in Parties
  <2>1. CASE q = p /\ c = Parent
    <3>1. PICK cur : cur = mach[p][Parent].cur
      OBVIOUS
    <3>2. SubAllocsAssertEqual(cur.Locked, s.Locked) /\ OfParent(cur) /\ OfParent(s)
      BY <1>2, <1>3, <2>1, <3>1 DEF validTwoPartyUpdate, IInv, States, OfChannel
    <3>3. Alloc(cur) <=> Alloc(s)
      BY <3>2, LocksEqual
    <3> QED BY <1>4, <2>1, <3>1, <3>3
  <2>2. CASE ~(q = p /\ c = Parent)
    BY <1>4, <2>2
  <2> QED BY <2>1, <2>2
<1>6. Shape'
  BY <1>4 DEF IInv, Shape, OpShape, LockShape, HandlerShape, ChannelsShape
<1>7. States'
  BY <1>4 DEF IInv, States
<1>8. ASSUME NEW q \in Parties PROVE GoInv(q)' /\ OpeningInv(q)' /\ HandlerInv(q)'
  <2>1. GoInv(q)' /\ HandlerInv(q)'
    BY DEF IInv, GoInv, OpenInv, CallOK, WatchOK, HandlerInv
  <2>2. OpeningInv(q)'
    BY <1>4, <1>5 DEF IInv, OpeningInv, NotBegun
  <2> QED BY <2>1, <2>2
<1>9. FundInv' /\ DropInv'
  BY <1>1, <1>5 DEF IInv, FundInv, DropInv
<1>10. NoAlloc => NoAlloc'
  BY <1>5 DEF NoAlloc
<1>11. Msg("sig0", Proposer, Sub, InitSub) \in net' => Msg("sig0", Proposer, Sub, InitSub) \in net
  BY MsgFacts
<1>12. PeerInv'
  BY <1>10, <1>11 DEF IInv, PeerInv, Before, Unready, NotBegun
<1> QED BY <1>6, <1>7, <1>8, <1>9, <1>12 DEF IInv

\* The update is dropped.
LEMMA DroppedStep ==
  ASSUME IInv, NEW p \in Parties, NEW c \in Channels, NEW m \in net, m.type = "update",
         m.ch = c, Filter(p, c, m.state) = "none", ~validTwoPartyUpdate(p, c, m.state),
         net' = net \ {m}, dropped' = dropped \cup {[by |-> p, state |-> m.state]},
         UNCHANGED <<mach, lock, op, handler, ui, channels>>
  PROVE  IInv'
<1>1. Channels = {Parent, Sub} /\ Parent # Sub
  BY Names
<1>2. OfParent(m.state) /\ (c = Sub => ~Alloc(m.state))
  BY <1>1, SubIsUnlocked DEF IInv, States, OfChannel
<1>3. PICK d : d = [by |-> p, state |-> m.state]
  OBVIOUS
<1>4. d.by = p /\ d.state = m.state /\ dropped' = dropped \cup {d}
  BY <1>3
<1>5. Shape' /\ FundInv'
  BY DEF IInv, Shape, MachShape, OpShape, LockShape, HandlerShape, UiShape, ChannelsShape, FundInv
<1>6. States'
  <2>1. \A e \in dropped' : OfParent(e.state)
    BY <1>2, <1>4 DEF IInv, States
  <2> QED BY <2>1 DEF IInv, States
<1>7. \A q \in Parties : GoInv(q)' /\ OpeningInv(q)' /\ HandlerInv(q)'
  BY DEF IInv, GoInv, OpenInv, CallOK, WatchOK, OpeningInv, NotBegun, Opened, HandlerInv
<1>8. NoAlloc => NoAlloc'
  BY DEF NoAlloc
<1>9. PeerInv'
  BY <1>8 DEF IInv, PeerInv, Before, Unready, NotBegun
<1>10. DropInv'
  <2>1. p = Proposee /\ Alloc(m.state) => op[Proposee]["open"].res # "none"
    BY <1>1, <1>2, NotIntercepted
  <2> QED BY <1>4, <2>1 DEF IInv, DropInv
<1> QED BY <1>5, <1>6, <1>7, <1>9, <1>10 DEF IInv

\* An interceptor for the settlement is registered.
Expects(p, b) == ui' = [ui EXCEPT ![p].settle = <<b>>]
LEMMA ExpectFacts ==
  ASSUME UiShape, NEW p \in Parties, NEW b, Expects(p, b)
  PROVE  UiShape' /\ \A q \in Parties : ui'[q].fund = ui[q].fund
<1>1. \A q \in Parties : ui[q] = [fund |-> ui[q].fund, settle |-> ui[q].settle]
  BY DEF UiShape
<1>2. ui' = [q \in Parties |-> ui'[q]] /\ \A q \in Parties : q # p => ui'[q] = ui[q]
  BY DEF UiShape, Expects
<1>3. ui'[p] = [ui[p] EXCEPT !.settle = <<b>>]
  BY DEF UiShape, Expects
<1>4. ui'[p] = [fund |-> ui[p].fund, settle |-> <<b>>]
  BY <1>1, <1>3
<1>5. \A q \in Parties : ui'[q] = [fund |-> ui'[q].fund, settle |-> ui'[q].settle]
  BY <1>1, <1>2, <1>4
<1> QED BY <1>2, <1>4, <1>5 DEF UiShape

LEMMA handleUpdateReqStep ==
  ASSUME IInv, NEW p \in Parties, NEW c \in Channels, handleUpdateReq(p, c)
  PROVE  IInv'
<1> DEFINE h(m) == [pc |-> "send", ui |-> Filter(p, c, m.state), req |-> m.state, orphan |-> FALSE]
           drop(m) == net' = net \ {m} /\ UNCHANGED <<mach, ui>>
<1>1. PICK m \in net :
        /\ m.type = "update" /\ m.to = p /\ m.ch = c /\ c \in channels[p] /\ Free(p, c)
        /\ UNCHANGED <<op, channels>>
        /\ \/ /\ Filter(p, c, m.state) # "none"
              /\ lock' = [lock EXCEPT ![p][c] = "handler"]
              /\ Intercepts(p, h(m)) /\ drop(m) /\ UNCHANGED dropped
           \/ /\ validTwoPartyUpdate(p, c, m.state) /\ handleUpdateAcc(p, c, m.state)
              /\ UNCHANGED <<lock, handler, dropped>>
           \/ drop(m) /\ UNCHANGED <<lock, handler, dropped>>
           \/ /\ net' = (net \ {m}) \cup {Msg("rej", Peer(p), c, m.state)}
              /\ UNCHANGED <<mach, ui, lock, handler, dropped>>
           \/ /\ Filter(p, c, m.state) = "none" /\ ~validTwoPartyUpdate(p, c, m.state)
              /\ drop(m) /\ UNCHANGED <<lock, handler>>
              /\ dropped' = dropped \cup {[by |-> p, state |-> m.state]}
  BY DEF handleUpdateReq, Intercepts
<1>2. OfChannel(c, m.state)
  BY <1>1 DEF IInv, States
<1>3. CASE /\ Filter(p, c, m.state) # "none"
           /\ lock' = [lock EXCEPT ![p][c] = "handler"]
           /\ Intercepts(p, h(m)) /\ drop(m) /\ UNCHANGED dropped
  <2>1. PICK u : u = Filter(p, c, m.state)
    OBVIOUS
  <2>2. c = Parent /\ (u = "fund" => Alloc(m.state)) /\ (u = "settle" => ~Alloc(m.state))
    BY <1>2, <1>3, <2>1, FilterFacts DEF IInv
  <2>3. /\ Intercepts(p, [pc |-> "send", ui |-> u, req |-> m.state, orphan |-> FALSE])
        /\ Locks(p) /\ net' = net \ {m} /\ UNCHANGED <<mach, ui, dropped>>
    BY <1>3, <2>1, <2>2 DEF Locks
  <2> QED BY <1>1, <2>2, <2>3, InterceptedStep
<1>4. CASE /\ validTwoPartyUpdate(p, c, m.state) /\ handleUpdateAcc(p, c, m.state)
           /\ UNCHANGED <<lock, handler, dropped>>
  <2>1. Enables(p, c, m.state)
    BY <1>4 DEF handleUpdateAcc, Enables
  <2>2. \A x \in net' : x.type \in {"update", "sig0", "proposal"} => x \in net
    <3>1. net' \subseteq net \cup {Msg("acc", Peer(p), c, m.state)}
      BY <1>4 DEF handleUpdateAcc
    <3> QED BY <3>1, MsgFacts
  <2>3. ui' = ui \/ \E b : Expects(p, b)
    BY <1>4 DEF handleUpdateAcc, Expects
  <2>4. UiShape' /\ \A q \in Parties : ui'[q].fund = ui[q].fund
    <3>1. CASE ui' = ui
      BY <3>1 DEF IInv, Shape, UiShape
    <3>2. CASE \E b : Expects(p, b)
      BY <3>2, ExpectFacts DEF IInv, Shape
    <3> QED BY <2>3, <3>1, <3>2
  <2> QED BY <1>1, <1>4, <2>1, <2>2, <2>4, AcceptedStep
<1>5. CASE drop(m) /\ UNCHANGED <<lock, handler, dropped>>
  BY <1>1, <1>5, NetStep
<1>6. CASE /\ net' = (net \ {m}) \cup {Msg("rej", Peer(p), c, m.state)}
           /\ UNCHANGED <<mach, ui, lock, handler, dropped>>
  <2>1. \A x \in net' : x.type \in {"update", "sig0", "proposal"} => x \in net
    BY <1>6, MsgFacts
  <2> QED BY <1>1, <1>6, <2>1, NetStep
<1>7. CASE /\ Filter(p, c, m.state) = "none" /\ ~validTwoPartyUpdate(p, c, m.state)
           /\ drop(m) /\ UNCHANGED <<lock, handler>>
           /\ dropped' = dropped \cup {[by |-> p, state |-> m.state]}
  BY <1>1, <1>7, DroppedStep
<1> QED BY <1>1, <1>3, <1>4, <1>5, <1>6, <1>7

-----------------------------------------------------------------------------
(* The end of a context, and no step at all *)

\* The operations differ in their contexts only.
SameOps ==
  /\ OpShape'
  /\ \A q \in Parties, h \in Goroutines :
       /\ op'[q][h].op = op[q][h].op /\ op'[q][h].ch = op[q][h].ch
       /\ op'[q][h].pc = op[q][h].pc /\ op'[q][h].next = op[q][h].next
       /\ op'[q][h].res = op[q][h].res

LEMMA SameOpsStep ==
  ASSUME IInv, SameOps, UNCHANGED <<mach, lock, handler, ui, channels, net, dropped>>
  PROVE  IInv'
<1>1. Proposee \in Parties /\ Proposer \in Parties /\ "open" \in Goroutines
      /\ "call" \in Goroutines /\ "watch" \in Goroutines
  BY Names
<1>2. Shape'
  BY DEF IInv, Shape, SameOps, MachShape, LockShape, HandlerShape, UiShape, ChannelsShape
<1>3. States'
  <2>1. ASSUME NEW q \in Parties, NEW h \in Goroutines, op'[q][h].pc = "res"
        PROVE  OfChannel(UpdateOf(op[q][h]), op[q][h].next)'
    BY <2>1 DEF IInv, States, SameOps, UpdateOf
  <2> QED BY <2>1 DEF IInv, States
<1>4. ASSUME NEW q \in Parties PROVE GoInv(q)'
  BY <1>1 DEF IInv, GoInv, OpenInv, CallOK, WatchOK, SameOps
<1>5. ASSUME NEW q \in Parties PROVE OpeningInv(q)' /\ HandlerInv(q)'
  BY <1>1 DEF IInv, OpeningInv, HandlerInv, NotBegun, Opened, SameOps
<1>6. FundInv' /\ DropInv'
  BY <1>1 DEF IInv, FundInv, DropInv, SameOps
<1>7. NoAlloc => NoAlloc'
  BY DEF NoAlloc, SameOps
<1>8. PeerInv'
  BY <1>1, <1>7 DEF IInv, PeerInv, Before, Unready, NotBegun, SameOps
<1> QED BY <1>2, <1>3, <1>4, <1>5, <1>6, <1>8 DEF IInv

LEMMA CtxDoneStep ==
  ASSUME IInv, NEW p \in Parties, NEW g \in Goroutines, CtxDone(p, g)
  PROVE  IInv'
<1>1. PICK f : f = FALSE
  OBVIOUS
<1>2. PICK o : o = op[p][g] /\ IsOp(o)
  BY DEF IInv, Shape, OpShape
<1>3. PICK n : n = [o EXCEPT !.ctx = f]
  OBVIOUS
<1>4. n = [op |-> o.op, ch |-> o.ch, kind |-> o.kind, pc |-> o.pc,
           next |-> o.next, ctx |-> f, res |-> o.res]
  BY <1>2, <1>3 DEF IsOp
<1>5. /\ IsOp(n) /\ n.op = o.op /\ n.ch = o.ch /\ n.pc = o.pc /\ n.next = o.next
      /\ n.res = o.res
  BY <1>4 DEF IsOp
<1>6. SetOp(p, g, n) /\ UNCHANGED <<mach, lock, handler, ui, channels, net, dropped>>
  BY <1>1, <1>2, <1>3, Zenon DEF CtxDone
<1>7. /\ OpShape' /\ op'[p][g] = n
      /\ \A q \in Parties, h \in Goroutines : q # p \/ h # g => op'[q][h] = op[q][h]
  BY <1>5, <1>6, OpFacts DEF IInv, Shape
<1>8. SameOps
  <2>1. ASSUME NEW q \in Parties, NEW h \in Goroutines
        PROVE  /\ op'[q][h].op = op[q][h].op /\ op'[q][h].ch = op[q][h].ch
               /\ op'[q][h].pc = op[q][h].pc /\ op'[q][h].next = op[q][h].next
               /\ op'[q][h].res = op[q][h].res
    <3>1. CASE q = p /\ h = g
      BY <1>2, <1>5, <1>7, <3>1
    <3>2. CASE q # p \/ h # g
      BY <1>7, <3>2
    <3> QED BY <3>1, <3>2
  <2> QED BY <1>7, <2>1 DEF SameOps
<1> QED BY <1>6, <1>8, SameOpsStep

-----------------------------------------------------------------------------
(* The invariant and what follows from it *)

LEMMA InitIInv ==
  ASSUME Init
  PROVE  IInv
<1>1. Parent \in Channels /\ Sub \in Channels /\ Parent # Sub /\ Proposer \in Parties
      /\ Proposee \in Parties /\ "open" \in Goroutines /\ "call" \in Goroutines
      /\ "watch" \in Goroutines
  BY Names
<1>2. PICK s0 : s0 = State(0, ParentBals, <<>>, FALSE)
  OBVIOUS
<1>3. OfParent(s0) /\ ~Alloc(s0)
  BY <1>2 DEF State, OfParent, IsState, Alloc
<1>4. \A p \in Parties :
        /\ mach[p][Parent] = [phase |-> "Acting", cur |-> s0]
        /\ mach[p][Sub] = [phase |-> "none", cur |-> InitSub]
  BY <1>1, <1>2 DEF Init
<1>5. \A p \in Parties : /\ mach[p][Parent].cur = s0 /\ mach[p][Sub].cur = InitSub
                         /\ mach[p][Sub].phase = "none"
  BY <1>4
<1>6. MachShape
  <2>1. \A p \in Parties, c \in Channels :
          mach[p][c] = [phase |-> mach[p][c].phase, cur |-> mach[p][c].cur]
    BY <1>4, Names
  <2>2. mach = [p \in Parties |-> [c \in Channels |-> mach[p][c]]]
    BY DEF Init
  <2> QED BY <2>1, <2>2 DEF MachShape
<1>7. \A p \in Parties, g \in Goroutines : op[p][g] = NoOp
  BY DEF Init
<1>8. OpShape
  <2>1. op = [p \in Parties |-> [g \in Goroutines |-> op[p][g]]]
    BY DEF Init
  <2> QED BY <1>7, <2>1, NoOpFacts DEF OpShape
<1>9. \A p \in Parties : handler[p] = NoHandler
  BY DEF Init
<1>10. HandlerShape
  <2>1. handler = [p \in Parties |-> handler[p]]
    BY DEF Init
  <2> QED BY <1>9, <2>1, NoOpFacts DEF HandlerShape
<1>11. LockShape /\ UiShape /\ ChannelsShape /\ net = {} /\ dropped = {}
       /\ \A p \in Parties : channels[p] = {Parent}
  BY <1>1 DEF Init, LockShape, UiShape, ChannelsShape
<1>12. Shape
  BY <1>6, <1>8, <1>10, <1>11 DEF Shape
<1>13. /\ \A p \in Parties, g \in Goroutines :
            op[p][g].op = "none" /\ op[p][g].pc = "idle" /\ op[p][g].res = "none"
       /\ \A p \in Parties : handler[p].pc = "none" /\ handler[p].req = InitSub
  BY <1>7, <1>9, NoOpFacts
<1>14. States
  BY <1>3, <1>5, <1>11, <1>13, InitSubFacts DEF States
<1>15. FundInv /\ DropInv
  BY <1>1, <1>11, <1>13 DEF FundInv, DropInv
<1>16. PeerInv
  BY <1>1, <1>3, <1>5, <1>11, <1>13, InitSubFacts DEF PeerInv, NoAlloc, NotBegun
<1>17. \A p \in Parties : GoInv(p) /\ HandlerInv(p)
  BY <1>1, <1>13 DEF GoInv, OpenInv, CallOK, WatchOK, HandlerInv
<1>18. \A p \in Parties : OpeningInv(p)
  BY <1>1, <1>3, <1>5, <1>11, <1>13 DEF OpeningInv, Opened
<1> QED BY <1>12, <1>14, <1>15, <1>16, <1>17, <1>18 DEF IInv

LEMMA StepStep ==
  ASSUME IInv, NEW p \in Parties, Step(p)
  PROVE  IInv'
<1>1. CASE \E c \in Channels : handleUpdateReq(p, c)
  BY <1>1, handleUpdateReqStep
<1>2. CASE completeCPP(p)
  BY <1>2, completeCPPStep
<1>3. CASE initExchangeSigsAndEnable(p)
  BY <1>3, initExchangeSigsAndEnableStep
<1>4. CASE fundSubchannel(p)
  BY <1>4, fundSubchannelStep
<1>5. CASE completeFunding(p)
  BY <1>5, completeFundingStep
<1>6. CASE UpdateBy(p)
  BY <1>6, UpdateByStep
<1>7. CASE Register(p)
  BY <1>7, RegisterStep
<1>8. CASE LockTimeout(p)
  BY <1>8, LockTimeoutStep
<1>9. CASE SettleLocked(p)
  BY <1>9, SettleLockedStep
<1>10. CASE settle(p)
  BY <1>10, settleStep
<1>11. CASE withdrawSubChannelIntoParent(p)
  BY <1>11, withdrawSubChannelIntoParentStep
<1>12. CASE SettleEnds(p)
  BY <1>12, SettleEndsStep
<1>13. ASSUME NEW g \in Goroutines,
              \/ RecvResponse(p, g) \/ acceptIntercepted(p, g) \/ respondIntercepted(p, g)
              \/ tryLockRecursive(p, g)
       PROVE  IInv'
  BY <1>13, RecvResponseStep, acceptInterceptedStep, respondInterceptedStep, tryLockRecursiveStep
<1> QED BY <1>1, <1>2, <1>3, <1>4, <1>5, <1>6, <1>7, <1>8, <1>9, <1>10, <1>11, <1>12, <1>13
        DEF Step

LEMMA NextStep ==
  ASSUME IInv, [Next]_vars
  PROVE  IInv'
<1>1. CASE handleChannelProposal
  BY <1>1, handleChannelProposalStep
<1>2. CASE acceptChannelProposal
  BY <1>2, acceptChannelProposalStep
<1>3. CASE proposeTwoPartyChannel
  BY <1>3, proposeTwoPartyChannelStep
<1>4. ASSUME NEW p \in Parties, Step(p) PROVE IInv'
  BY <1>4, StepStep
<1>5. CASE ProposeChannel
  BY <1>5, ProposeChannelStep
<1>6. ASSUME NEW p \in Parties, UserCall(p) \/ Watch(p) PROVE IInv'
  BY <1>6, UserCallStep, WatchStep
<1>7. ASSUME NEW p \in Parties, NEW g \in Goroutines, CtxDone(p, g) PROVE IInv'
  BY <1>7, CtxDoneStep
<1>8. CASE UNCHANGED vars
  <2>1. UNCHANGED <<mach, lock, op, handler, ui, channels, net, dropped>>
    BY <1>8 DEF vars
  <2> QED BY <2>1, NetStep
<1> QED BY <1>1, <1>2, <1>3, <1>4, <1>5, <1>6, <1>7, <1>8 DEF Next, Progress

\* The calls, handlers, interceptors, messages and states of the two clients fit
\* together as IInv says, in every order of calls, messages and timeouts.
THEOREM SubChannelInvariant == Spec => []IInv
<1>1. Init => IInv
  BY InitIInv
<1>2. IInv /\ [Next]_vars => IInv'
  BY NextStep
<1> QED BY <1>1, <1>2, PTL DEF Spec

\* completeCPP, initExchangeSigsAndEnable, fundSubchannel, updates and settlements:
\* whoever holds a state of the parent that locks funds for the sub-channel has an
\* initial state of the sub-channel that both have signed, and what is locked is
\* what its current state of the sub-channel distributes.
THEOREM LockedFundsAreBacked == Spec => []LockedIsBacked
<1>1. IInv => LockedIsBacked
  <2> SUFFICES ASSUME IInv, NEW p \in Parties, HasSubAlloc(mach[p][Parent].cur, Sub)
               PROVE  /\ mach[p][Sub].phase \notin {"none", "InitSigning"}
                      /\ SubAlloc(mach[p][Parent].cur, Sub).Bals
                           = BalancesSum(mach[p][Sub].cur.Balances)
    BY DEF LockedIsBacked
  <2>1. OfParent(mach[p][Parent].cur) /\ OfSub(mach[p][Sub].cur)
    BY DEF IInv, States
  <2>2. Alloc(mach[p][Parent].cur) /\ SubAlloc(mach[p][Parent].cur, Sub) = SubLock
    BY <2>1, AllocFacts
  <2>3. Opened(p)
    BY <2>2 DEF IInv, OpeningInv
  <2>4. BalancesSum(mach[p][Sub].cur.Balances) = SubLock.Bals
    BY <2>1, SubTotal
  <2> QED BY <2>2, <2>3, <2>4 DEF Opened
<1> QED BY <1>1, SubChannelInvariant, PTL

\* completeCPP registers the funding interceptor before the signature is sent that
\* the proposer needs to ask for the funding, so however messages overtake each
\* other, handleUpdateReq of a proposee that is still opening the sub-channel does
\* not drop the update that funds it.
THEOREM FundingIsNotDropped == Spec => []FundingNotDropped
<1>1. IInv => FundingNotDropped
  <2> SUFFICES ASSUME IInv, NEW d \in dropped, d.by = Proposee, HasSubAlloc(d.state, Sub)
               PROVE  op[Proposee]["open"].res # "none"
    BY DEF FundingNotDropped
  <2>1. Alloc(d.state)
    BY AllocFacts DEF IInv, States
  <2> QED BY <2>1 DEF IInv, DropInv
<1> QED BY <1>1, SubChannelInvariant, PTL

=============================================================================
