--------------------------- MODULE ProposalProofs ---------------------------
(***************************************************************************)
(* Proofs about the opening of ledger channels, for any number of clients, *)
(* proposals, retries, crashes and calls of Close and Settle: a client     *)
(* deposits only into a channel that it can settle alone, and no version 1 *)
(* update is dropped while its channel is being opened.                    *)
(***************************************************************************)
EXTENDS Proposal, TLAPS, FiniteSetTheorems

-----------------------------------------------------------------------------
(* Proposals, acceptances and channel identifiers *)

LEMMA PropFacts ==
  ASSUME NEW t
  PROVE  /\ Prop(t).type = "LedgerChannelProposal" /\ Prop(t).Peers = Request[t].peers
         /\ Prop(t) = [type |-> "LedgerChannelProposal", Base |-> Prop(t).Base,
                       Participant |-> Prop(t).Participant, Peers |-> Prop(t).Peers]
  BY DEF Prop, NewLedgerChannelProposal

LEMMA ProposalIDFacts ==
  ASSUME NEW t
  PROVE  /\ ProposalID(Prop(t))[1] = Prop(t).Base
         /\ ProposalID(Prop(t))[2] = Prop(t).Participant
         /\ ProposalID(Prop(t))[3] = Prop(t).Peers
<1>1. ProposalID(Prop(t)) = <<Prop(t).Base, Prop(t).Participant, Prop(t).Peers>>
  BY PropFacts DEF ProposalID
<1> QED BY <1>1

\* The identifier of a ledger channel proposal covers all of it.
LEMMA SameProposal ==
  ASSUME NEW t, NEW u, ProposalID(Prop(t)) = ProposalID(Prop(u))
  PROVE  Prop(t) = Prop(u)
<1>1. /\ Prop(t).Base = Prop(u).Base /\ Prop(t).Participant = Prop(u).Participant
      /\ Prop(t).Peers = Prop(u).Peers
  BY ProposalIDFacts
<1> QED BY <1>1, PropFacts

LEMMA AccFacts ==
  ASSUME NEW n
  PROVE  AccOf(n).NonceShare = n /\ AccOf(n).ProposalID = ProposalID(Prop(n))
<1>1. Option([nonce |-> n], "nonce", n) = n
  BY DEF Option
<1> QED BY <1>1 DEF AccOf, Accept

\* The nonce share of the acceptance makes the channel that of the acceptance.
LEMMA ChannelOfAcc ==
  ASSUME NEW t \in Tasks, NEW n \in Tasks, Prop(t) = Prop(n)
  PROVE  CalcID(t, n) = n
<1> DEFINE P(k) == NewParams(Prop(k), AccOf(k), <<>>) = NewParams(Prop(t), AccOf(n), <<>>)
<1>1. P(n)
  OBVIOUS
<1>2. ASSUME NEW k \in Tasks, P(k) PROVE k = n
  <2>1. nonceShares(Prop(k), AccOf(k)) = nonceShares(Prop(t), AccOf(n))
    <3>1. \A p, acc : NewParams(p, acc, <<>>).Nonce = nonceShares(p, acc)
      BY DEF NewParams
    <3> QED BY <1>2, <3>1
  <2>2. AccOf(k).NonceShare = AccOf(n).NonceShare
    BY <2>1 DEF nonceShares
  <2> QED BY <2>2, AccFacts
<1> HIDE DEF P
<1>3. (CHOOSE k \in Tasks : P(k)) = n
  BY <1>1, <1>2
<1> QED BY <1>3 DEF CalcID, P

-----------------------------------------------------------------------------
(* The inductive invariant *)

PC == {"idle", "await", "prompt", "complete", "sigs", "fund", "funding", "put",
       "release", "ok", "err", "gone"}
OpType == [pc : PC, id : Tasks \cup {0}, res : {"none", "ok", "err"}]
MsgType == [type : {"prop", "acc", "rej", "sig", "upd"}, n : Tasks, to : Clients]

\* The variables on which what is proved depends.
TypeOK ==
  /\ op \in [Tasks -> [Roles -> OpType]]
  /\ net \subseteq MsgType
  /\ sigs \in [Clients -> SUBSET Tasks]
  /\ stored \in [Clients -> [Tasks -> {"none", "InitSigning", "Funding", "Acting"}]]
  /\ signed \subseteq Clients \X Tasks /\ deposits \subseteq Clients \X Tasks
  /\ settled \in [Clients -> SUBSET Tasks]
  /\ enabled \in [Clients -> Int]
  /\ dropped \in [Clients -> SUBSET Tasks] /\ cache \in [Clients -> SUBSET Tasks]
  /\ handling \in [Clients -> SUBSET [id : Tasks, at : {"get", "cache"}]]

\* A channel that is being opened was accepted: at the proposee the acceptance is its
\* own, at the proposer it is one of the same proposal.
IdOK(t, r) ==
  LET o == op[t][r]
  IN /\ o.pc \in {"idle", "await", "prompt"} => o.id = 0
     /\ o.pc \in {"complete", "sigs", "fund", "funding", "put"} => o.id # 0
     /\ o.pc = "release" => o.res # "none"
     /\ o.id # 0 => Prop(o.id) = Prop(t)
     /\ o.id # 0 /\ r = 2 => o.id = t
     /\ o.id # 0 /\ r = 1 => op[o.id][2].pc \notin {"idle", "prompt"}

\* An acceptance is used once.
Once ==
  /\ \A t, u \in Tasks : op[t][1].id # 0 /\ op[t][1].id = op[u][1].id => t = u
  /\ \A m \in net : m.type = "acc" => /\ m.to = ClientOf(m.n, 1)
                                      /\ op[m.n][2].pc \notin {"idle", "prompt"}
                                      /\ \A t \in Tasks : op[t][1].id # m.n

\* The user retries only after the earlier call has returned.
Returned(t) == op[t][1].pc \in {"ok", "err", "gone"}
Turns ==
  \A t, u \in Tasks : Prop(u) = Prop(t) /\ u < t /\ op[t][1].pc # "idle" => Returned(u)

\* A signature that is under way to c, or has arrived, was given by the peer.
GotSig(c, id) ==
  \A r \in Roles : ClientOf(id, r) # c => <<ClientOf(id, r), id>> \in signed
SigOK ==
  /\ \A m \in net : m.type = "sig" => GotSig(m.to, m.n)
  /\ \A c \in Clients : \A id \in sigs[c] : GotSig(c, id)

Both(id) == \A r \in Roles : <<ClientOf(id, r), id>> \in signed
StageOK(t, r) ==
  LET o == op[t][r]
  IN /\ o.pc \in {"sigs", "fund", "funding", "put"} => <<ClientOf(t, r), o.id>> \in signed
     /\ o.pc \in {"fund", "funding", "put"} =>
          stored[ClientOf(t, r)][o.id] = "Funding" /\ Both(o.id)

\* A deposit was made by an opening that had both signatures.
DepositOK(d) ==
  /\ Both(d[2])
  /\ stored[d[1]][d[2]] \in {"Funding", "Acting"} \/ d[2] \in settled[d[1]]
  /\ \E t \in Tasks, r \in Roles :
       ClientOf(t, r) = d[1] /\ op[t][r].id = d[2] /\ op[t][r].pc # "complete"

\* version1Cache.enabled counts the openings of a client.
OpensAt(c) ==
  {x \in Tasks \X Roles : ClientOf(x[1], x[2]) = c /\ Opening(op[x[1]][x[2]])}
Counted(c) == enabled[c] = Cardinality(OpensAt(c))

Inv ==
  /\ TypeOK /\ Once /\ Turns /\ SigOK
  /\ \A t \in Tasks, r \in Roles : IdOK(t, r) /\ StageOK(t, r)
  /\ \A d \in deposits : DepositOK(d)
  /\ \A c \in Clients : Counted(c)

LEMMA Facts ==
  /\ Roles = {1, 2} /\ 0 \notin Tasks /\ Tasks \subseteq Nat
  /\ \A t \in Tasks, r \in Roles : ClientOf(t, r) \in Clients /\ PeerOf(t, r) \in Clients
  /\ \A t \in Tasks : ClientOf(t, 1) # ClientOf(t, 2)
  /\ \A t \in Tasks : PeerOf(t, 1) = ClientOf(t, 2) /\ PeerOf(t, 2) = ClientOf(t, 1)
<1>1. Roles = {1, 2}
  BY DEF Roles, proposerIdx, proposeeIdx
<1>2. \A t \in Tasks : PeerOf(t, 1) = ClientOf(t, 2) /\ PeerOf(t, 2) = ClientOf(t, 1)
  BY DEF PeerOf, ClientOf
<1>3. \A t \in Tasks : ClientOf(t, 1) \in Clients /\ ClientOf(t, 2) \in Clients
  BY DEF ClientOf, Clients
<1>4. \A t \in Tasks : ClientOf(t, 1) # ClientOf(t, 2)
  BY RequestAssumption DEF ClientOf
<1> QED BY <1>1, <1>2, <1>3, <1>4, RequestAssumption

LEMMA SameClients ==
  ASSUME NEW t, NEW u, Prop(t) = Prop(u), NEW r
  PROVE  ClientOf(t, r) = ClientOf(u, r) /\ PeerOf(t, r) = PeerOf(u, r)
<1>1. Request[t].peers = Request[u].peers
  BY PropFacts
<1> QED BY <1>1 DEF ClientOf, PeerOf

LEMMA InitInv == Init => Inv
<1> SUFFICES ASSUME Init PROVE Inv
  OBVIOUS
<1>1. TypeOK
  BY DEF Init, TypeOK, NoOp, OpType, PC
<1>2. \A t \in Tasks, r \in Roles : op[t][r] = NoOp
  BY DEF Init
<1>3. \A t \in Tasks, r \in Roles : op[t][r].pc = "idle" /\ op[t][r].id = 0
  BY <1>2 DEF NoOp
<1>4. \A t \in Tasks, r \in Roles : IdOK(t, r) /\ StageOK(t, r)
  BY <1>3 DEF IdOK, StageOK
<1>5. Once /\ Turns /\ SigOK
  BY <1>3, Facts DEF Init, Once, Turns, SigOK
<1>6. ASSUME NEW c \in Clients PROVE Counted(c)
  <2>1. OpensAt(c) = {}
    BY <1>3 DEF OpensAt, Opening
  <2> QED BY <2>1, FS_EmptySet DEF Counted, Init
<1> QED BY <1>1, <1>4, <1>5, <1>6 DEF Inv, Init

-----------------------------------------------------------------------------
(* One opening goes on *)

\* A client opens a channel once.
LEMMA OneOpening ==
  ASSUME Inv, NEW t \in Tasks, NEW r \in Roles, NEW u \in Tasks, NEW q \in Roles,
         op[t][r].id # 0, op[t][r].id = op[u][q].id, ClientOf(t, r) = ClientOf(u, q)
  PROVE  t = u /\ r = q
<1> DEFINE id == op[t][r].id
<1>1. id \in Tasks /\ IdOK(t, r) /\ IdOK(u, q)
  BY DEF Inv, TypeOK, OpType
<1>2. Prop(id) = Prop(t) /\ Prop(id) = Prop(u)
  BY <1>1 DEF IdOK
<1>3. ClientOf(id, r) = ClientOf(id, q)
  BY <1>2, SameClients
<1>4. r = q
  <2> HIDE DEF id
  <2>1. ClientOf(id, 1) # ClientOf(id, 2) /\ r \in {1, 2} /\ q \in {1, 2}
    BY <1>1, Facts
  <2> QED BY <1>3, <2>1
<1>5. CASE r = 1
  BY <1>4, <1>5 DEF Inv, Once
<1>6. CASE r = 2
  BY <1>1, <1>4, <1>6 DEF IdOK
<1> QED BY <1>4, <1>5, <1>6, Facts

\* The acceptance by which an opening got its channel identifier.
IsAcc(m) == m.type = "acc"

\* Which acceptance an opening uses, and whose turn it is.
LEMMA StepIds ==
  ASSUME Inv, NEW t \in Tasks, NEW r \in Roles, NEW o \in OpType,
         op' = [op EXCEPT ![t][r] = o],
         op[t][r].pc \notin {"ok", "err", "gone"} \/ o.pc \in {"ok", "err", "gone"},
         o.pc # "idle", o.pc = "prompt" => op[t][r].pc = "idle",
         o.pc \in {"await", "prompt"} => o.id = 0,
         o.pc \in {"complete", "sigs", "fund", "funding", "put"} => o.id # 0,
         o.pc = "release" => o.res # "none",
         op[t][r].pc = "idle" /\ r = 1 =>
           \A u \in Tasks : Prop(u) = Prop(t) /\ u < t => Returned(u),
         \/ /\ o.id = op[t][r].id
            /\ {m \in net' : IsAcc(m)} \subseteq net
         \/ /\ r = 2 /\ o.id = t /\ op[t][r].pc = "prompt" /\ o.pc = "complete"
            /\ \A m \in net' : IsAcc(m) => m \in net \/ (m.n = t /\ m.to = ClientOf(t, 1))
         \/ /\ r = 1 /\ op[t][r].id = 0 /\ o.id # 0 /\ Prop(o.id) = Prop(t)
            /\ \E m \in net : IsAcc(m) /\ m.n = o.id
            /\ \A m \in net' : IsAcc(m) => m \in net /\ m.n # o.id
  PROVE  /\ op' \in [Tasks -> [Roles -> OpType]] /\ op'[t][r] = o
         /\ \A u \in Tasks, q \in Roles : <<u, q>> # <<t, r>> => op'[u][q] = op[u][q]
         /\ Once' /\ Turns' /\ \A u \in Tasks, q \in Roles : IdOK(u, q)'
<1>1. /\ op' \in [Tasks -> [Roles -> OpType]] /\ op'[t][r] = o
      /\ \A u \in Tasks, q \in Roles : u # t \/ q # r => op'[u][q] = op[u][q]
  BY DEF Inv, TypeOK
<1>2. /\ op[t][r].pc \in PC /\ op[t][r].id \in Tasks \cup {0} /\ o.id \in Tasks \cup {0}
      /\ 1 \in Roles /\ 2 \in Roles /\ net \subseteq MsgType
  BY Facts DEF Inv, TypeOK, OpType
<1>3. IdOK(t, r)
  BY DEF Inv
<1>4. \A u \in Tasks : op[u][2].pc \notin {"idle", "prompt"} => op'[u][2].pc \notin {"idle", "prompt"}
  BY <1>1, <1>2
<1>5. ASSUME NEW u \in Tasks, NEW q \in Roles PROVE IdOK(u, q)'
  <2>1. IdOK(u, q) /\ op[u][q].id \in Tasks \cup {0}
    BY DEF Inv, TypeOK, OpType
  <2>2. CASE u # t \/ q # r
    BY <1>1, <1>4, <2>1, <2>2 DEF IdOK
  <2>3. CASE u = t /\ q = r
    <3>1. o.id # 0 => Prop(o.id) = Prop(t)
      BY <1>3 DEF IdOK
    <3>2. o.id # 0 /\ r = 2 => o.id = t
      BY <1>3 DEF IdOK
    <3>3. o.id # 0 /\ r = 1 => op'[o.id][2].pc \notin {"idle", "prompt"}
      <4>1. o.id # 0 /\ r = 1 => op[o.id][2].pc \notin {"idle", "prompt"}
        BY <1>3 DEF IdOK, Inv, Once, IsAcc
      <4> QED BY <1>2, <1>4, <4>1
    <3> QED BY <1>1, <2>3, <3>1, <3>2, <3>3 DEF IdOK
  <2> QED BY <2>2, <2>3
<1>6. Once'
  <2>1. ASSUME NEW u \in Tasks, NEW v \in Tasks, op'[u][1].id # 0, op'[u][1].id = op'[v][1].id
        PROVE  u = v
    <3>1. CASE o.id = op[t][r].id
      BY <1>1, <1>2, <2>1, <3>1 DEF Inv, Once
    <3>2. CASE r = 2
      BY <1>1, <1>2, <2>1, <3>2 DEF Inv, Once
    <3>3. CASE r = 1 /\ \E m \in net : IsAcc(m) /\ m.n = o.id
      <4>1. \A w \in Tasks : op[w][1].id # o.id
        BY <3>3 DEF Inv, Once, IsAcc
      <4> QED BY <1>1, <1>2, <2>1, <3>3, <4>1 DEF Inv, Once
    <3> QED BY <3>1, <3>2, <3>3
  <2>2. ASSUME NEW m \in net', IsAcc(m)
        PROVE  /\ m.to = ClientOf(m.n, 1) /\ op'[m.n][2].pc \notin {"idle", "prompt"}
               /\ \A u \in Tasks : op'[u][1].id # m.n
    <3>1. CASE m \in net
      <4>1. /\ m.n \in Tasks /\ m.to = ClientOf(m.n, 1)
            /\ op[m.n][2].pc \notin {"idle", "prompt"} /\ \A u \in Tasks : op[u][1].id # m.n
        BY <1>2, <2>2, <3>1 DEF Inv, Once, IsAcc, MsgType
      <4>2. r = 1 => o.id # m.n
        BY <1>2, <2>2, <4>1, Facts
      <4> QED BY <1>1, <1>2, <1>4, <4>1, <4>2
    <3>2. CASE /\ m.n = t /\ m.to = ClientOf(t, 1)
               /\ r = 2 /\ op[t][r].pc = "prompt" /\ o.pc = "complete"
      <4>1. op'[t][2].pc = "complete"
        BY <1>1, <3>2
      <4>2. \A u \in Tasks : op'[u][1].id = op[u][1].id
        BY <1>1, <1>2, <3>2
      <4>3. \A u \in Tasks : op[u][1].id # t
        <5> SUFFICES ASSUME NEW u \in Tasks, op[u][1].id = t PROVE FALSE
          OBVIOUS
        <5>1. IdOK(u, 1) /\ t # 0
          BY <1>2, Facts DEF Inv
        <5> QED BY <3>2, <5>1 DEF IdOK
      <4> QED BY <3>2, <4>1, <4>2, <4>3
    <3> QED BY <2>2, <3>1, <3>2
  <2> QED BY <2>1, <2>2 DEF Once, IsAcc
<1>7. Turns'
  <2> SUFFICES ASSUME NEW u \in Tasks, NEW v \in Tasks, Prop(v) = Prop(u), v < u,
                      op'[u][1].pc # "idle"
               PROVE  Returned(v)'
    BY DEF Turns
  <2>1. Returned(v) => Returned(v)'
    BY <1>1, <1>2 DEF Returned
  <2>2. CASE op[u][1].pc # "idle"
    BY <2>1, <2>2 DEF Inv, Turns
  <2>3. CASE op[u][1].pc = "idle"
    <3>1. u = t /\ r = 1
      BY <1>1, <1>2, <2>3
    <3> QED BY <2>1, <2>3, <3>1
  <2> QED BY <2>2, <2>3
<1> QED BY <1>1, <1>5, <1>6, <1>7

\* Sets of openings are finite.
LEMMA FiniteOpenings == \A S \in SUBSET (Tasks \X Roles) : IsFiniteSet(S)
<1>1. IsFiniteSet(1..2)
  <2>1. 1 \in Int /\ 2 \in Int
    OBVIOUS
  <2> QED BY <2>1, FS_Interval, Zenon
<1>2. Roles = 1..2
  BY Facts
<1>3. IsFiniteSet(Roles)
  BY <1>1, <1>2
<1>4. IsFiniteSet(Tasks \X Roles)
  BY <1>3, RequestAssumption, FS_Product
<1> QED BY <1>4, FS_Subset

LEMMA StepCount ==
  ASSUME Inv, NEW t \in Tasks, NEW r \in Roles, NEW o, op'[t][r] = o,
         \A u \in Tasks, q \in Roles : <<u, q>> # <<t, r>> => op'[u][q] = op[u][q],
         \/ enabled' = enabled /\ (Opening(o) <=> Opening(op[t][r]))
         \/ /\ enabled' = [enabled EXCEPT ![ClientOf(t, r)] = @ + 1]
            /\ Opening(o) /\ ~Opening(op[t][r])
         \/ /\ enabled' = [enabled EXCEPT ![ClientOf(t, r)] = @ - 1]
            /\ ~Opening(o) /\ Opening(op[t][r])
  PROVE  enabled' \in [Clients -> Int] /\ \A c \in Clients : Counted(c)'
<1> DEFINE d == ClientOf(t, r)
           x == <<t, r>>
<1>1. d \in Clients /\ x \in Tasks \X Roles /\ enabled \in [Clients -> Int]
  BY Facts DEF Inv, TypeOK
<1>2. ASSUME NEW c \in Clients, NEW y \in Tasks \X Roles, y # x
      PROVE  y \in OpensAt(c)' <=> y \in OpensAt(c)
  <2>1. y[1] \in Tasks /\ y[2] \in Roles /\ <<y[1], y[2]>> # <<t, r>>
    BY <1>2
  <2>2. op'[y[1]][y[2]] = op[y[1]][y[2]]
    BY <2>1
  <2> QED BY <2>2 DEF OpensAt
<1>3. ASSUME NEW c \in Clients
      PROVE  /\ x \in OpensAt(c) <=> c = d /\ Opening(op[t][r])
             /\ x \in OpensAt(c)' <=> c = d /\ Opening(o)
  BY <1>1 DEF OpensAt
<1>4. \A c \in Clients : OpensAt(c) \in SUBSET (Tasks \X Roles) /\ OpensAt(c)' \in SUBSET (Tasks \X Roles)
  BY DEF OpensAt
<1>5. \A c \in Clients : IsFiniteSet(OpensAt(c)) /\ Cardinality(OpensAt(c)) = enabled[c]
  BY <1>4, FiniteOpenings DEF Inv, Counted
<1>6. ASSUME NEW c \in Clients, x \in OpensAt(c)' <=> x \in OpensAt(c)
      PROVE  OpensAt(c)' = OpensAt(c)
  <2> HIDE DEF x
  <2>1. \A y \in Tasks \X Roles : y \in OpensAt(c)' <=> y \in OpensAt(c)
    BY <1>2, <1>6
  <2>2. OpensAt(c) \subseteq Tasks \X Roles /\ OpensAt(c)' \subseteq Tasks \X Roles
    BY <1>4
  <2> QED BY <2>1, <2>2, Zenon
<1>7. CASE enabled' = enabled /\ (Opening(o) <=> Opening(op[t][r]))
  <2>1. \A c \in Clients : OpensAt(c)' = OpensAt(c)
    <3> HIDE DEF x, d
    <3> QED BY <1>3, <1>7, <1>6
  <2> QED BY <1>1, <1>5, <1>7, <2>1 DEF Counted
<1>8. CASE /\ enabled' = [enabled EXCEPT ![d] = @ + 1]
           /\ Opening(o) /\ ~Opening(op[t][r])
  <2>1. ASSUME NEW c \in Clients PROVE Counted(c)'
    <3>1. CASE c # d
      <4>1. OpensAt(c)' = OpensAt(c)
        <5> HIDE DEF x, d
        <5> QED BY <1>3, <1>6, <3>1
      <4> QED BY <1>1, <1>5, <1>8, <3>1, <4>1 DEF Counted
    <3>2. CASE c = d
      <4>1. OpensAt(c)' = OpensAt(c) \cup {x} /\ x \notin OpensAt(c)
        <5> HIDE DEF x, d
        <5> QED BY <1>1, <1>2, <1>3, <1>4, <1>8, <3>2
      <4>2. Cardinality(OpensAt(c) \cup {x}) = Cardinality(OpensAt(c)) + 1
        <5> HIDE DEF x
        <5> QED BY <1>5, <4>1, FS_AddElement
      <4> QED BY <1>1, <1>5, <1>8, <3>2, <4>1, <4>2 DEF Counted
    <3> QED BY <3>1, <3>2
  <2> QED BY <1>1, <1>8, <2>1
<1>9. CASE /\ enabled' = [enabled EXCEPT ![d] = @ - 1]
           /\ ~Opening(o) /\ Opening(op[t][r])
  <2>1. ASSUME NEW c \in Clients PROVE Counted(c)'
    <3>1. CASE c # d
      <4>1. OpensAt(c)' = OpensAt(c)
        <5> HIDE DEF x, d
        <5> QED BY <1>3, <1>6, <3>1
      <4> QED BY <1>1, <1>5, <1>9, <3>1, <4>1 DEF Counted
    <3>2. CASE c = d
      <4>1. OpensAt(c)' = OpensAt(c) \ {x} /\ x \in OpensAt(c)
        <5> HIDE DEF x, d
        <5> QED BY <1>1, <1>2, <1>3, <1>4, <1>9, <3>2
      <4>2. Cardinality(OpensAt(c) \ {x}) = Cardinality(OpensAt(c)) - 1
        <5> HIDE DEF x
        <5> QED BY <1>5, <4>1, FS_RemoveElement
      <4> QED BY <1>1, <1>5, <1>9, <3>2, <4>1, <4>2 DEF Counted
    <3> QED BY <3>1, <3>2
  <2> QED BY <1>1, <1>9, <2>1
<1> QED BY <1>7, <1>8, <1>9

\* What was signed, stored and deposited for the channel of one opening.
LEMMA StepSigns ==
  ASSUME Inv, NEW t \in Tasks, NEW r \in Roles, NEW o \in OpType, op'[t][r] = o,
         \A u \in Tasks, q \in Roles : <<u, q>> # <<t, r>> => op'[u][q] = op[u][q],
         \/ o.id = op[t][r].id /\ o.pc # "complete"
         \/ op[t][r].id = 0 /\ stored' = stored /\ deposits' = deposits,
         signed \subseteq signed', sigs' = sigs, settled' = settled,
         \A m \in net' : m.type = "sig" => m \in net \/ GotSig(m.to, m.n)',
         \/ stored' = stored
         \/ \E v \in {"InitSigning", "Funding", "Acting"} :
              /\ stored' = [stored EXCEPT ![ClientOf(t, r)][o.id] = v] /\ o.id # 0
              /\ v = "InitSigning" => op[t][r].pc = "complete",
         \/ deposits' = deposits
         \/ /\ deposits' = deposits \cup {<<ClientOf(t, r), o.id>>} /\ o.id # 0
            /\ Both(o.id) /\ stored' = stored /\ stored[ClientOf(t, r)][o.id] = "Funding",
         StageOK(t, r)'
  PROVE  /\ SigOK' /\ \A u \in Tasks, q \in Roles : StageOK(u, q)'
         /\ \A d \in deposits' : DepositOK(d)'
<1> DEFINE c == ClientOf(t, r)
<1>1. \A id : Both(id) => Both(id)'
  BY DEF Both
<1>2. \A d, id : GotSig(d, id) => GotSig(d, id)'
  BY DEF GotSig
<1>3. SigOK'
  BY <1>2 DEF Inv, SigOK
<1>4. /\ c \in Clients /\ o.id \in Tasks \cup {0} /\ op[t][r].id \in Tasks \cup {0}
      /\ stored \in [Clients -> [Tasks -> {"none", "InitSigning", "Funding", "Acting"}]]
  BY Facts DEF Inv, TypeOK, OpType
<1>5. \A d \in Clients, id \in Tasks : d # c \/ id # o.id => stored'[d][id] = stored[d][id]
  BY <1>4
<1>6. ASSUME NEW u \in Tasks, NEW q \in Roles PROVE StageOK(u, q)'
  <2>1. CASE u = t /\ q = r
    BY <2>1
  <2>2. CASE u # t \/ q # r
    <3>1. op'[u][q] = op[u][q] /\ StageOK(u, q) /\ IdOK(u, q) /\ ClientOf(u, q) \in Clients
          /\ op[u][q].id \in Tasks \cup {0}
      BY <2>2, Facts DEF Inv, TypeOK, OpType
    <3>2. ASSUME op[u][q].pc \in {"fund", "funding", "put"}
          PROVE  stored'[ClientOf(u, q)][op[u][q].id] = "Funding"
      <4>1. op[u][q].id \in Tasks /\ op[u][q].id # 0 /\ stored[ClientOf(u, q)][op[u][q].id] = "Funding"
        BY <3>1, <3>2 DEF IdOK, StageOK
      <4>2. CASE stored' = stored
        BY <4>1, <4>2
      <4>3. CASE stored' # stored
        <5>1. o.id = op[t][r].id
          BY <4>3
        <5>2. ClientOf(u, q) # c \/ op[u][q].id # o.id
          BY <2>2, <4>1, <5>1, OneOpening
        <5> QED BY <1>5, <3>1, <4>1, <5>2
      <4> QED BY <4>2, <4>3
    <3> QED BY <1>1, <3>1, <3>2 DEF StageOK
  <2> QED BY <2>1, <2>2
<1>7. ASSUME NEW d \in deposits, NEW u \in Tasks, NEW q \in Roles,
             ClientOf(u, q) = d[1], op[u][q].id = d[2], op[u][q].pc # "complete"
      PROVE  ClientOf(u, q) = d[1] /\ op'[u][q].id = d[2] /\ op'[u][q].pc # "complete"
  <2>1. d[2] \in Tasks /\ d[2] # 0
    BY Facts DEF Inv, TypeOK
  <2>2. CASE u # t \/ q # r
    BY <1>7, <2>2
  <2>3. CASE u = t /\ q = r
    BY <1>7, <2>1, <2>3
  <2> QED BY <2>2, <2>3
<1>8. ASSUME NEW d \in deposits PROVE DepositOK(d)'
  <2>1. DepositOK(d) /\ d[1] \in Clients /\ d[2] \in Tasks
    BY DEF Inv, TypeOK
  <2>2. PICK u \in Tasks, q \in Roles :
          ClientOf(u, q) = d[1] /\ op[u][q].id = d[2] /\ op[u][q].pc # "complete"
    BY <2>1 DEF DepositOK
  <2>3. ClientOf(u, q) = d[1] /\ op'[u][q].id = d[2] /\ op'[u][q].pc # "complete"
    BY <1>7, <2>2
  <2>4. stored'[d[1]][d[2]] \in {"Funding", "Acting"} \/ d[2] \in settled'[d[1]]
    <3>1. CASE stored'[d[1]][d[2]] = stored[d[1]][d[2]]
      BY <2>1, <3>1 DEF DepositOK
    <3>2. CASE stored'[d[1]][d[2]] # stored[d[1]][d[2]]
      <4>1. d[1] = c /\ d[2] = o.id /\ stored' # stored
        BY <1>5, <2>1, <3>2
      <4>2. PICK v \in {"InitSigning", "Funding", "Acting"} :
              /\ stored' = [stored EXCEPT ![c][o.id] = v] /\ o.id # 0
              /\ v = "InitSigning" => op[t][r].pc = "complete"
        BY <4>1
      <4>3. stored'[d[1]][d[2]] = v
        BY <1>4, <2>1, <4>1, <4>2
      <4>4. o.id = op[t][r].id
        BY <4>1
      <4>5. u = t /\ q = r
        BY <2>2, <4>1, <4>2, <4>4, OneOpening
      <4> QED BY <2>2, <4>2, <4>3, <4>5
    <3> QED BY <3>1, <3>2
  <2> QED BY <1>1, <2>1, <2>3, <2>4 DEF DepositOK
<1>9. ASSUME deposits' = deposits \cup {<<c, o.id>>}, o.id # 0,
             Both(o.id), stored' = stored, stored[c][o.id] = "Funding"
      PROVE  deposits' = deposits \/ DepositOK(<<c, o.id>>)'
  <2> SUFFICES ASSUME deposits' # deposits PROVE DepositOK(<<c, o.id>>)'
    OBVIOUS
  <2>1. o.pc # "complete"
    OBVIOUS
  <2> QED BY <1>1, <1>9, <2>1 DEF DepositOK
<1> QED BY <1>3, <1>6, <1>8, <1>9

\* An opening goes from op[t][r] to o: what the actions of an opening have in common.
LEMMA MoveInv ==
  ASSUME Inv, NEW t \in Tasks, NEW r \in Roles, NEW o \in OpType,
         op' = [op EXCEPT ![t][r] = o],
         op[t][r].pc \notin {"ok", "err", "gone"} \/ o.pc \in {"ok", "err", "gone"},
         o.pc # "idle", o.pc = "prompt" => op[t][r].pc = "idle",
         o.pc \in {"await", "prompt"} => o.id = 0,
         o.pc \in {"complete", "sigs", "fund", "funding", "put"} => o.id # 0,
         o.pc = "release" => o.res # "none",
         op[t][r].pc = "idle" /\ r = 1 =>
           \A u \in Tasks : Prop(u) = Prop(t) /\ u < t => Returned(u),
         \/ /\ o.id = op[t][r].id /\ o.pc # "complete"
            /\ {m \in net' : IsAcc(m)} \subseteq net
         \/ /\ r = 2 /\ o.id = t /\ op[t][r].pc = "prompt" /\ o.pc = "complete"
            /\ \A m \in net' : IsAcc(m) => m \in net \/ (m.n = t /\ m.to = ClientOf(t, 1))
            /\ stored' = stored /\ deposits' = deposits
         \/ /\ r = 1 /\ op[t][r].id = 0 /\ o.id # 0 /\ Prop(o.id) = Prop(t)
            /\ \E m \in net : IsAcc(m) /\ m.n = o.id
            /\ \A m \in net' : IsAcc(m) => m \in net /\ m.n # o.id
            /\ stored' = stored /\ deposits' = deposits,
         \/ enabled' = enabled /\ (Opening(o) <=> Opening(op[t][r]))
         \/ /\ enabled' = [enabled EXCEPT ![ClientOf(t, r)] = @ + 1]
            /\ Opening(o) /\ ~Opening(op[t][r])
         \/ /\ enabled' = [enabled EXCEPT ![ClientOf(t, r)] = @ - 1]
            /\ ~Opening(o) /\ Opening(op[t][r]),
         sigs' = sigs, settled' = settled, net' \subseteq MsgType,
         signed' = signed \/ (signed' = signed \cup {<<ClientOf(t, r), o.id>>} /\ o.id # 0),
         \A m \in net' : m.type = "sig" => m \in net \/ GotSig(m.to, m.n)',
         \/ stored' = stored
         \/ \E v \in {"InitSigning", "Funding", "Acting"} :
              /\ stored' = [stored EXCEPT ![ClientOf(t, r)][o.id] = v] /\ o.id # 0
              /\ v = "InitSigning" => op[t][r].pc = "complete",
         \/ deposits' = deposits
         \/ /\ deposits' = deposits \cup {<<ClientOf(t, r), o.id>>} /\ o.id # 0
            /\ Both(o.id) /\ stored' = stored /\ stored[ClientOf(t, r)][o.id] = "Funding",
         o.pc \in {"sigs", "fund", "funding", "put"} => <<ClientOf(t, r), o.id>> \in signed',
         o.pc \in {"fund", "funding", "put"} =>
           stored'[ClientOf(t, r)][o.id] = "Funding" /\ Both(o.id),
         dropped' = dropped, cache' \in [Clients -> SUBSET Tasks],
         handling' \in [Clients -> SUBSET [id : Tasks, at : {"get", "cache"}]]
  PROVE  Inv'
<1>1. /\ op' \in [Tasks -> [Roles -> OpType]] /\ op'[t][r] = o
      /\ \A u \in Tasks, q \in Roles : <<u, q>> # <<t, r>> => op'[u][q] = op[u][q]
      /\ Once' /\ Turns' /\ \A u \in Tasks, q \in Roles : IdOK(u, q)'
  BY StepIds
<1>2. enabled' \in [Clients -> Int] /\ \A c \in Clients : Counted(c)'
  BY <1>1, StepCount
<1>3. signed \subseteq signed'
  OBVIOUS
<1>4. StageOK(t, r)'
  BY <1>1, <1>3 DEF StageOK, Both
<1>5. op[t][r].pc = "prompt" => op[t][r].id = 0
  BY DEF Inv, IdOK
<1>6. /\ SigOK' /\ \A u \in Tasks, q \in Roles : StageOK(u, q)'
      /\ \A d \in deposits' : DepositOK(d)'
  BY <1>1, <1>3, <1>4, <1>5, StepSigns
<1>7. TypeOK'
  <2>1. o.id \in Tasks \cup {0} /\ ClientOf(t, r) \in Clients
    BY Facts DEF OpType
  <2>2. signed' \subseteq Clients \X Tasks /\ deposits' \subseteq Clients \X Tasks
    BY <2>1 DEF Inv, TypeOK
  <2>3. stored' \in [Clients -> [Tasks -> {"none", "InitSigning", "Funding", "Acting"}]]
    <3>1. stored \in [Clients -> [Tasks -> {"none", "InitSigning", "Funding", "Acting"}]]
      BY DEF Inv, TypeOK
    <3>2. ASSUME NEW v \in {"InitSigning", "Funding", "Acting"}, o.id # 0,
                 stored' = [stored EXCEPT ![ClientOf(t, r)][o.id] = v]
          PROVE  stored' \in [Clients -> [Tasks -> {"none", "InitSigning", "Funding", "Acting"}]]
      BY <2>1, <3>1, <3>2
    <3> QED BY <3>1, <3>2
  <2> QED BY <1>1, <1>2, <2>2, <2>3 DEF Inv, TypeOK
<1> QED BY <1>1, <1>2, <1>6, <1>7 DEF Inv

LEMMA GoOp ==
  ASSUME Inv, NEW t \in Tasks, NEW r \in Roles, NEW pc \in PC, Go(t, r, pc)
  PROVE  \E o \in OpType : /\ op' = [op EXCEPT ![t][r] = o] /\ o.pc = pc
                           /\ o.id = op[t][r].id /\ o.res = op[t][r].res
<1> DEFINE o == [op[t][r] EXCEPT !.pc = pc]
<1>1. op[t][r] \in OpType
  BY DEF Inv, TypeOK
<1>2. o \in OpType /\ o.pc = pc /\ o.id = op[t][r].id /\ o.res = op[t][r].res
  BY <1>1 DEF OpType
<1>3. op' = [op EXCEPT ![t][r] = o]
  BY DEF Go, SetOp
<1> HIDE DEF o
<1> QED BY <1>2, <1>3

LEMMA EndOp ==
  ASSUME Inv, NEW t \in Tasks, NEW r \in Roles, NEW res \in {"ok", "err"}, End(t, r, res)
  PROVE  \E o \in OpType : /\ op' = [op EXCEPT ![t][r] = o] /\ o.pc = "release"
                           /\ o.id = op[t][r].id /\ o.res = res
<1> DEFINE o == [op[t][r] EXCEPT !.pc = "release", !.res = res]
<1>1. op[t][r] \in OpType
  BY DEF Inv, TypeOK
<1>2. o \in OpType /\ o.pc = "release" /\ o.id = op[t][r].id /\ o.res = res
  BY <1>1 DEF OpType, PC
<1>3. op' = [op EXCEPT ![t][r] = o]
  BY DEF End, SetOp
<1> HIDE DEF o
<1> QED BY <1>2, <1>3

LEMMA CompleteOp ==
  ASSUME NEW p \in OpType, NEW id \in Tasks
  PROVE  \E o \in OpType : /\ o = [p EXCEPT !.pc = "complete", !.id = id]
                           /\ o.pc = "complete" /\ o.id = id
<1> DEFINE o == [p EXCEPT !.pc = "complete", !.id = id]
<1>1. o \in OpType /\ o.pc = "complete" /\ o.id = id
  BY DEF OpType, PC
<1> HIDE DEF o
<1>2. o = o
  OBVIOUS
<1> QED BY <1>1, <1>2 DEF o

\* An opening goes on, or gives up, and changes nothing but the message set.
LEMMA PlainMove ==
  ASSUME Inv, NEW t \in Tasks, NEW r \in Roles, NEW o \in OpType,
         op' = [op EXCEPT ![t][r] = o], o.id = op[t][r].id,
         op[t][r].pc \notin {"ok", "err", "gone"}, o.pc \notin {"idle", "complete", "sigs", "fund"},
         o.pc = "prompt" => op[t][r].pc = "idle", o.pc = "await" => op[t][r].pc = "idle",
         o.pc \in {"funding", "put"} => op[t][r].pc \in {"fund", "funding"},
         o.pc = "release" => o.res # "none",
         op[t][r].pc = "idle" /\ r = 1 =>
           \A u \in Tasks : Prop(u) = Prop(t) /\ u < t => Returned(u),
         \/ enabled' = enabled /\ (Opening(o) <=> Opening(op[t][r]))
         \/ /\ enabled' = [enabled EXCEPT ![ClientOf(t, r)] = @ + 1]
            /\ Opening(o) /\ ~Opening(op[t][r])
         \/ /\ enabled' = [enabled EXCEPT ![ClientOf(t, r)] = @ - 1]
            /\ ~Opening(o) /\ Opening(op[t][r]),
         net' \subseteq MsgType, \A m \in net' : m \in net \/ m.type \in {"prop", "rej"},
         UNCHANGED <<sigs, settled, signed, stored, deposits, dropped>>,
         cache' \in [Clients -> SUBSET Tasks],
         handling' \in [Clients -> SUBSET [id : Tasks, at : {"get", "cache"}]]
  PROVE  Inv'
<1>1. IdOK(t, r) /\ StageOK(t, r)
  BY DEF Inv
<1>2. o.pc \in {"await", "prompt"} => o.id = 0
  BY <1>1 DEF IdOK
<1>3. o.pc \in {"complete", "sigs", "fund", "funding", "put"} => o.id # 0
  BY <1>1 DEF IdOK
<1>4. {m \in net' : IsAcc(m)} \subseteq net /\ \A m \in net' : m.type = "sig" => m \in net
  BY DEF IsAcc
<1>5. /\ o.pc \in {"sigs", "fund", "funding", "put"} => <<ClientOf(t, r), o.id>> \in signed'
      /\ o.pc \in {"fund", "funding", "put"} => stored'[ClientOf(t, r)][o.id] = "Funding" /\ Both(o.id)
  BY <1>1 DEF StageOK
<1> QED BY <1>2, <1>3, <1>4, <1>5, MoveInv

-----------------------------------------------------------------------------
(* The actions *)

LEMMA NewMsg ==
  ASSUME Inv, NEW type \in {"prop", "acc", "rej", "sig", "upd"}, NEW n \in Tasks, NEW to \in Clients,
         pubMsg(type, n, to)
  PROVE  net' \subseteq MsgType /\ \A m \in net' : m \in net \/ (m.type = type /\ m.n = n /\ m.to = to)
<1>1. [type |-> type, n |-> n, to |-> to] \in MsgType
  BY DEF MsgType
<1> QED BY <1>1 DEF pubMsg, Inv, TypeOK

LEMMA ProposeInv ==
  ASSUME Inv, NEW t \in Tasks, ProposeChannel(t)
  PROVE  Inv'
<1>1. /\ op[t][1].pc = "idle" /\ 1 \in Roles
      /\ \A u \in Tasks : Prop(u) = Prop(t) /\ u < t => Returned(u)
      /\ UNCHANGED <<sigs, settled, signed, stored, deposits>>
  BY Facts DEF ProposeChannel, At, Returned, clientVars
<1>2. /\ cache \in [Clients -> SUBSET Tasks] /\ net \subseteq MsgType
      /\ handling \in [Clients -> SUBSET [id : Tasks, at : {"get", "cache"}]]
      /\ ~Opening(op[t][1])
  BY <1>1 DEF Inv, TypeOK, Opening
<1>3. CASE /\ enableVer1Cache(ClientOf(t, 1)) /\ Go(t, 1, "await") /\ pubMsg("prop", t, PeerOf(t, 1))
  <2>1. PICK o \in OpType : op' = [op EXCEPT ![t][1] = o] /\ o.pc = "await" /\ o.id = op[t][1].id
    BY <1>1, <1>3, GoOp DEF PC
  <2>2. net' \subseteq MsgType /\ \A m \in net' : m \in net \/ m.type \in {"prop", "rej"}
    BY <1>1, <1>3, NewMsg, Facts
  <2>3. Opening(o) /\ enabled' = [enabled EXCEPT ![ClientOf(t, 1)] = @ + 1]
        /\ UNCHANGED <<cache, handling, dropped>>
    BY <1>3, <2>1 DEF Opening, enableVer1Cache
  <2> QED BY <1>1, <1>2, <2>1, <2>2, <2>3, PlainMove
<1>4. CASE enableVer1Cache(ClientOf(t, 1)) /\ End(t, 1, "err") /\ UNCHANGED net
  <2>1. PICK o \in OpType : op' = [op EXCEPT ![t][1] = o] /\ o.pc = "release" /\ o.id = op[t][1].id
                            /\ o.res = "err"
    BY <1>1, <1>4, EndOp
  <2>2. Opening(o) /\ enabled' = [enabled EXCEPT ![ClientOf(t, 1)] = @ + 1]
        /\ UNCHANGED <<cache, handling, dropped>>
    BY <1>4, <2>1 DEF Opening, enableVer1Cache
  <2> QED BY <1>1, <1>2, <1>4, <2>1, <2>2, PlainMove
<1>5. CASE Go(t, 1, "err") /\ UNCHANGED <<net, cacheVars>>
  <2>1. PICK o \in OpType : op' = [op EXCEPT ![t][1] = o] /\ o.pc = "err" /\ o.id = op[t][1].id
    BY <1>1, <1>5, GoOp DEF PC
  <2>2. ~Opening(o) /\ UNCHANGED <<enabled, cache, handling, dropped, net>>
    BY <1>5, <2>1 DEF Opening, cacheVars
  <2> QED BY <1>1, <1>2, <2>1, <2>2, PlainMove
<1> QED BY <1>3, <1>4, <1>5 DEF ProposeChannel

\* No opening goes on: messages are taken, updates are sent and handled, a channel is
\* settled, a client is closed.
LEMMA RestInv ==
  ASSUME Inv, UNCHANGED <<op, signed, deposits, enabled>>,
         net' \subseteq MsgType, \A m \in net' : m \in net \/ m.type = "upd",
         sigs' \in [Clients -> SUBSET Tasks],
         \A c \in Clients : \A id \in sigs'[c] : GotSig(c, id),
         stored' \in [Clients -> [Tasks -> {"none", "InitSigning", "Funding", "Acting"}]],
         settled' \in [Clients -> SUBSET Tasks],
         \A c \in Clients : settled[c] \subseteq settled'[c],
         \A c \in Clients, id \in Tasks :
           \/ stored'[c][id] = stored[c][id]
           \/ stored[c][id] = "Acting" /\ id \in settled'[c],
         dropped' \in [Clients -> SUBSET Tasks], cache' \in [Clients -> SUBSET Tasks],
         handling' \in [Clients -> SUBSET [id : Tasks, at : {"get", "cache"}]]
  PROVE  Inv'
<1>1. TypeOK'
  BY DEF Inv, TypeOK
<1>2. Once' /\ Turns' /\ \A t \in Tasks, r \in Roles : IdOK(t, r)'
  BY DEF Inv, Once, Turns, Returned, IdOK
<1>3. SigOK'
  BY DEF Inv, SigOK, GotSig
<1>4. ASSUME NEW t \in Tasks, NEW r \in Roles PROVE StageOK(t, r)'
  <2>1. StageOK(t, r) /\ IdOK(t, r) /\ ClientOf(t, r) \in Clients /\ op[t][r].id \in Tasks \cup {0}
    BY Facts DEF Inv, TypeOK, OpType
  <2>2. op[t][r].pc \in {"fund", "funding", "put"} => op[t][r].id \in Tasks
    BY <2>1 DEF IdOK
  <2> QED BY <2>1, <2>2 DEF StageOK, Both
<1>5. ASSUME NEW d \in deposits' PROVE DepositOK(d)'
  <2>1. DepositOK(d) /\ d[1] \in Clients /\ d[2] \in Tasks
    BY DEF Inv, TypeOK
  <2> QED BY <2>1 DEF DepositOK, Both
<1>6. \A c \in Clients : Counted(c)'
  BY DEF Inv, Counted, OpensAt
<1> QED BY <1>1, <1>2, <1>3, <1>4, <1>5, <1>6 DEF Inv

LEMMA HandleProposalInv ==
  ASSUME Inv, NEW m \in net, handleChannelProposal(m)
  PROVE  Inv'
<1>1. /\ m.n \in Tasks /\ 2 \in Roles /\ net' = net \ {m} /\ net' \subseteq MsgType
      /\ UNCHANGED <<sigs, settled, signed, stored, deposits, dropped, enabled, cache, handling>>
  BY Facts DEF handleChannelProposal, cacheVars, clientVars, Inv, TypeOK, MsgType
<1>2. /\ cache \in [Clients -> SUBSET Tasks]
      /\ handling \in [Clients -> SUBSET [id : Tasks, at : {"get", "cache"}]]
      /\ dropped \in [Clients -> SUBSET Tasks] /\ settled \in [Clients -> SUBSET Tasks]
      /\ sigs \in [Clients -> SUBSET Tasks]
      /\ stored \in [Clients -> [Tasks -> {"none", "InitSigning", "Funding", "Acting"}]]
  BY DEF Inv, TypeOK
<1>3. ASSUME NEW t \in Tasks, op[t][2].pc = "idle", Go(t, 2, "prompt") PROVE Inv'
  <2>1. PICK o \in OpType : op' = [op EXCEPT ![t][2] = o] /\ o.pc = "prompt" /\ o.id = op[t][2].id
    BY <1>1, <1>3, GoOp DEF PC
  <2>2. ~Opening(o) /\ ~Opening(op[t][2]) /\ \A k \in net' : k \in net \/ k.type \in {"prop", "rej"}
    BY <1>1, <1>3, <2>1 DEF Opening
  <2>3. /\ 2 \in Roles /\ net' \subseteq MsgType
        /\ UNCHANGED <<sigs, settled, signed, stored, deposits, dropped, enabled, cache, handling>>
    BY <1>1
  <2>4. /\ op[t][2].pc = "idle" /\ (Opening(o) <=> Opening(op[t][2]))
        /\ ~(op[t][2].pc = "idle" /\ 2 = 1)
    BY <1>3, <2>2
  <2> QED BY <1>2, <2>1, <2>2, <2>3, <2>4, PlainMove
<1>4. CASE UNCHANGED op
  <2>1. \A c \in Clients : \A id \in sigs'[c] : GotSig(c, id)
    BY <1>1 DEF Inv, SigOK
  <2> QED BY <1>1, <1>2, <1>4, <2>1, RestInv
<1> QED BY <1>1, <1>3, <1>4 DEF handleChannelProposal

LEMMA AcceptInv ==
  ASSUME Inv, NEW t \in Tasks, AcceptProposal(t)
  PROVE  Inv'
<1>1. /\ op[t][2].pc = "prompt" /\ 2 \in Roles /\ ~Opening(op[t][2])
      /\ UNCHANGED <<sigs, settled, signed, stored, deposits>>
      /\ enabled' = [enabled EXCEPT ![ClientOf(t, 2)] = @ + 1]
      /\ UNCHANGED <<cache, handling, dropped>>
  BY Facts DEF AcceptProposal, At, handleChannelProposalAcc, enableVer1Cache, clientVars, Opening
<1>2. /\ cache \in [Clients -> SUBSET Tasks] /\ net \subseteq MsgType
      /\ handling \in [Clients -> SUBSET [id : Tasks, at : {"get", "cache"}]]
  BY DEF Inv, TypeOK
<1>3. CASE /\ SetOp(t, 2, [op[t][2] EXCEPT !.pc = "complete", !.id = CalcID(t, t)])
           /\ pubMsg("acc", t, PeerOf(t, 2))
  <2>1. CalcID(t, t) = t
    BY ChannelOfAcc
  <2>2. PICK o \in OpType : op' = [op EXCEPT ![t][2] = o] /\ o.pc = "complete" /\ o.id = t
    <3>1. op[t][2] \in OpType
      BY <1>1 DEF Inv, TypeOK
    <3>2. PICK o \in OpType : /\ o = [op[t][2] EXCEPT !.pc = "complete", !.id = t]
                              /\ o.pc = "complete" /\ o.id = t
      BY <3>1, CompleteOp
    <3>3. op' = [op EXCEPT ![t][2] = o]
      BY <1>3, <2>1, <3>2 DEF SetOp
    <3> QED BY <3>2, <3>3
  <2>3. net' \subseteq MsgType
        /\ \A m \in net' : m \in net \/ (m.type = "acc" /\ m.n = t /\ m.to = ClientOf(t, 1))
    BY <1>1, <1>3, NewMsg, Facts
  <2>4. /\ \A m \in net' : IsAcc(m) => m \in net \/ (m.n = t /\ m.to = ClientOf(t, 1))
        /\ \A m \in net' : m.type = "sig" => m \in net
    BY <2>3
  <2>5. Opening(o) /\ t # 0
    BY <2>2, Facts DEF Opening
  <2> QED BY <1>1, <1>2, <2>2, <2>3, <2>4, <2>5, MoveInv
<1>4. CASE End(t, 2, "err") /\ UNCHANGED net
  <2>1. PICK o \in OpType : op' = [op EXCEPT ![t][2] = o] /\ o.pc = "release" /\ o.id = op[t][2].id
                            /\ o.res = "err"
    BY <1>1, <1>4, EndOp
  <2>2. Opening(o)
    BY <2>1 DEF Opening
  <2> QED BY <1>1, <1>2, <1>4, <2>1, <2>2, PlainMove
<1> QED BY <1>3, <1>4 DEF AcceptProposal, handleChannelProposalAcc

LEMMA RejectInv ==
  ASSUME Inv, NEW t \in Tasks, RejectProposal(t)
  PROVE  Inv'
<1>1. /\ op[t][2].pc = "prompt" /\ 2 \in Roles /\ ~Opening(op[t][2])
      /\ UNCHANGED <<sigs, settled, signed, stored, deposits, enabled, cache, handling, dropped>>
      /\ Go(t, 2, "err") /\ pubMsg("rej", t, PeerOf(t, 2))
  BY Facts DEF RejectProposal, At, handleChannelProposalRej, cacheVars, clientVars, Opening
<1>2. /\ cache \in [Clients -> SUBSET Tasks]
      /\ handling \in [Clients -> SUBSET [id : Tasks, at : {"get", "cache"}]]
  BY DEF Inv, TypeOK
<1>3. PICK o \in OpType : op' = [op EXCEPT ![t][2] = o] /\ o.pc = "err" /\ o.id = op[t][2].id
  BY <1>1, GoOp DEF PC
<1>4. net' \subseteq MsgType /\ \A m \in net' : m \in net \/ m.type \in {"prop", "rej"}
  BY <1>1, NewMsg, Facts
<1>5. ~Opening(o)
  BY <1>3 DEF Opening
<1> QED BY <1>1, <1>2, <1>3, <1>4, <1>5, PlainMove

\* An acceptance reaches at most one call: an earlier one with the same proposal has
\* returned.
LEMMA AnswerInv ==
  ASSUME Inv, NEW m \in net, RecvAnswer(m)
  PROVE  Inv'
<1> DEFINE waiting == {t \in Tasks :
             /\ At(t, 1, "await") /\ ClientOf(t, 1) = m.to
             /\ ProposalID(Prop(t)) = ProposalID(Prop(m.n))}
           valid(t) == m.type = "acc" /\ validChannelProposalAcc(Prop(t), AccOf(m.n))
           next(t) ==
             IF valid(t)
             THEN [op[t][1] EXCEPT !.pc = "complete", !.id = CalcID(t, m.n)]
             ELSE [op[t][1] EXCEPT !.pc = "release", !.res = "err"]
<1>1. /\ m.n \in Tasks /\ 1 \in Roles /\ net' = net \ {m} /\ net' \subseteq MsgType
      /\ UNCHANGED <<sigs, settled, signed, stored, deposits, dropped, enabled, cache, handling>>
      /\ op' = [t \in Tasks |-> IF t \in waiting THEN [op[t] EXCEPT ![1] = next(t)] ELSE op[t]]
  BY Facts DEF RecvAnswer, cacheVars, clientVars, Inv, TypeOK, MsgType
<1>2. /\ cache \in [Clients -> SUBSET Tasks]
      /\ handling \in [Clients -> SUBSET [id : Tasks, at : {"get", "cache"}]]
      /\ dropped \in [Clients -> SUBSET Tasks] /\ settled \in [Clients -> SUBSET Tasks]
      /\ sigs \in [Clients -> SUBSET Tasks]
      /\ stored \in [Clients -> [Tasks -> {"none", "InitSigning", "Funding", "Acting"}]]
      /\ op \in [Tasks -> [Roles -> OpType]]
  BY DEF Inv, TypeOK
<1>3. \A t \in waiting : t \in Tasks /\ op[t][1].pc = "await" /\ Prop(t) = Prop(m.n)
  BY SameProposal DEF At
<1>4. ASSUME NEW t \in waiting, NEW u \in waiting PROVE t = u
  <2>1. t \in Tasks /\ u \in Tasks /\ Prop(t) = Prop(u) /\ op[t][1].pc = "await" /\ op[u][1].pc = "await"
    BY <1>3
  <2>2. ~(t < u) /\ ~(u < t)
    BY <2>1 DEF Inv, Turns, Returned
  <2> QED BY <2>1, <2>2, Facts
<1> HIDE DEF waiting, next, valid
<1>5. CASE waiting = {}
  <2>1. op' = op
    BY <1>1, <1>2, <1>5
  <2>2. \A c \in Clients : \A id \in sigs'[c] : GotSig(c, id)
    BY <1>1 DEF Inv, SigOK
  <2> QED BY <1>1, <1>2, <2>1, <2>2, RestInv
<1>6. ASSUME NEW t \in Tasks, t \in waiting PROVE Inv'
  <2>1. op[t][1].pc = "await" /\ Prop(t) = Prop(m.n) /\ Opening(op[t][1]) /\ op[t][1].id = 0
    BY <1>1, <1>3, <1>6 DEF Opening, Inv, IdOK
  <2>2. op' = [op EXCEPT ![t][1] = next(t)]
    <3>1. \A u \in Tasks : u \in waiting <=> u = t
      BY <1>4, <1>6
    <3>2. op' = [u \in Tasks |-> IF u = t THEN [op[t] EXCEPT ![1] = next(t)] ELSE op[u]]
      BY <1>1, <3>1
    <3> QED BY <1>2, <3>2
  <2>3. /\ \A k \in net' : k.type = "sig" => k \in net
        /\ 1 \in Roles /\ net' \subseteq MsgType
        /\ UNCHANGED <<sigs, settled, signed, stored, deposits, dropped, enabled, cache, handling>>
    BY <1>1
  <2>4. CASE valid(t)
    <3>1. PICK n \in Tasks : n = m.n /\ m.type = "acc" /\ CalcID(t, n) = n /\ n # 0 /\ Prop(t) = Prop(n)
      BY <1>1, <2>1, <2>4, ChannelOfAcc, Facts DEF valid
    <3>2. PICK o \in OpType : /\ o = [op[t][1] EXCEPT !.pc = "complete", !.id = n]
                              /\ o.pc = "complete" /\ o.id = n
      <4>1. op[t][1] \in OpType
        BY <1>1, <1>2
      <4> QED BY <4>1, CompleteOp
    <3>3. op' = [op EXCEPT ![t][1] = o]
      <4>1. next(t) = o
        BY <2>4, <3>1, <3>2 DEF next
      <4> QED BY <2>2, <4>1
    <3>4. Opening(o)
      BY <3>2 DEF Opening
    <3>5. \A k \in net' : IsAcc(k) => k \in net /\ k.n # n
      <4> SUFFICES ASSUME NEW k \in net, k # m, IsAcc(k), k.n = m.n PROVE FALSE
        BY <1>1, <3>1
      <4>1. k \in MsgType /\ m \in MsgType /\ k.type = m.type
        BY <3>1 DEF Inv, TypeOK, IsAcc
      <4>2. k.to = ClientOf(k.n, 1) /\ m.to = ClientOf(m.n, 1)
        BY <3>1 DEF Inv, Once, IsAcc
      <4> QED BY <4>1, <4>2 DEF MsgType
    <3>6. \E k \in net : IsAcc(k) /\ k.n = n
      BY <3>1 DEF IsAcc
    <3>7. Prop(o.id) = Prop(t) /\ o.id # 0
      BY <3>1, <3>2
    <3> QED BY <1>2, <2>1, <2>3, <3>2, <3>3, <3>4, <3>5, <3>6, <3>7, MoveInv
  <2>5. CASE ~valid(t)
    <3>1. End(t, 1, "err")
      BY <2>2, <2>5 DEF End, SetOp, next
    <3>2. PICK o \in OpType : op' = [op EXCEPT ![t][1] = o] /\ o.pc = "release" /\ o.id = op[t][1].id
                              /\ o.res = "err"
      BY <2>3, <3>1, EndOp
    <3>3. Opening(o) /\ \A k \in net' : k \in net \/ k.type \in {"prop", "rej"}
      BY <1>1, <3>2 DEF Opening
    <3> QED BY <1>2, <2>1, <2>3, <3>2, <3>3, PlainMove
  <2> QED BY <2>4, <2>5
<1> QED BY <1>3, <1>5, <1>6

LEMMA TypeFacts ==
  ASSUME Inv
  PROVE  /\ cache \in [Clients -> SUBSET Tasks] /\ net \subseteq MsgType
         /\ handling \in [Clients -> SUBSET [id : Tasks, at : {"get", "cache"}]]
         /\ dropped \in [Clients -> SUBSET Tasks] /\ settled \in [Clients -> SUBSET Tasks]
         /\ sigs \in [Clients -> SUBSET Tasks]
         /\ stored \in [Clients -> [Tasks -> {"none", "InitSigning", "Funding", "Acting"}]]
  BY DEF Inv, TypeOK

\* An opening that gives up, or ends, and changes nothing else.
LEMMA EndInv ==
  ASSUME Inv, NEW t \in Tasks, NEW r \in Roles, Opening(op[t][r]),
         NEW res \in {"ok", "err"}, End(t, r, res),
         UNCHANGED <<net, sigs, settled, signed, stored, deposits, enabled, cache, handling, dropped>>
  PROVE  Inv'
<1>1. PICK o \in OpType : op' = [op EXCEPT ![t][r] = o] /\ o.pc = "release" /\ o.id = op[t][r].id
                          /\ o.res = res
  BY EndOp
<1>2. /\ Opening(o) /\ op[t][r].pc \notin {"idle", "ok", "err", "gone"} /\ res # "none"
      /\ \A m \in net' : m \in net \/ m.type \in {"prop", "rej"}
  BY <1>1 DEF Opening
<1> QED BY <1>1, <1>2, TypeFacts, PlainMove

LEMMA CompleteInv ==
  ASSUME Inv, NEW t \in Tasks, NEW r \in Roles, completeCPP(t, r)
  PROVE  Inv'
<1> DEFINE c == ClientOf(t, r)
           id == op[t][r].id
<1>1. /\ op[t][r].pc = "complete" /\ Opening(op[t][r]) /\ IdOK(t, r)
      /\ UNCHANGED <<sigs, settled, deposits, enabled, cache, handling, dropped>>
  BY DEF completeCPP, At, Opening, cacheVars, Inv
<1>2. id \in Tasks /\ id # 0 /\ Prop(id) = Prop(t) /\ c \in Clients /\ PeerOf(t, r) \in Clients
  BY <1>1, Facts DEF Inv, TypeOK, OpType, IdOK
<1>3. CASE /\ stored' = [stored EXCEPT ![c][id] = "InitSigning"]
           /\ signed' = signed \cup {<<c, id>>}
           /\ pubMsg("sig", id, PeerOf(t, r))
           /\ Go(t, r, "sigs")
  <2>1. PICK o \in OpType : op' = [op EXCEPT ![t][r] = o] /\ o.pc = "sigs" /\ o.id = op[t][r].id
    BY <1>3, GoOp DEF PC
  <2>2. net' \subseteq MsgType /\ \A m \in net' : m \in net \/ (m.type = "sig" /\ m.n = id /\ m.to = PeerOf(t, r))
    <3> HIDE DEF id
    <3> QED BY <1>2, <1>3, NewMsg
  <2>3. PICK k \in Tasks : k = id
    BY <1>2
  <2>4. \A m \in net' : m.type = "sig" => m \in net \/ GotSig(m.to, m.n)'
    <3> HIDE DEF id
    <3> SUFFICES ASSUME NEW m \in net', m \notin net PROVE GotSig(m.to, m.n)'
      OBVIOUS
    <3>1. m.to = PeerOf(t, r) /\ m.n = k
      BY <2>2, <2>3
    <3>2. ASSUME NEW q \in Roles, ClientOf(k, q) # PeerOf(t, r) PROVE <<ClientOf(k, q), k>> \in signed'
      <4>1. ClientOf(k, q) = ClientOf(t, q)
        BY <1>2, <2>3, SameClients
      <4>2. q = r
        BY <3>2, <4>1, Facts
      <4> QED BY <1>3, <2>3, <4>1, <4>2
    <3> QED BY <3>1, <3>2 DEF GotSig
  <2>5. {m \in net' : IsAcc(m)} \subseteq net
    BY <2>2 DEF IsAcc
  <2>6. Opening(o) /\ <<c, o.id>> \in signed'
    BY <1>3, <2>1 DEF Opening
  <2>7. stored' = [stored EXCEPT ![ClientOf(t, r)][o.id] = "InitSigning"] /\ o.id # 0
        /\ signed' = signed \cup {<<ClientOf(t, r), o.id>>}
    BY <1>2, <1>3, <2>1
  <2> QED BY <1>1, <2>1, <2>2, <2>4, <2>5, <2>6, <2>7, TypeFacts, MoveInv
<1>4. CASE End(t, r, "err") /\ UNCHANGED <<net, stored, signed>>
  BY <1>1, <1>4, EndInv
<1> QED BY <1>3, <1>4 DEF completeCPP

\* The peer's signature has arrived and the own one was given before it was sent.
LEMMA ExchangeInv ==
  ASSUME Inv, NEW t \in Tasks, NEW r \in Roles, initExchangeSigsAndEnable(t, r)
  PROVE  Inv'
<1> DEFINE c == ClientOf(t, r)
           id == op[t][r].id
<1>1. /\ op[t][r].pc = "sigs" /\ Opening(op[t][r]) /\ IdOK(t, r) /\ StageOK(t, r) /\ id \in sigs[c]
      /\ stored' = [stored EXCEPT ![c][id] = "Funding"]
      /\ UNCHANGED <<net, sigs, settled, signed, deposits, enabled, cache, handling, dropped>>
  BY DEF initExchangeSigsAndEnable, At, Opening, cacheVars, Inv
<1>2. id \in Tasks /\ id # 0 /\ Prop(id) = Prop(t) /\ c \in Clients /\ <<c, id>> \in signed
  BY <1>1, Facts DEF Inv, TypeOK, OpType, IdOK, StageOK
<1>3. Both(id)
  <2> SUFFICES ASSUME NEW q \in Roles PROVE <<ClientOf(id, q), id>> \in signed
    BY DEF Both
  <2>1. GotSig(c, id)
    BY <1>1, <1>2 DEF Inv, SigOK
  <2>2. CASE ClientOf(id, q) = c
    BY <1>2, <2>2
  <2>3. CASE ClientOf(id, q) # c
    BY <2>1, <2>3 DEF GotSig
  <2> QED BY <2>2, <2>3
<1>4. stored'[c][id] = "Funding"
  <2> HIDE DEF c, id
  <2> QED BY <1>1, <1>2, TypeFacts
<1>5. /\ {m \in net' : IsAcc(m)} \subseteq net /\ \A m \in net' : m.type = "sig" => m \in net
      /\ net' \subseteq MsgType
  BY <1>1, TypeFacts
<1>6. ASSUME NEW o \in OpType, op' = [op EXCEPT ![t][r] = o], o.id = op[t][r].id,
             o.pc \in {"fund", "release"}, o.pc = "release" => o.res # "none"
      PROVE  Inv'
  <2>1. /\ Opening(o) /\ o.id # 0 /\ Both(o.id) /\ <<ClientOf(t, r), o.id>> \in signed'
        /\ stored' = [stored EXCEPT ![ClientOf(t, r)][o.id] = "Funding"]
        /\ stored'[ClientOf(t, r)][o.id] = "Funding"
    BY <1>1, <1>2, <1>3, <1>4, <1>6 DEF Opening
  <2> QED BY <1>1, <1>5, <1>6, <2>1, TypeFacts, MoveInv
<1>7. CASE Go(t, r, "fund")
  <2>1. PICK o \in OpType : op' = [op EXCEPT ![t][r] = o] /\ o.pc = "fund" /\ o.id = op[t][r].id
    BY <1>7, GoOp DEF PC
  <2> QED BY <1>6, <2>1
<1>8. CASE End(t, r, "err")
  <2>1. PICK o \in OpType : op' = [op EXCEPT ![t][r] = o] /\ o.pc = "release" /\ o.id = op[t][r].id
                            /\ o.res = "err"
    BY <1>8, EndOp
  <2> QED BY <1>6, <2>1
<1> QED BY <1>7, <1>8 DEF initExchangeSigsAndEnable

LEMMA FundInv ==
  ASSUME Inv, NEW t \in Tasks, NEW r \in Roles, Fund(t, r)
  PROVE  Inv'
<1>1. /\ op[t][r].pc = "fund" /\ Opening(op[t][r]) /\ IdOK(t, r) /\ StageOK(t, r) /\ Go(t, r, "funding")
      /\ deposits' = deposits \cup {<<ClientOf(t, r), op[t][r].id>>}
      /\ UNCHANGED <<net, sigs, settled, stored, signed, enabled, cache, handling, dropped>>
  BY DEF Fund, At, Opening, cacheVars, clientVars, Inv
<1>2. /\ op[t][r].id # 0 /\ Both(op[t][r].id) /\ stored[ClientOf(t, r)][op[t][r].id] = "Funding"
      /\ <<ClientOf(t, r), op[t][r].id>> \in signed
  BY <1>1 DEF IdOK, StageOK
<1>3. PICK o \in OpType : op' = [op EXCEPT ![t][r] = o] /\ o.pc = "funding" /\ o.id = op[t][r].id
  BY <1>1, GoOp DEF PC
<1>4. /\ {m \in net' : IsAcc(m)} \subseteq net /\ \A m \in net' : m.type = "sig" => m \in net
      /\ net' \subseteq MsgType
  BY <1>1, TypeFacts
<1>5. /\ Opening(o) /\ o.id # 0 /\ Both(o.id) /\ <<ClientOf(t, r), o.id>> \in signed'
      /\ stored[ClientOf(t, r)][o.id] = "Funding" /\ stored'[ClientOf(t, r)][o.id] = "Funding"
      /\ deposits' = deposits \cup {<<ClientOf(t, r), o.id>>}
  BY <1>1, <1>2, <1>3 DEF Opening
<1> QED BY <1>1, <1>3, <1>4, <1>5, TypeFacts, MoveInv

LEMMA FundReturnsInv ==
  ASSUME Inv, NEW t \in Tasks, NEW r \in Roles, FundReturns(t, r)
  PROVE  Inv'
<1>1. /\ op[t][r].pc = "funding" /\ Opening(op[t][r])
      /\ UNCHANGED <<net, sigs, settled, signed, stored, deposits, enabled, cache, handling, dropped>>
  BY DEF FundReturns, At, Opening, cacheVars, clientVars
<1>2. CASE Go(t, r, "put")
  <2>1. PICK o \in OpType : op' = [op EXCEPT ![t][r] = o] /\ o.pc = "put" /\ o.id = op[t][r].id
    BY <1>2, GoOp DEF PC
  <2>2. Opening(o) /\ \A m \in net' : m \in net \/ m.type \in {"prop", "rej"}
    BY <1>1, <2>1 DEF Opening
  <2> QED BY <1>1, <2>1, <2>2, TypeFacts, PlainMove
<1>3. CASE End(t, r, "err")
  BY <1>1, <1>3, EndInv
<1> QED BY <1>2, <1>3 DEF FundReturns

LEMMA FundingInv ==
  ASSUME Inv, NEW t \in Tasks, NEW r \in Roles, completeFunding(t, r)
  PROVE  Inv'
<1>1. /\ op[t][r].pc = "put" /\ Opening(op[t][r]) /\ IdOK(t, r)
      /\ UNCHANGED <<net, sigs, settled, signed, deposits, enabled, cache, handling, dropped>>
  BY DEF completeFunding, At, Opening, cacheVars, Inv
<1>2. ASSUME NEW res \in {"ok", "err"}, End(t, r, res),
             stored' = [stored EXCEPT ![ClientOf(t, r)][op[t][r].id] = "Acting"]
      PROVE  Inv'
  <2>1. PICK o \in OpType : op' = [op EXCEPT ![t][r] = o] /\ o.pc = "release" /\ o.id = op[t][r].id
                            /\ o.res = res
    BY <1>2, EndOp
  <2>2. /\ {m \in net' : IsAcc(m)} \subseteq net /\ \A m \in net' : m.type = "sig" => m \in net
        /\ net' \subseteq MsgType
    BY <1>1, TypeFacts
  <2>3. Opening(o) /\ o.id # 0 /\ stored' = [stored EXCEPT ![ClientOf(t, r)][o.id] = "Acting"]
    BY <1>1, <1>2, <2>1 DEF Opening, IdOK
  <2> QED BY <1>1, <2>1, <2>2, <2>3, TypeFacts, MoveInv
<1>3. CASE End(t, r, "err") /\ UNCHANGED stored
  BY <1>1, <1>3, EndInv
<1> QED BY <1>2, <1>3 DEF completeFunding

LEMMA ReleaseInv ==
  ASSUME Inv, NEW t \in Tasks, NEW r \in Roles, releaseVer1Cache(t, r)
  PROVE  Inv'
<1> DEFINE c == ClientOf(t, r)
<1>1. /\ op[t][r].pc = "release" /\ Opening(op[t][r]) /\ Go(t, r, op[t][r].res) /\ IdOK(t, r)
      /\ UNCHANGED <<net, sigs, settled, signed, stored, deposits, dropped>>
      /\ enabled' = [enabled EXCEPT ![c] = @ - 1]
      /\ handling' = [handling EXCEPT ![c] = @ \cup {[id |-> id, at |-> "get"] : id \in cache[c]}]
      /\ cache' = [cache EXCEPT ![c] = {}]
  BY DEF releaseVer1Cache, At, Opening, clientVars, Inv
<1>2. PICK res \in {"ok", "err"} : res = op[t][r].res
  <2>1. op[t][r].res \in {"none", "ok", "err"}
    BY DEF Inv, TypeOK, OpType
  <2> QED BY <1>1, <2>1 DEF IdOK
<1>3. PICK o \in OpType : op' = [op EXCEPT ![t][r] = o] /\ o.pc = res /\ o.id = op[t][r].id
  <2>1. Go(t, r, res) /\ res \in PC
    BY <1>1, <1>2 DEF PC
  <2> QED BY <2>1, GoOp
<1>4. c \in Clients
  BY Facts
<1>5. cache' \in [Clients -> SUBSET Tasks]
  <2> HIDE DEF c
  <2> QED BY <1>1, <1>4, TypeFacts
<1>6. handling' \in [Clients -> SUBSET [id : Tasks, at : {"get", "cache"}]]
  <2> HIDE DEF c
  <2>1. {[id |-> id, at |-> "get"] : id \in cache[c]} \subseteq [id : Tasks, at : {"get", "cache"}]
    BY <1>4, TypeFacts
  <2>2. handling[c] \cup {[id |-> id, at |-> "get"] : id \in cache[c]}
          \in SUBSET [id : Tasks, at : {"get", "cache"}]
    BY <1>4, <2>1, TypeFacts
  <2> QED BY <1>1, <1>4, <2>2, TypeFacts
<1>7. /\ ~Opening(o) /\ o.pc \in {"ok", "err"} /\ op[t][r].pc = "release"
      /\ UNCHANGED <<sigs, settled, signed, stored, deposits, dropped>>
      /\ enabled' = [enabled EXCEPT ![ClientOf(t, r)] = @ - 1]
      /\ net' \subseteq MsgType /\ \A m \in net' : m \in net \/ m.type \in {"prop", "rej"}
  BY <1>1, <1>2, <1>3, TypeFacts DEF Opening
<1>8. Opening(op[t][r])
  BY <1>1
<1> QED BY <1>3, <1>5, <1>6, <1>7, <1>8, PlainMove

LEMMA TimeoutInv ==
  ASSUME Inv, NEW t \in Tasks, NEW r \in Roles, Timeout(t, r)
  PROVE  Inv'
<1>1. /\ Opening(op[t][r]) /\ End(t, r, "err")
      /\ UNCHANGED <<net, sigs, settled, signed, stored, deposits, enabled, cache, handling, dropped>>
  BY DEF Timeout, At, Opening, cacheVars, clientVars
<1> QED BY <1>1, EndInv

\* What does not concern the initial signatures leaves those that have arrived.
LEMMA SigsKept ==
  ASSUME Inv, UNCHANGED sigs
  PROVE  \A c \in Clients : \A id \in sigs'[c] : GotSig(c, id)
  BY DEF Inv, SigOK

LEMMA RecvSigInv ==
  ASSUME Inv, NEW m \in net, RecvSig(m)
  PROVE  Inv'
<1>1. /\ m.type = "sig" /\ m.n \in Tasks /\ m.to \in Clients /\ net' = net \ {m}
      /\ UNCHANGED <<op, signed, deposits, enabled, cache, handling, dropped, stored, settled>>
      /\ sigs' = [sigs EXCEPT ![m.to] = @ \cup {m.n}] \/ sigs' = sigs
  BY DEF RecvSig, cacheVars, clientVars, Inv, TypeOK, MsgType
<1>2. GotSig(m.to, m.n)
  BY <1>1 DEF Inv, SigOK
<1>3. sigs' \in [Clients -> SUBSET Tasks]
  BY <1>1, TypeFacts
<1>4. \A c \in Clients : \A id \in sigs'[c] : id \in sigs[c] \/ (c = m.to /\ id = m.n)
  BY <1>1, TypeFacts
<1>5. \A c \in Clients : \A id \in sigs'[c] : GotSig(c, id)
  BY <1>2, <1>4 DEF Inv, SigOK
<1>6. net' \subseteq MsgType /\ \A k \in net' : k \in net \/ k.type = "upd"
  BY <1>1, TypeFacts
<1>7. UNCHANGED <<op, signed, deposits, enabled, cache, handling, dropped, stored, settled>>
  BY <1>1
<1> QED BY <1>3, <1>5, <1>6, <1>7, TypeFacts, RestInv

LEMMA RecvUpdateInv ==
  ASSUME Inv, NEW m \in net, RecvUpdate(m)
  PROVE  Inv'
<1>1. /\ m.n \in Tasks /\ m.to \in Clients /\ net' = net \ {m}
      /\ UNCHANGED <<op, sigs, signed, deposits, enabled, cache, dropped, stored, settled>>
      /\ handling' = [handling EXCEPT ![m.to] = @ \cup {[id |-> m.n, at |-> "get"]}] \/ handling' = handling
  BY DEF RecvUpdate, clientVars, Inv, TypeOK, MsgType
<1>2. handling' \in [Clients -> SUBSET [id : Tasks, at : {"get", "cache"}]]
  <2>1. [id |-> m.n, at |-> "get"] \in [id : Tasks, at : {"get", "cache"}]
    BY <1>1
  <2> QED BY <1>1, <2>1, TypeFacts
<1>3. net' \subseteq MsgType /\ \A k \in net' : k \in net \/ k.type = "upd"
  BY <1>1, TypeFacts
<1>4. UNCHANGED <<op, sigs, signed, deposits, enabled, cache, dropped, stored, settled>>
  BY <1>1
<1> QED BY <1>2, <1>3, <1>4, TypeFacts, SigsKept, RestInv

LEMMA UpdateInv ==
  ASSUME Inv, NEW c \in Clients, NEW id \in Tasks, Update(c, id)
  PROVE  Inv'
<1>1. UNCHANGED <<op, sigs, signed, deposits, enabled, cache, handling, dropped, stored, settled>>
  BY DEF Update, clientVars
<1>2. PICK r \in Roles : pubMsg("upd", id, PeerOf(id, r))
  BY DEF Update
<1>3. PeerOf(id, r) \in Clients
  BY Facts
<1>4. net' \subseteq MsgType /\ \A k \in net' : k \in net \/ k.type = "upd"
  BY <1>2, <1>3, NewMsg
<1> QED BY <1>1, <1>4, TypeFacts, SigsKept, RestInv

LEMMA HandleUpdateInv ==
  ASSUME Inv, NEW c \in Clients, NEW g \in handling[c],
         handleChannelUpdate(c, g) \/ cacheVersion1Update(c, g)
  PROVE  Inv'
<1>1. /\ UNCHANGED <<op, net, sigs, signed, deposits, enabled, stored, settled>>
      /\ \/ handling' = [handling EXCEPT ![c] = @ \ {g}]
         \/ handling' = [handling EXCEPT ![c] = (@ \ {g}) \cup {[g EXCEPT !.at = "cache"]}]
      /\ cache' = [cache EXCEPT ![c] = @ \cup {g.id}] \/ cache' = cache
      /\ dropped' = [dropped EXCEPT ![c] = @ \cup {g.id}] \/ dropped' = dropped
  BY DEF handleChannelUpdate, cacheVersion1Update, clientVars
<1>2. g \in [id : Tasks, at : {"get", "cache"}]
  BY TypeFacts
<1>3. g.id \in Tasks /\ [g EXCEPT !.at = "cache"] \in [id : Tasks, at : {"get", "cache"}]
  BY <1>2
<1>4. handling' \in [Clients -> SUBSET [id : Tasks, at : {"get", "cache"}]]
  <2> DEFINE G == [id : Tasks, at : {"get", "cache"}]
             k == [g EXCEPT !.at = "cache"]
  <2>1. handling \in [Clients -> SUBSET G] /\ k \in G
    BY <1>3, TypeFacts
  <2>2. \/ handling' = [handling EXCEPT ![c] = handling[c] \ {g}]
        \/ handling' = [handling EXCEPT ![c] = (handling[c] \ {g}) \cup {k}]
    BY <1>1
  <2> HIDE DEF G, k
  <2>3. handling[c] \ {g} \in SUBSET G /\ (handling[c] \ {g}) \cup {k} \in SUBSET G
    BY <2>1
  <2>4. handling' \in [Clients -> SUBSET G]
    BY <2>1, <2>2, <2>3
  <2> QED BY <2>4 DEF G
<1>5. cache' \in [Clients -> SUBSET Tasks] /\ dropped' \in [Clients -> SUBSET Tasks]
  <2>1. cache[c] \cup {g.id} \in SUBSET Tasks /\ dropped[c] \cup {g.id} \in SUBSET Tasks
    BY <1>3, TypeFacts
  <2>2. cache' = [cache EXCEPT ![c] = cache[c] \cup {g.id}] \/ cache' = cache
    BY <1>1
  <2>3. dropped' = [dropped EXCEPT ![c] = dropped[c] \cup {g.id}] \/ dropped' = dropped
    BY <1>1
  <2>4. cache' \in [Clients -> SUBSET Tasks]
    BY <2>1, <2>2, TypeFacts
  <2> QED BY <2>1, <2>3, <2>4, TypeFacts
<1>6. net' \subseteq MsgType /\ \A k \in net' : k \in net \/ k.type = "upd"
  BY <1>1, TypeFacts
<1>7. UNCHANGED <<op, net, sigs, signed, deposits, enabled, stored, settled>>
  BY <1>1
<1> QED BY <1>4, <1>5, <1>6, <1>7, TypeFacts, SigsKept, RestInv

LEMMA SettleInv ==
  ASSUME Inv, NEW c \in Clients, NEW id \in Tasks, Settle(c, id)
  PROVE  Inv'
<1>1. /\ UNCHANGED <<op, net, sigs, signed, deposits, enabled, cache, handling, dropped>>
      /\ stored[c][id] = "Acting" /\ stored' = [stored EXCEPT ![c][id] = "none"]
      /\ settled' = [settled EXCEPT ![c] = @ \cup {id}]
  BY DEF Settle, cacheVars
<1>2. /\ stored' \in [Clients -> [Tasks -> {"none", "InitSigning", "Funding", "Acting"}]]
      /\ settled' \in [Clients -> SUBSET Tasks]
  BY <1>1, TypeFacts
<1>3. \A d \in Clients : settled[d] \subseteq settled'[d]
  BY <1>1, TypeFacts
<1>4. \A d \in Clients, k \in Tasks :
        stored'[d][k] = stored[d][k] \/ (stored[d][k] = "Acting" /\ k \in settled'[d])
  BY <1>1, TypeFacts
<1>5. net' \subseteq MsgType /\ \A k \in net' : k \in net \/ k.type = "upd"
  BY <1>1, TypeFacts
<1>6. UNCHANGED <<op, net, sigs, signed, deposits, enabled, cache, handling, dropped>>
  BY <1>1
<1> QED BY <1>2, <1>3, <1>4, <1>5, <1>6, TypeFacts, SigsKept, RestInv

\* Steps that leave alone all that the invariant speaks of.
LEMMA SameInv ==
  ASSUME Inv, UNCHANGED <<op, net, sigs, signed, deposits, enabled, cache, handling, dropped, stored, settled>>
  PROVE  Inv'
  BY TypeFacts, SigsKept, RestInv

-----------------------------------------------------------------------------
(* A crash: the calls of the client are gone, what it has persisted stays *)

LEMMA RestartInv ==
  ASSUME Inv, NEW c \in Clients, Restart(c)
  PROVE  Inv'
<1>1. /\ UNCHANGED <<net, signed, deposits, dropped, stored, settled>>
      /\ sigs' = [sigs EXCEPT ![c] = {}] /\ enabled' = [enabled EXCEPT ![c] = 0]
      /\ cache' = [cache EXCEPT ![c] = {}] /\ handling' = [handling EXCEPT ![c] = {}]
  BY DEF Restart
<1>2. op \in [Tasks -> [Roles -> OpType]]
  BY DEF Inv, TypeOK
<1>3. ASSUME NEW t \in Tasks, NEW r \in Roles
      PROVE  /\ op'[t][r] \in OpType /\ op'[t][r].id = op[t][r].id
             /\ op'[t][r].pc = op[t][r].pc \/ (op'[t][r].pc = "gone" /\ op[t][r].pc # "idle")
             /\ ClientOf(t, r) # c => op'[t][r] = op[t][r]
             /\ ClientOf(t, r) = c => op'[t][r].pc \in {"gone", "idle"}
             /\ op'[t][r].res = op[t][r].res
  <2> DEFINE o == op[t][r]
             g == [o EXCEPT !.pc = "gone"]
  <2>1. op'[t][r] = IF ClientOf(t, r) = c /\ o.pc # "idle" THEN g ELSE o
    BY DEF Restart
  <2>2. o \in OpType
    BY <1>2
  <2>3. g \in OpType /\ g.id = o.id /\ g.pc = "gone" /\ g.res = o.res
    BY <2>2 DEF OpType, PC
  <2> HIDE DEF o, g
  <2>4. /\ op'[t][r] \in OpType /\ op'[t][r].id = o.id /\ op'[t][r].res = o.res
        /\ op'[t][r].pc = o.pc \/ (op'[t][r].pc = "gone" /\ o.pc # "idle")
        /\ ClientOf(t, r) # c => op'[t][r] = o
        /\ ClientOf(t, r) = c => op'[t][r].pc \in {"gone", "idle"}
    BY <2>1, <2>2, <2>3
  <2> QED BY <2>4 DEF o
<1>4. op' \in [Tasks -> [Roles -> OpType]]
  <2>1. op' = [t \in Tasks |-> [r \in Roles |-> op'[t][r]]]
    BY DEF Restart
  <2> QED BY <1>3, <2>1
<1>5. TypeOK'
  <2>1. /\ sigs' \in [Clients -> SUBSET Tasks] /\ cache' \in [Clients -> SUBSET Tasks]
        /\ handling' \in [Clients -> SUBSET [id : Tasks, at : {"get", "cache"}]]
    BY <1>1, TypeFacts
  <2>2. enabled' \in [Clients -> Int]
    BY <1>1 DEF Inv, TypeOK
  <2> QED BY <1>1, <1>4, <2>1, <2>2 DEF Inv, TypeOK
<1>6. 1 \in Roles /\ 2 \in Roles
  BY Facts
<1>7. ASSUME NEW t \in Tasks, NEW r \in Roles PROVE IdOK(t, r)'
  <2>1. IdOK(t, r) /\ op[t][r].id \in Tasks \cup {0}
    BY <1>2 DEF Inv, OpType
  <2>2. op'[t][r].id # 0 /\ r = 1 => op'[op'[t][r].id][2].pc \notin {"idle", "prompt"}
    <3> SUFFICES ASSUME op[t][r].id # 0, r = 1 PROVE op'[op[t][r].id][2].pc \notin {"idle", "prompt"}
      BY <1>3
    <3>1. op[t][r].id \in Tasks /\ op[op[t][r].id][2].pc \notin {"idle", "prompt"}
      BY <2>1 DEF IdOK
    <3> QED BY <1>3, <1>6, <3>1
  <2> QED BY <1>3, <2>1, <2>2 DEF IdOK
<1>8. Once'
  <2>1. \A m \in net : m.n \in Tasks
    BY TypeFacts DEF MsgType
  <2>2. \A t \in Tasks : op'[t][1].id = op[t][1].id
    BY <1>3, <1>6
  <2>3. \A t \in Tasks : op[t][2].pc \notin {"idle", "prompt"} => op'[t][2].pc \notin {"idle", "prompt"}
    BY <1>3, <1>6
  <2> QED BY <1>1, <2>1, <2>2, <2>3 DEF Inv, Once
<1>9. Turns'
  <2>1. \A t \in Tasks : /\ Returned(t) => Returned(t)'
                         /\ op[t][1].pc = "idle" => op'[t][1].pc = "idle"
    BY <1>3, <1>6 DEF Returned
  <2> QED BY <2>1 DEF Inv, Turns
<1>10. SigOK'
  <2>1. \A d \in Clients : sigs'[d] \subseteq sigs[d]
    BY <1>1, TypeFacts
  <2> QED BY <1>1, <2>1 DEF Inv, SigOK, GotSig
<1>11. ASSUME NEW t \in Tasks, NEW r \in Roles PROVE StageOK(t, r)'
  <2>1. StageOK(t, r)
    BY DEF Inv
  <2> QED BY <1>1, <1>3, <2>1 DEF StageOK, Both
<1>12. ASSUME NEW d \in deposits' PROVE DepositOK(d)'
  <2>1. DepositOK(d)
    BY <1>1 DEF Inv
  <2> QED BY <1>1, <1>3, <2>1 DEF DepositOK, Both
<1>13. ASSUME NEW d \in Clients PROVE Counted(d)'
  <2>1. CASE d = c
    <3>1. OpensAt(d)' = {}
      BY <1>3, <2>1 DEF OpensAt, Opening
    <3>2. enabled'[d] = 0
      BY <1>1, <2>1 DEF Inv, TypeOK
    <3> QED BY <3>1, <3>2, FS_EmptySet DEF Counted
  <2>2. CASE d # c
    <3>1. ASSUME NEW y \in Tasks \X Roles PROVE y \in OpensAt(d)' <=> y \in OpensAt(d)
      <4>1. y[1] \in Tasks /\ y[2] \in Roles
        OBVIOUS
      <4>2. ClientOf(y[1], y[2]) = d => op'[y[1]][y[2]] = op[y[1]][y[2]]
        BY <1>3, <2>2, <4>1
      <4> QED BY <4>2 DEF OpensAt
    <3>2. OpensAt(d) \subseteq Tasks \X Roles /\ OpensAt(d)' \subseteq Tasks \X Roles
      BY DEF OpensAt
    <3>3. OpensAt(d)' = OpensAt(d)
      BY <3>1, <3>2, Zenon
    <3>4. enabled'[d] = enabled[d]
      BY <1>1, <2>2 DEF Inv, TypeOK
    <3> QED BY <3>3, <3>4 DEF Inv, Counted
  <2> QED BY <2>1, <2>2
<1> QED BY <1>5, <1>7, <1>8, <1>9, <1>10, <1>11, <1>12, <1>13 DEF Inv

LEMMA NextInv == Inv /\ [Next]_vars => Inv'
<1> SUFFICES ASSUME Inv, [Next]_vars PROVE Inv'
  OBVIOUS
<1>1. ASSUME NEW t \in Tasks, ProposeChannel(t) \/ AcceptProposal(t) \/ RejectProposal(t) PROVE Inv'
  BY <1>1, ProposeInv, AcceptInv, RejectInv
<1>2. ASSUME NEW t \in Tasks, NEW r \in Roles, OpStep(t, r) PROVE Inv'
  BY <1>2, CompleteInv, ExchangeInv, FundInv, FundReturnsInv, FundingInv, ReleaseInv, TimeoutInv DEF OpStep
<1>3. CASE Deliver
  BY <1>3, AnswerInv, HandleProposalInv, RecvSigInv, RecvUpdateInv DEF Deliver
<1>4. ASSUME NEW c \in Clients, NEW id \in Tasks, Update(c, id) \/ Settle(c, id) PROVE Inv'
  BY <1>4, UpdateInv, SettleInv
<1>5. ASSUME NEW c \in Clients, NEW g \in handling[c],
             handleChannelUpdate(c, g) \/ cacheVersion1Update(c, g)
      PROVE  Inv'
  BY <1>5, HandleUpdateInv
<1>6. ASSUME NEW c \in Clients, Close(c) PROVE Inv'
  <2>1. UNCHANGED <<op, net, sigs, signed, deposits, enabled, cache, handling, dropped, stored, settled>>
    BY <1>6 DEF Close, cacheVars
  <2> QED BY <2>1, SameInv
<1>7. ASSUME NEW c \in Clients, Restart(c) PROVE Inv'
  BY <1>7, RestartInv
<1>8. CASE UNCHANGED vars
  <2>1. UNCHANGED <<op, net, sigs, signed, deposits, enabled, cache, handling, dropped, stored, settled>>
    BY <1>8 DEF vars
  <2> QED BY <2>1, SameInv
<1> QED BY <1>1, <1>2, <1>3, <1>4, <1>5, <1>6, <1>7, <1>8 DEF Next

\* The invariant holds for any number of clients, proposals, retries and crashes.
THEOREM ProposalInvariance == Spec => []Inv
<1>1. QED BY InitInv, NextInv, PTL DEF Spec

\* A client deposits only into a channel whose initial state both parties have signed, and
\* keeps both signatures in its database until it has settled: initExchangeSigsAndEnable
\* persists them before Fund is called, and no other opening uses the same acceptance.
THEOREM FundedIsSignedAlways == Spec => []FundedIsSigned
<1>1. Inv => FundedIsSigned
  <2> SUFFICES ASSUME Inv, NEW d \in deposits
               PROVE  /\ \A t \in Tasks : CalcID(t, t) = d[2] =>
                           \A r \in Roles : <<ClientOf(t, r), d[2]>> \in signed
                      /\ stored[d[1]][d[2]] \in {"Funding", "Acting"} \/ d[2] \in settled[d[1]]
    BY DEF FundedIsSigned
  <2>1. DepositOK(d)
    BY DEF Inv
  <2>2. \A t \in Tasks : CalcID(t, t) = t
    BY ChannelOfAcc
  <2> QED BY <2>1, <2>2 DEF DepositOK, Both
<1> QED BY <1>1, ProposalInvariance, PTL

\* An update is dropped by cacheVersion1Update only if the cache is disabled, and its count
\* is positive while any opening of the client is under way.
LEMMA NotDropped ==
  ASSUME Inv, [Next]_vars, NEW c \in Clients, NEW id \in dropped'[c] \ dropped[c],
         NEW t \in Tasks, NEW r \in Roles, ClientOf(t, r) = c, Opening(op[t][r])
  PROVE  FALSE
<1>1. dropped' # dropped
  OBVIOUS
<1>2. PICK d \in Clients : \E g \in handling[d] : cacheVersion1Update(d, g)
  <2>1. ASSUME NEW u \in Tasks, ProposeChannel(u) \/ AcceptProposal(u) \/ RejectProposal(u) PROVE FALSE
    BY <1>1, <2>1 DEF ProposeChannel, enableVer1Cache, cacheVars, AcceptProposal,
       handleChannelProposalAcc, RejectProposal, handleChannelProposalRej
  <2>2. ASSUME NEW u \in Tasks, NEW q \in Roles, OpStep(u, q) PROVE FALSE
    BY <1>1, <2>2 DEF OpStep, completeCPP, initExchangeSigsAndEnable, Fund, FundReturns,
       completeFunding, releaseVer1Cache, Timeout, cacheVars
  <2>3. ~Deliver
    BY <1>1 DEF Deliver, RecvAnswer, handleChannelProposal, RecvSig, RecvUpdate, cacheVars
  <2>4. ASSUME NEW e \in Clients, NEW k \in Tasks, Update(e, k) \/ Settle(e, k) PROVE FALSE
    BY <1>1, <2>4 DEF Update, Settle, cacheVars
  <2>5. ASSUME NEW e \in Clients, NEW g \in handling[e], handleChannelUpdate(e, g) PROVE FALSE
    BY <1>1, <2>5 DEF handleChannelUpdate
  <2>6. ASSUME NEW e \in Clients, Close(e) \/ Restart(e) PROVE FALSE
    BY <1>1, <2>6 DEF Close, Restart, cacheVars
  <2>7. ~UNCHANGED vars
    BY <1>1 DEF vars
  <2> QED BY <2>1, <2>2, <2>3, <2>4, <2>5, <2>6, <2>7 DEF Next
<1>3. d = c /\ ~(enabled[c] > 0)
  BY <1>2, TypeFacts DEF cacheVersion1Update
<1>4. <<t, r>> \in OpensAt(c)
  BY DEF OpensAt
<1>5. IsFiniteSet(OpensAt(c))
  BY FiniteOpenings DEF OpensAt
<1>6. Cardinality(OpensAt(c)) \in Nat /\ Cardinality(OpensAt(c)) # 0
  BY <1>4, <1>5, FS_CardinalityType, FS_EmptySet
<1> QED BY <1>3, <1>6 DEF Inv, Counted

\* A version 1 update that overtakes the end of the opening is not dropped while the
\* receiver is opening that channel, or any other.
THEOREM NoUpdateLostAlways == Spec => NoUpdateLostWhileOpening
<1>1. Inv /\ [Next]_vars =>
        [\A c \in Clients : \A id \in dropped'[c] \ dropped[c] :
           ~\E t \in Tasks, r \in Roles :
              ClientOf(t, r) = c /\ op[t][r].id = id /\ Opening(op[t][r])]_vars
  BY NotDropped
<1> QED BY <1>1, ProposalInvariance, PTL DEF Spec, NoUpdateLostWhileOpening
=============================================================================
