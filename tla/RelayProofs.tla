---------------------------- MODULE RelayProofs ----------------------------
(***************************************************************************)
(* Proofs about the message relay, for any number of senders, messages,    *)
(* receivers and cache predicates: Relay.delete never panics, the cache    *)
(* loses only messages whose cache.Put overlapped another one, and only a  *)
(* cached message is overtaken by a later one of its sender.               *)
(***************************************************************************)
EXTENDS Relay, TLAPS, WellFoundedInduction

-----------------------------------------------------------------------------
(* Sequences *)

Less == {ss \in Nat \X Nat : ss[1] < ss[2]}

\* Induction over the naturals, for a set of numbers.
LEMMA NatInd ==
  ASSUME NEW N, 0 \in N, \A n \in Nat : n \in N => n + 1 \in N
  PROVE  Nat \subseteq N
<1>1. IsWellFoundedOn(Less, Nat)
  BY NatLessThanWellFounded DEF OpToRel, Less
<1> SUFFICES ASSUME Nat \ N # {} PROVE FALSE
  OBVIOUS
<1>2. \E x \in Nat \ N : \A y \in Nat \ N : ~(<<y, x>> \in Less)
  <2>1. Nat \ N \subseteq Nat
    OBVIOUS
  <2> QED BY <1>1, <2>1, WFMin, Zenon
<1>3. PICK x \in Nat \ N : \A y \in Nat \ N : ~(<<y, x>> \in Less)
  BY <1>2
<1>4. x # 0 /\ x - 1 \in Nat
  OBVIOUS
<1>5. <<x - 1, x>> \in Less
  BY <1>4 DEF Less
<1> QED BY <1>3, <1>4, <1>5

LEMMA RangeEmpty == Range(<<>>) = {}
  BY DEF Range

LEMMA RangeAppend ==
  ASSUME NEW E, NEW s \in Seq(E), NEW x \in E
  PROVE  Append(s, x) \in Seq(E) /\ Range(Append(s, x)) = Range(s) \cup {x}
<1>1. /\ Append(s, x) \in Seq(E) /\ Len(Append(s, x)) = Len(s) + 1
      /\ Append(s, x)[Len(s) + 1] = x
      /\ \A i \in 1..Len(s) : Append(s, x)[i] = s[i]
  OBVIOUS
<1>2. DOMAIN Append(s, x) = DOMAIN s \cup {Len(s) + 1}
  OBVIOUS
<1> QED BY <1>1, <1>2 DEF Range

\* The function that filter defines exists.
LEMMA FilterFcn ==
  ASSUME NEW E, NEW s \in Seq(E), NEW S
  PROVE  \E f : f = [i \in 0..Len(s) |->
           IF i = 0 THEN <<>>
           ELSE IF s[i] \in S THEN Append(f[i - 1], s[i]) ELSE f[i - 1]]
<1> DEFINE B(f, i) == IF i = 0 THEN <<>>
                      ELSE IF s[i] \in S THEN Append(f[i - 1], s[i]) ELSE f[i - 1]
           Solves(f, n) == f = [i \in 0..n |-> B(f, i)]
           N == {n \in Nat : \E f : Solves(f, n)}
<1>1. 0 \in N
  <2> DEFINE z == [i \in 0..0 |-> <<>>]
  <2>1. Solves(z, 0)
    OBVIOUS
  <2> QED BY <2>1
<1>2. ASSUME NEW n \in Nat, n \in N PROVE n + 1 \in N
  <2>1. PICK f : Solves(f, n)
    BY <1>2
  <2> DEFINE g == [i \in 0..n + 1 |-> IF i = n + 1 THEN B(f, n + 1) ELSE f[i]]
  <2>2. \A i \in 0..n : f[i] = B(f, i)
    <3> HIDE DEF B
    <3> QED BY <2>1
  <2>3. ASSUME NEW i \in 0..n + 1 PROVE g[i] = B(g, i)
    <3>1. CASE i = 0
      BY <3>1, <2>2
    <3>2. CASE i \in 1..n
      <4>1. f[i] = B(f, i)
        BY <2>2, <3>2
      <4>2. g[i] = f[i] /\ g[i - 1] = f[i - 1]
        BY <3>2
      <4> QED BY <4>1, <4>2
    <3>3. CASE i = n + 1
      <4>1. g[i] = B(f, i) /\ g[i - 1] = f[i - 1]
        BY <3>3
      <4> QED BY <4>1
    <3> QED BY <3>1, <3>2, <3>3
  <2>4. Solves(g, n + 1)
    <3> HIDE DEF B
    <3> QED BY <2>3
  <2> HIDE DEF Solves
  <2>5. n + 1 \in Nat
    OBVIOUS
  <2> QED BY <2>4, <2>5
<1> HIDE DEF N
<1>3. Nat \subseteq N
  BY <1>1, <1>2, NatInd
<1>4. Len(s) \in N
  BY <1>3
<1> QED BY <1>4 DEF N

\* filter keeps exactly the elements that are in S.
LEMMA FilterProperties ==
  ASSUME NEW E, NEW s \in Seq(E), NEW S
  PROVE  /\ filter(s, S) \in Seq(E)
         /\ Range(filter(s, S)) = Range(s) \cap S
<1> DEFINE B(f, i) == IF i = 0 THEN <<>>
                      ELSE IF s[i] \in S THEN Append(f[i - 1], s[i]) ELSE f[i - 1]
           Solves(f) == f = [i \in 0..Len(s) |-> B(f, i)]
           F == CHOOSE f : Solves(f)
           Good(n) == /\ F[n] \in Seq(E)
                      /\ Range(F[n]) = {s[i] : i \in 1..n} \cap S
           N == {n \in Nat : n <= Len(s) => Good(n)}
<1>1. filter(s, S) = F[Len(s)]
  BY Zenon DEF filter
<1>2. Solves(F)
  <2>1. \E f : Solves(f)
    BY FilterFcn
  <2> HIDE DEF Solves
  <2> QED BY <2>1, Zenon
<1> HIDE DEF F
<1>3. \A i \in 0..Len(s) : F[i] = B(F, i)
  <2> HIDE DEF B
  <2> QED BY <1>2
<1> HIDE DEF Solves
<1>4. Good(0)
  <2>1. F[0] = <<>>
    BY <1>3
  <2> QED BY <2>1, RangeEmpty
<1>5. ASSUME NEW n \in Nat, n + 1 <= Len(s), Good(n) PROVE Good(n + 1)
  <2>1. F[n + 1] = IF s[n + 1] \in S THEN Append(F[n], s[n + 1]) ELSE F[n]
    <3>1. n + 1 \in 0..Len(s) /\ n + 1 # 0 /\ (n + 1) - 1 = n
      BY <1>5
    <3>2. F[n + 1] = B(F, n + 1)
      BY <1>3, <3>1
    <3> QED BY <3>1, <3>2
  <2>2. s[n + 1] \in E
    BY <1>5
  <2>3. {s[i] : i \in 1..n + 1} = {s[i] : i \in 1..n} \cup {s[n + 1]}
    OBVIOUS
  <2>4. CASE s[n + 1] \in S
    <3>1. F[n + 1] = Append(F[n], s[n + 1])
      BY <2>1, <2>4
    <3>2. F[n + 1] \in Seq(E) /\ Range(F[n + 1]) = Range(F[n]) \cup {s[n + 1]}
      BY <3>1, <1>5, <2>2, RangeAppend
    <3> QED BY <3>2, <1>5, <2>3, <2>4
  <2>5. CASE s[n + 1] \notin S
    BY <2>1, <2>3, <2>5, <1>5
  <2> QED BY <2>4, <2>5
<1> HIDE DEF Good
<1>6. 0 \in N /\ \A n \in Nat : n \in N => n + 1 \in N
  BY <1>4, <1>5
<1> HIDE DEF N
<1>7. Nat \subseteq N
  BY <1>6, NatInd
<1>8. Good(Len(s))
  <2>1. Len(s) \in N
    BY <1>7
  <2> QED BY <2>1 DEF N
<1>9. Range(s) = {s[i] : i \in 1..Len(s)}
  BY DEF Range
<1> QED BY <1>1, <1>8, <1>9 DEF Good

LEMMA RangeConcat ==
  ASSUME NEW E, NEW s \in Seq(E), NEW t \in Seq(E)
  PROVE  s \o t \in Seq(E) /\ Range(s \o t) = Range(s) \cup Range(t)
<1>1. s \o t \in Seq(E)
  OBVIOUS
<1>2. ASSUME NEW x \in Range(s) PROVE x \in Range(s \o t)
  <2>1. PICK i \in 1..Len(s) : x = s[i]
    BY DEF Range
  <2>2. (s \o t)[i] = x /\ i \in DOMAIN (s \o t)
    BY <2>1
  <2> QED BY <2>2 DEF Range
<1>3. ASSUME NEW x \in Range(t) PROVE x \in Range(s \o t)
  <2>1. PICK i \in 1..Len(t) : x = t[i]
    BY DEF Range
  <2>2. (s \o t)[Len(s) + i] = x /\ Len(s) + i \in DOMAIN (s \o t)
    BY <2>1
  <2> QED BY <2>2 DEF Range
<1>4. ASSUME NEW x \in Range(s \o t) PROVE x \in Range(s) \cup Range(t)
  <2>1. PICK i \in 1..(Len(s) + Len(t)) : x = (s \o t)[i]
    BY DEF Range
  <2>2. CASE i <= Len(s)
    BY <2>1, <2>2 DEF Range
  <2>3. CASE i > Len(s)
    <3>1. x = t[i - Len(s)] /\ i - Len(s) \in DOMAIN t
      BY <2>1, <2>3
    <3> QED BY <3>1 DEF Range
  <2> QED BY <2>2, <2>3
<1> QED BY <1>1, <1>2, <1>3, <1>4

LEMMA RangeHeadTail ==
  ASSUME NEW E, NEW s \in Seq(E), s # <<>>
  PROVE  /\ Head(s) \in E /\ Tail(s) \in Seq(E)
         /\ Range(s) = {Head(s)} \cup Range(Tail(s))
<1>1. Head(s) \in E /\ Tail(s) \in Seq(E) /\ Len(s) > 0
  OBVIOUS
<1>2. \A i \in 1..Len(Tail(s)) : Tail(s)[i] = s[i + 1] /\ i + 1 \in 1..Len(s)
  OBVIOUS
<1>3. \A i \in 1..Len(s) : i # 1 => i - 1 \in 1..Len(Tail(s)) /\ s[i] = Tail(s)[i - 1]
  OBVIOUS
<1>4. Head(s) = s[1]
  OBVIOUS
<1>5. DOMAIN s = 1..Len(s) /\ DOMAIN Tail(s) = 1..Len(Tail(s))
  OBVIOUS
<1>6. ASSUME NEW x \in Range(s) PROVE x \in {Head(s)} \cup Range(Tail(s))
  <2>1. PICK i \in 1..Len(s) : x = s[i]
    BY <1>5 DEF Range
  <2> QED BY <2>1, <1>3, <1>4, <1>5 DEF Range
<1>7. ASSUME NEW x \in {Head(s)} \cup Range(Tail(s)) PROVE x \in Range(s)
  <2>1. CASE x = Head(s)
    BY <2>1, <1>1, <1>4, <1>5 DEF Range
  <2>2. CASE x \in Range(Tail(s))
    <3>1. PICK i \in 1..Len(Tail(s)) : x = Tail(s)[i]
      BY <2>2, <1>5 DEF Range
    <3> QED BY <3>1, <1>2, <1>5 DEF Range
  <2> QED BY <2>1, <2>2
<1> QED BY <1>1, <1>6, <1>7

\* Receiver.Next moves the first element from the buffer to what was received.
LEMMA MoveHead ==
  ASSUME NEW E, NEW s \in Seq(E), NEW t \in Seq(E), t # <<>>
  PROVE  Append(s, Head(t)) \o Tail(t) = s \o t
<1> DEFINE u == Append(s, Head(t)) \o Tail(t)
           v == s \o t
<1>1. u \in Seq(E) /\ v \in Seq(E) /\ Len(u) = Len(v)
  OBVIOUS
<1>2. ASSUME NEW i \in 1..Len(v) PROVE u[i] = v[i]
  <2>1. CASE i <= Len(s)
    BY <2>1
  <2>2. CASE i = Len(s) + 1
    BY <2>2
  <2>3. CASE i > Len(s) + 1
    BY <2>3
  <2> QED BY <2>1, <2>2, <2>3
<1> HIDE DEF u, v
<1> QED BY <1>1, <1>2 DEF u, v

\* Receiver.Put puts a message after what has arrived.
LEMMA AppendLast ==
  ASSUME NEW E, NEW s \in Seq(E), NEW t \in Seq(E), NEW x \in E
  PROVE  s \o Append(t, x) = Append(s \o t, x)
<1> DEFINE u == s \o Append(t, x)
           v == Append(s \o t, x)
<1>1. u \in Seq(E) /\ v \in Seq(E) /\ Len(u) = Len(v) /\ Len(v) = Len(s) + Len(t) + 1
  OBVIOUS
<1>2. ASSUME NEW i \in 1..Len(v) PROVE u[i] = v[i]
  <2>1. CASE i <= Len(s)
    BY <2>1
  <2>2. CASE i > Len(s) /\ i <= Len(s) + Len(t)
    BY <2>2
  <2>3. CASE i = Len(s) + Len(t) + 1
    BY <2>3
  <2> QED BY <1>1, <2>1, <2>2, <2>3
<1> HIDE DEF u, v
<1> QED BY <1>1, <1>2 DEF u, v

\* Relay.delete removes one entry of c and no other consumer.
LEMMA WithoutProperties ==
  ASSUME NEW E, NEW s \in Seq(E), NEW c \in Range(s)
  PROVE  /\ without(s, c) \in Seq(E)
         /\ Range(s) \ {c} \subseteq Range(without(s, c))
<1> DEFINE i == CHOOSE j \in DOMAIN s : s[j] = c
           t == [s EXCEPT ![i] = s[Len(s)]]
           u == SubSeq(t, 1, Len(s) - 1)
<1>1. i \in 1..Len(s) /\ s[i] = c
  BY DEF Range
<1> HIDE DEF i
<1>2. Len(s) > 0 /\ t \in Seq(E) /\ Len(t) = Len(s)
  BY <1>1
<1>3. \A j \in 1..Len(s) : t[j] = IF j = i THEN s[Len(s)] ELSE s[j]
  BY <1>1
<1> HIDE DEF t
<1>4. /\ u \in Seq(E) /\ Len(u) = Len(s) - 1
      /\ \A j \in 1..(Len(s) - 1) : u[j] = t[j]
  BY <1>2
<1>5. without(s, c) = u
  BY DEF without, u, t, i
<1> HIDE DEF u
<1>6. ASSUME NEW x \in Range(s), x # c PROVE x \in Range(u)
  <2>1. PICK j \in 1..Len(s) : s[j] = x
    BY DEF Range
  <2>2. CASE j < Len(s)
    <3>1. u[j] = x /\ j \in DOMAIN u
      BY <1>1, <1>3, <1>4, <1>6, <2>1, <2>2
    <3> QED BY <3>1 DEF Range
  <2>3. CASE j = Len(s)
    <3>1. i # j
      BY <1>1, <1>6, <2>1
    <3>2. u[i] = x /\ i \in DOMAIN u
      BY <1>1, <1>3, <1>4, <2>1, <2>3, <3>1
    <3> QED BY <3>2 DEF Range
  <2> QED BY <2>2, <2>3
<1> QED BY <1>4, <1>5, <1>6

-----------------------------------------------------------------------------
(* The inductive invariant *)

\* The calls of Publish, by the lines they are at.
Call ==
    [pc : {"idle", "publishing"}, n : Nat]
    \cup [pc : {"delivering"}, n : Nat, todo : Seq(Receivers), any : BOOLEAN]
    \cup [pc : {"caching"}, n : Nat, msgs : Seq(Msg), preds : SUBSET CachePreds,
          hit : BOOLEAN]

TypeOK ==
    /\ bus \in {"none", "placeholder", "subscribed"}
    /\ relay \in [status : {"open", "closing", "closed"}, consumers : Seq(Receivers),
                  msgs : Seq(Msg), preds : SUBSET CachePreds]
    /\ expired \in SUBSET CachePreds
    /\ recv \in [Receivers -> [buf : Seq(Msg), closed : BOOLEAN]]
    /\ put \in [Peers -> Call]
    /\ \A p \in Peers : put[p].n \in 0..MaxMsgs[p] /\ (put[p].pc # "idle" => put[p].n > 0)
    /\ feed \in [Receivers -> Seq(Msg)]
    /\ deleting \in SUBSET Receivers
    /\ got \in [Receivers -> Seq(Msg)]
    /\ history \in [accepted : SUBSET Msg, raced : SUBSET Msg, panicked : BOOLEAN]

\* A receiver whose deletion is pending is closed, and still subscribed unless
\* the relay was closed too.
Deleting ==
    \A c \in deleting : recv[c].closed /\ (~isClosed => c \in Range(relay.consumers))

\* Only a subscriber is fed, with cached messages that it asked for.
Feeding ==
    \A c \in Receivers :
        /\ Range(feed[c]) \subseteq Pred[c] \cap history.accepted
        /\ ~isClosed /\ feed[c] # <<>> => recv[c].closed \/ c \in Range(relay.consumers)

\* Between the read and the write of a cache.Put, the list it has read and the
\* cache differ only by messages of calls that overlap.
Snapshot ==
    \A p \in caching :
        /\ Range(relay.msgs) \ history.raced \subseteq Range(put[p].msgs)
        /\ Range(put[p].msgs) \ history.raced \subseteq Range(relay.msgs)
        /\ Range(put[p].msgs) \subseteq history.accepted
        /\ \A q \in caching \ {p} : message(p) \in history.raced

\* What the cache has taken or a receiver got was sent already.
Sent(m) == m.n <= put[m.from].n

AllSent ==
    /\ Range(relay.msgs) \subseteq history.accepted
    /\ \A m \in history.accepted : Sent(m)
    /\ \A c \in Receivers : \A m \in Range(arrived(c)) : Sent(m)

Inv ==
    /\ TypeOK /\ NeverPanics /\ Deleting /\ Feeding /\ Snapshot /\ AllSent
    /\ KeptUnlessRaced /\ OrderedUnlessCached

LEMMA InitInv == Init => Inv
<1> SUFFICES ASSUME Init PROVE Inv
  OBVIOUS
<1> USE RelayAssumption DEF Init
<1>1. \A c \in Receivers : arrived(c) = <<>>
  BY DEF arrived
<1>2. TypeOK
  BY DEF TypeOK, Call, idle
<1>3. NeverPanics /\ Deleting
  BY DEF NeverPanics, Deleting
<1>4. Feeding /\ AllSent
  BY <1>1, RangeEmpty DEF Feeding, AllSent
<1>5. Snapshot
  BY DEF Snapshot, caching, idle
<1>6. KeptUnlessRaced /\ OrderedUnlessCached
  BY <1>1 DEF KeptUnlessRaced, OrderedUnlessCached
<1> QED BY <1>2, <1>3, <1>4, <1>5, <1>6 DEF Inv

\* A message is one of a sender, with a number.
LEMMA MsgProperties ==
  ASSUME NEW m \in Msg
  PROVE  m.from \in Peers /\ m.n \in Nat
  BY RelayAssumption DEF Msg

LEMMA MessageType ==
  ASSUME TypeOK, NEW p \in Peers, put[p].pc # "idle"
  PROVE  message(p) \in Msg /\ message(p).from = p /\ message(p).n = put[p].n
<1>1. put[p].n \in 1..MaxMsgs[p]
  BY RelayAssumption DEF TypeOK
<1>2. message(p) \in [from : {p}, n : 1..MaxMsgs[p]]
  BY <1>1 DEF message
<1> QED BY <1>2 DEF Msg, message

-----------------------------------------------------------------------------
(* Types *)

LEMMA ReceiverPutType ==
  ASSUME TypeOK, NEW c \in Receivers, NEW m \in Msg, ReceiverPut(c, m)
  PROVE  recv' \in [Receivers -> [buf : Seq(Msg), closed : BOOLEAN]]
<1>1. /\ recv[c] \in [buf : Seq(Msg), closed : BOOLEAN]
      /\ Append(recv[c].buf, m) \in Seq(Msg)
  BY DEF TypeOK
<1>2. [recv[c] EXCEPT !.buf = Append(@, m)] \in [buf : Seq(Msg), closed : BOOLEAN]
  BY <1>1
<1>3. recv' = recv \/ recv' = [recv EXCEPT ![c] = [recv[c] EXCEPT !.buf = Append(@, m)]]
  BY DEF ReceiverPut
<1> QED BY <1>2, <1>3 DEF TypeOK

\* What a peer does to its own call.
LEMMA CallType ==
  ASSUME TypeOK, NEW p \in Peers, NEW x \in Call, put' = [put EXCEPT ![p] = x],
         x.n \in 0..MaxMsgs[p], x.pc # "idle" => x.n > 0
  PROVE  /\ put' \in [Peers -> Call]
         /\ \A q \in Peers : /\ put'[q].n \in 0..MaxMsgs[q]
                             /\ put'[q].pc # "idle" => put'[q].n > 0
  BY DEF TypeOK

LEMMA PublishType ==
  ASSUME TypeOK, NEW p \in Peers, Publish(p) \/ PublishFails(p)
  PROVE  TypeOK'
<1>1. put[p].n \in Nat /\ put[p] \in Call /\ put[p].n <= MaxMsgs[p] /\ MaxMsgs[p] \in Nat
  BY RelayAssumption DEF TypeOK
<1>2. CASE Publish(p)
  <2> DEFINE x == [pc |-> "publishing", n |-> put[p].n + 1]
  <2>1. x \in Call /\ x.n \in 0..MaxMsgs[p] /\ x.n > 0
    BY <1>1, <1>2 DEF Publish, Call
  <2>2. put' = [put EXCEPT ![p] = x]
    BY <1>2 DEF Publish, TypeOK
  <2> QED BY <2>1, <2>2, <1>2, CallType DEF Publish, TypeOK
<1>3. CASE PublishFails(p)
  <2> DEFINE x == [pc |-> "idle", n |-> put[p].n]
  <2>1. x \in Call /\ x.n \in 0..MaxMsgs[p]
    BY <1>1 DEF Call
  <2>2. [put[p] EXCEPT !.pc = "idle"] = x
    BY <1>1, <1>3 DEF PublishFails, Call
  <2>3. put' = [put EXCEPT ![p] = x]
    BY <2>2, <1>3 DEF PublishFails, TypeOK
  <2> QED BY <2>1, <2>3, <1>3, CallType DEF PublishFails, TypeOK
<1> QED BY <1>2, <1>3

LEMMA ReturnType ==
  ASSUME TypeOK, NEW p \in Peers, put' = return(p)
  PROVE  /\ put' \in [Peers -> Call]
         /\ \A q \in Peers : /\ put'[q].n \in 0..MaxMsgs[q]
                             /\ put'[q].pc # "idle" => put'[q].n > 0
<1> DEFINE x == [pc |-> "idle", n |-> put[p].n]
<1>1. x \in Call /\ x.n \in 0..MaxMsgs[p]
  BY DEF Call, TypeOK
<1>2. put' = [put EXCEPT ![p] = x]
  BY DEF return, TypeOK
<1> QED BY <1>1, <1>2, CallType

LEMMA PutType ==
  ASSUME TypeOK, NEW p \in Peers, PutStep(p)
  PROVE  TypeOK'
<1>1. /\ put[p].n \in 0..MaxMsgs[p] /\ put[p] \in Call /\ MaxMsgs[p] \in Nat
      /\ put[p].pc # "idle" => put[p].n > 0
  BY RelayAssumption DEF TypeOK
<1>2. CASE PutBegin(p)
  <2> DEFINE S == {c \in Receivers : message(p) \in Pred[c]}
             to == filter(relay.consumers, S)
             x == [pc |-> "delivering", n |-> put[p].n, todo |-> to, any |-> to # <<>>]
  <2>1. to \in Seq(Receivers)
    BY FilterProperties DEF TypeOK
  <2> HIDE DEF to, S
  <2>2. x \in Call /\ x.n \in 0..MaxMsgs[p] /\ x.n > 0
    BY <1>1, <1>2, <2>1 DEF PutBegin, Call
  <2>3. put' = return(p) \/ put' = [put EXCEPT ![p] = x]
    BY <1>2 DEF PutBegin, TypeOK, to, S
  <2> HIDE DEF x
  <2> QED BY <2>2, <2>3, <1>2, CallType, ReturnType DEF PutBegin, TypeOK
<1>3. CASE PutConsumer(p)
  <2> DEFINE x == [put[p] EXCEPT !.todo = Tail(@)]
  <2>1. put[p] \in [pc : {"delivering"}, n : Nat, todo : Seq(Receivers), any : BOOLEAN]
    BY <1>1, <1>3 DEF PutConsumer, Call
  <2>2. Head(put[p].todo) \in Receivers /\ Tail(put[p].todo) \in Seq(Receivers)
    BY <2>1, <1>3 DEF PutConsumer
  <2>3. /\ x \in [pc : {"delivering"}, n : Nat, todo : Seq(Receivers), any : BOOLEAN]
        /\ x.n = put[p].n
    BY <2>1, <2>2
  <2>4. x \in Call
    BY <2>3 DEF Call
  <2>5. put' = [put EXCEPT ![p] = x]
    BY <1>3 DEF PutConsumer, TypeOK
  <2>6. message(p) \in Msg
    BY <1>3, MessageType DEF PutConsumer
  <2>7. recv' \in [Receivers -> [buf : Seq(Msg), closed : BOOLEAN]]
    BY <2>2, <2>6, <1>3, ReceiverPutType DEF PutConsumer
  <2> HIDE DEF x
  <2>8. /\ put' \in [Peers -> Call]
        /\ \A q \in Peers : /\ put'[q].n \in 0..MaxMsgs[q]
                            /\ put'[q].pc # "idle" => put'[q].n > 0
    BY <2>3, <2>4, <2>5, <1>1, <1>3, CallType DEF PutConsumer
  <2> QED BY <2>7, <2>8, <1>3 DEF PutConsumer, TypeOK
<1>4. CASE PutDone(p)
  BY <1>4, ReturnType DEF PutDone, TypeOK
<1>5. CASE CacheRead(p)
  <2> DEFINE active == relay.preds \ expired
             x == [pc |-> "caching", n |-> put[p].n, msgs |-> relay.msgs, preds |-> active,
                   hit |-> \E k \in active : message(p) \in Cached[k]]
  <2>1. x \in Call /\ x.n \in 0..MaxMsgs[p] /\ x.n > 0
    BY <1>1, <1>5 DEF CacheRead, TypeOK, Call
  <2>2. put' = [put EXCEPT ![p] = x]
    BY <1>5 DEF CacheRead, TypeOK
  <2> HIDE DEF x
  <2>3. \A q \in caching \cup {p} : message(q) \in Msg
    BY <1>5, MessageType DEF CacheRead, caching
  <2>4. history' \in [accepted : SUBSET Msg, raced : SUBSET Msg, panicked : BOOLEAN]
    <3> DEFINE R == IF caching = {} THEN {} ELSE {message(q) : q \in caching \cup {p}}
    <3>1. history.raced \cup R \in SUBSET Msg
      BY <2>3 DEF TypeOK
    <3>2. history' = [history EXCEPT !.raced = history.raced \cup R]
      BY <1>5 DEF CacheRead
    <3> HIDE DEF R
    <3> QED BY <3>1, <3>2 DEF TypeOK
  <2> QED BY <2>1, <2>2, <2>4, <1>5, CallType DEF CacheRead, TypeOK
<1>6. CASE CacheWrite(p)
  <2>1. put[p] \in [pc : {"caching"}, n : Nat, msgs : Seq(Msg),
                    preds : SUBSET CachePreds, hit : BOOLEAN]
    BY <1>1, <1>6 DEF CacheWrite, Call
  <2>2. message(p) \in Msg
    BY <1>6, MessageType DEF CacheWrite
  <2>3. Append(put[p].msgs, message(p)) \in Seq(Msg)
    BY <2>1, <2>2
  <2>4. relay' \in [status : {"open", "closing", "closed"}, consumers : Seq(Receivers),
                    msgs : Seq(Msg), preds : SUBSET CachePreds]
    BY <2>1, <2>3, <1>6 DEF CacheWrite, TypeOK
  <2>5. history' \in [accepted : SUBSET Msg, raced : SUBSET Msg, panicked : BOOLEAN]
    <3>1. history.accepted \cup {message(p)} \in SUBSET Msg
      BY <2>2 DEF TypeOK
    <3> QED BY <3>1, <1>6 DEF CacheWrite, TypeOK
  <2> QED BY <2>4, <2>5, <1>6, ReturnType DEF CacheWrite, TypeOK
<1> QED BY <1>2, <1>3, <1>4, <1>5, <1>6 DEF PutStep

LEMMA ReceiverType ==
  ASSUME TypeOK, NEW c \in Receivers,
         \/ Receive(c) \/ CloseReceiver(c) \/ Subscribe(c)
         \/ FeedCached(c) \/ Delete(c)
  PROVE  TypeOK'
<1>1. CASE Receive(c)
  <2>1. Head(recv[c].buf) \in Msg /\ Tail(recv[c].buf) \in Seq(Msg)
    BY <1>1 DEF Receive, TypeOK
  <2>2. /\ recv[c] \in [buf : Seq(Msg), closed : BOOLEAN] /\ got[c] \in Seq(Msg)
        /\ Append(got[c], Head(recv[c].buf)) \in Seq(Msg)
    BY <2>1 DEF TypeOK
  <2>3. [recv[c] EXCEPT !.buf = Tail(@)] \in [buf : Seq(Msg), closed : BOOLEAN]
    BY <2>1, <2>2
  <2>4. recv' = [recv EXCEPT ![c] = [recv[c] EXCEPT !.buf = Tail(@)]]
    BY <1>1 DEF Receive
  <2>5. recv' \in [Receivers -> [buf : Seq(Msg), closed : BOOLEAN]]
    BY <2>3, <2>4 DEF TypeOK
  <2>6. got' \in [Receivers -> Seq(Msg)]
    BY <2>2, <1>1 DEF Receive, TypeOK
  <2> QED BY <1>1, <2>5, <2>6 DEF Receive, TypeOK
<1>2. CASE CloseReceiver(c)
  BY <1>2 DEF CloseReceiver, TypeOK
<1>3. CASE Subscribe(c)
  <2>1. CacheGet(c).rest \in Seq(Msg) /\ CacheGet(c).matches \in Seq(Msg)
    BY FilterProperties DEF CacheGet, TypeOK
  <2>2. Append(relay.consumers, c) \in Seq(Receivers)
    BY DEF TypeOK
  <2>3. relay' \in [status : {"open", "closing", "closed"}, consumers : Seq(Receivers),
                    msgs : Seq(Msg), preds : SUBSET CachePreds]
    BY <1>3, <2>1, <2>2 DEF Subscribe, TypeOK
  <2>4. feed' \in [Receivers -> Seq(Msg)]
    BY <1>3, <2>1 DEF Subscribe, TypeOK
  <2> QED BY <1>3, <2>3, <2>4 DEF Subscribe, TypeOK
<1>4. CASE FeedCached(c)
  <2>1. Head(feed[c]) \in Msg /\ Tail(feed[c]) \in Seq(Msg)
    BY <1>4 DEF FeedCached, TypeOK
  <2>2. recv' \in [Receivers -> [buf : Seq(Msg), closed : BOOLEAN]]
    BY <2>1, <1>4, ReceiverPutType DEF FeedCached
  <2>3. feed' \in [Receivers -> Seq(Msg)]
    BY <1>4, <2>1 DEF FeedCached, TypeOK
  <2> QED BY <1>4, <2>2, <2>3 DEF FeedCached, TypeOK
<1>5. CASE Delete(c)
  <2>1. c \in Range(relay.consumers) => without(relay.consumers, c) \in Seq(Receivers)
    BY WithoutProperties DEF TypeOK
  <2>2. relay' \in [status : {"open", "closing", "closed"}, consumers : Seq(Receivers),
                    msgs : Seq(Msg), preds : SUBSET CachePreds]
    BY <1>5, <2>1 DEF Delete, TypeOK
  <2>3. history' \in [accepted : SUBSET Msg, raced : SUBSET Msg, panicked : BOOLEAN]
    BY <1>5 DEF Delete, TypeOK
  <2> QED BY <1>5, <2>2, <2>3 DEF Delete, TypeOK
<1> QED BY <1>1, <1>2, <1>3, <1>4, <1>5

LEMMA NextType == TypeOK /\ [Next]_vars => TypeOK'
<1> SUFFICES ASSUME TypeOK, [Next]_vars PROVE TypeOK'
  OBVIOUS
<1>1. CASE UNCHANGED vars
  BY <1>1 DEF vars, TypeOK
<1>2. ASSUME NEW p \in Peers, Publish(p) \/ PublishFails(p) \/ PutStep(p) PROVE TypeOK'
  BY <1>2, PublishType, PutType
<1>3. ASSUME NEW k \in CachePreds, Cache(k) \/ CacheExpires(k) PROVE TypeOK'
  <2>1. relay.preds \cup {k} \in SUBSET CachePreds /\ expired \cup {k} \in SUBSET CachePreds
    BY DEF TypeOK
  <2>2. CASE Cache(k)
    BY <2>1, <2>2 DEF Cache, TypeOK
  <2>3. CASE CacheExpires(k)
    BY <2>1, <2>3 DEF CacheExpires, TypeOK
  <2> QED BY <1>3, <2>2, <2>3
<1>4. CASE SubscribeClient \/ CloseRelay \/ Flush
  <2>1. CASE SubscribeClient
    BY <2>1 DEF SubscribeClient, TypeOK
  <2>2. CASE CloseRelay
    BY <2>2 DEF CloseRelay, TypeOK
  <2>3. CASE Flush
    <3>1. relay' \in [status : {"open", "closing", "closed"}, consumers : Seq(Receivers),
                      msgs : Seq(Msg), preds : SUBSET CachePreds]
      <4>1. <<>> \in Seq(Receivers) /\ <<>> \in Seq(Msg) /\ {} \in SUBSET CachePreds
        OBVIOUS
      <4> QED BY <4>1, <2>3 DEF Flush, TypeOK
    <3> QED BY <3>1, <2>3 DEF Flush, TypeOK
  <2> QED BY <1>4, <2>1, <2>2, <2>3
<1> QED BY <1>1, <1>2, <1>3, <1>4, ReceiverType DEF Next

-----------------------------------------------------------------------------
(* What a step changes *)

\* The number of messages a sender has sent only grows.
LEMMA SentGrows ==
  ASSUME TypeOK, TypeOK', [Next]_vars, NEW p \in Peers
  PROVE  put[p].n \in Nat /\ put'[p].n \in Nat /\ put[p].n <= put'[p].n
<1>1. put[p].n \in Nat /\ put'[p].n \in Nat
  BY RelayAssumption DEF TypeOK
<1>2. ASSUME NEW q \in Peers, Publish(q) PROVE put[p].n <= put'[p].n
  BY <1>1, <1>2 DEF Publish, TypeOK
<1>3. ASSUME NEW q \in Peers, PublishFails(q) PROVE put'[p].n = put[p].n
  <2>1. put[q] \in [pc : {"publishing"}, n : Nat]
    BY <1>3 DEF PublishFails, TypeOK, Call
  <2> QED BY <1>3, <2>1 DEF PublishFails, TypeOK
<1>4. ASSUME NEW q \in Peers, PutStep(q) PROVE put'[p].n = put[p].n
  <2>1. CASE PutBegin(q)
    BY <2>1 DEF PutBegin, return, TypeOK
  <2>2. CASE PutConsumer(q)
    <3>1. put[q] \in [pc : {"delivering"}, n : Nat, todo : Seq(Receivers), any : BOOLEAN]
      BY <2>2 DEF PutConsumer, TypeOK, Call
    <3> QED BY <2>2, <3>1 DEF PutConsumer, TypeOK
  <2>3. CASE PutDone(q) \/ CacheWrite(q)
    <3>1. put' = return(q)
      BY <2>3 DEF PutDone, CacheWrite
    <3> QED BY <3>1 DEF return, TypeOK
  <2>4. CASE CacheRead(q)
    BY <2>4 DEF CacheRead, TypeOK
  <2> QED BY <1>4, <2>1, <2>2, <2>3, <2>4 DEF PutStep
<1>5. CASE UNCHANGED put
  BY <1>1, <1>5
<1>6. UNCHANGED put \/ \E q \in Peers : Publish(q) \/ PublishFails(q) \/ PutStep(q)
  BY DEF Next, vars, Cache, CacheExpires, Receive, CloseReceiver, Subscribe, FeedCached,
         Delete, SubscribeClient, CloseRelay, Flush
<1> QED BY <1>1, <1>2, <1>3, <1>4, <1>5, <1>6

\* Nothing is unsent, reopened or forgotten.
LEMMA HistoryGrows ==
  ASSUME TypeOK, [Next]_vars
  PROVE  /\ history.accepted \subseteq history'.accepted
         /\ history.raced \subseteq history'.raced
         /\ \A c \in Receivers : recv[c].closed => recv'[c].closed
         /\ ~isClosed' => ~isClosed
<1>1. /\ history.accepted \subseteq history'.accepted
      /\ history.raced \subseteq history'.raced
  <2>1. ASSUME NEW p \in Peers, CacheRead(p) \/ CacheWrite(p)
        PROVE  /\ history.accepted \subseteq history'.accepted
               /\ history.raced \subseteq history'.raced
    <3>1. CASE CacheRead(p)
      BY <3>1 DEF CacheRead, TypeOK
    <3>2. CASE CacheWrite(p)
      <4>1. history' = [history EXCEPT !.accepted =
                          IF put[p].hit THEN @ \cup {message(p)} ELSE @]
        BY <3>2 DEF CacheWrite
      <4> QED BY <4>1 DEF TypeOK
    <3> QED BY <2>1, <3>1, <3>2
  <2>2. ASSUME NEW c \in Receivers, Delete(c)
        PROVE  history'.accepted = history.accepted /\ history'.raced = history.raced
    BY <2>2 DEF Delete, TypeOK
  <2>3. \/ UNCHANGED history \/ \E p \in Peers : CacheRead(p) \/ CacheWrite(p)
        \/ \E c \in Receivers : Delete(c)
    BY DEF Next, vars, PutStep, Publish, PublishFails, PutBegin, PutConsumer, PutDone, Cache,
           CacheExpires, Receive, CloseReceiver, Subscribe, FeedCached, SubscribeClient,
           CloseRelay, Flush
  <2> QED BY <2>1, <2>2, <2>3
<1>2. ASSUME NEW c \in Receivers PROVE recv[c].closed => recv'[c].closed
  <2>1. ASSUME NEW d \in Receivers, NEW m, ReceiverPut(d, m) PROVE recv[c].closed => recv'[c].closed
    <3>1. recv[d] \in [buf : Seq(Msg), closed : BOOLEAN] /\ recv \in [Receivers -> [buf : Seq(Msg), closed : BOOLEAN]]
      BY DEF TypeOK
    <3>2. CASE recv' = [recv EXCEPT ![d].buf = Append(@, m)]
      BY <3>1, <3>2
    <3>3. CASE recv' = recv
      BY <3>3
    <3> QED BY <2>1, <3>2, <3>3 DEF ReceiverPut
  <2>2. ASSUME NEW d \in Receivers, Receive(d) \/ CloseReceiver(d)
        PROVE  recv[c].closed => recv'[c].closed
    BY <2>2 DEF Receive, CloseReceiver, TypeOK
  <2>3. ASSUME NEW p \in Peers, PutConsumer(p)
        PROVE  \E d \in Receivers, m \in Msg : ReceiverPut(d, m)
    <3>1. put[p] \in [pc : {"delivering"}, n : Nat, todo : Seq(Receivers), any : BOOLEAN]
      BY <2>3 DEF PutConsumer, TypeOK, Call
    <3>2. Head(put[p].todo) \in Receivers /\ message(p) \in Msg
      BY <2>3, <3>1, MessageType DEF PutConsumer
    <3> QED BY <2>3, <3>2 DEF PutConsumer
  <2>4. \/ UNCHANGED recv \/ \E p \in Peers : PutConsumer(p)
        \/ \E d \in Receivers : Receive(d) \/ CloseReceiver(d) \/ FeedCached(d)
    BY DEF Next, vars, PutStep, Publish, PublishFails, PutBegin, PutDone, CacheRead, CacheWrite,
           Cache, CacheExpires, Subscribe, Delete, SubscribeClient, CloseRelay, Flush
  <2> QED BY <2>1, <2>2, <2>3, <2>4 DEF FeedCached
<1>3. ~isClosed' => ~isClosed
  <2>1. ASSUME NEW p \in Peers, CacheWrite(p) PROVE relay'.status = relay.status
    BY <2>1 DEF CacheWrite, TypeOK
  <2>2. ASSUME NEW k \in CachePreds, Cache(k) PROVE relay'.status = relay.status
    BY <2>2 DEF Cache, TypeOK
  <2>3. ASSUME NEW c \in Receivers, Subscribe(c) \/ Delete(c) PROVE relay'.status = relay.status
    BY <2>3 DEF Subscribe, Delete, TypeOK
  <2>4. CASE CloseRelay \/ Flush
    BY <2>4 DEF CloseRelay, Flush, TypeOK, isClosed
  <2>5. \/ UNCHANGED relay \/ CloseRelay \/ Flush \/ \E p \in Peers : CacheWrite(p)
        \/ (\E k \in CachePreds : Cache(k))
        \/ (\E c \in Receivers : Subscribe(c) \/ Delete(c))
    BY DEF Next, vars, PutStep, Publish, PublishFails, PutBegin, PutConsumer, PutDone, CacheRead,
           CacheExpires, Receive, CloseReceiver, FeedCached, SubscribeClient
  <2> QED BY <2>1, <2>2, <2>3, <2>4, <2>5 DEF isClosed
<1> QED BY <1>1, <1>2, <1>3

\* Receiver.Put appends a message or finds the receiver closed.
LEMMA ReceiverPutEffect ==
  ASSUME TypeOK, NEW c \in Receivers, NEW m \in Msg, ReceiverPut(c, m), UNCHANGED got
  PROVE  /\ \A d \in Receivers : recv'[d].closed = recv[d].closed
         /\ \A d \in Receivers \ {c} : arrived(d)' = arrived(d)
         /\ \/ arrived(c)' = Append(arrived(c), m)
            \/ recv[c].closed /\ arrived(c)' = arrived(c)
<1>1. CASE recv' = [recv EXCEPT ![c].buf = Append(@, m)]
  <2>1. /\ \A d \in Receivers \ {c} : recv'[d] = recv[d]
        /\ recv'[c].buf = Append(recv[c].buf, m)
        /\ recv'[c].closed = recv[c].closed
    BY <1>1 DEF TypeOK
  <2>2. recv[c].buf \in Seq(Msg) /\ got[c] \in Seq(Msg)
    BY DEF TypeOK
  <2>3. got[c] \o Append(recv[c].buf, m) = Append(got[c] \o recv[c].buf, m)
    <3>1. \A s, t \in Seq(Msg), x \in Msg : s \o Append(t, x) = Append(s \o t, x)
      BY AppendLast
    <3> QED BY <2>2, <3>1
  <2> QED BY <2>1, <2>3 DEF arrived
<1>2. CASE recv[c].closed /\ UNCHANGED recv
  BY <1>2 DEF arrived
<1> QED BY <1>1, <1>2 DEF ReceiverPut

\* Of what has arrived at a receiver, a step leaves everything where it is, and
\* puts at most one message after it: one from the cache, or the one that its
\* sender is delivering.
ArrivalOf(c, m) ==
    \/ m \in history.accepted
    \/ m.from \in Peers /\ m.n = put[m.from].n

LEMMA ArrivedStep ==
  ASSUME TypeOK, Feeding, [Next]_vars, NEW c \in Receivers
  PROVE  \/ arrived(c)' = arrived(c)
         \/ \E m \in Msg : ArrivalOf(c, m) /\ arrived(c)' = Append(arrived(c), m)
<1>1. ASSUME NEW p \in Peers, PutConsumer(p)
      PROVE  \/ arrived(c)' = arrived(c)
             \/ \E m \in Msg : ArrivalOf(c, m) /\ arrived(c)' = Append(arrived(c), m)
  <2>1. put[p] \in [pc : {"delivering"}, n : Nat, todo : Seq(Receivers), any : BOOLEAN]
    BY <1>1 DEF PutConsumer, TypeOK, Call
  <2>2. Head(put[p].todo) \in Receivers
    BY <1>1, <2>1 DEF PutConsumer
  <2>3. message(p) \in Msg /\ message(p).from = p /\ message(p).n = put[p].n
    BY <1>1, MessageType DEF PutConsumer
  <2>4. ArrivalOf(c, message(p))
    BY <2>3 DEF ArrivalOf
  <2> QED BY <1>1, <2>2, <2>3, <2>4, ReceiverPutEffect DEF PutConsumer
<1>2. ASSUME NEW d \in Receivers, FeedCached(d)
      PROVE  \/ arrived(c)' = arrived(c)
             \/ \E m \in Msg : ArrivalOf(c, m) /\ arrived(c)' = Append(arrived(c), m)
  <2>1. Head(feed[d]) \in Msg /\ Head(feed[d]) \in Range(feed[d])
    BY <1>2, RangeHeadTail DEF FeedCached, TypeOK
  <2>2. ArrivalOf(c, Head(feed[d]))
    BY <2>1 DEF Feeding, ArrivalOf
  <2> QED BY <1>2, <2>1, <2>2, ReceiverPutEffect DEF FeedCached
<1>3. ASSUME NEW d \in Receivers, Receive(d) PROVE arrived(c)' = arrived(c)
  <2>1. CASE d = c
    <3>1. recv[c].buf \in Seq(Msg) /\ got[c] \in Seq(Msg)
      BY DEF TypeOK
    <3>2. /\ got'[c] = Append(got[c], Head(recv[c].buf))
          /\ recv'[c].buf = Tail(recv[c].buf)
      BY <1>3, <2>1 DEF Receive, TypeOK
    <3>3. recv[c].buf # <<>>
      BY <1>3, <2>1 DEF Receive
    <3> QED BY <3>1, <3>2, <3>3, MoveHead DEF arrived
  <2>2. CASE d # c
    BY <1>3, <2>2 DEF Receive, TypeOK, arrived
  <2> QED BY <2>1, <2>2
<1>4. ASSUME NEW d \in Receivers, CloseReceiver(d) PROVE arrived(c)' = arrived(c)
  <2>1. recv'[c].buf = recv[c].buf /\ got' = got
    BY <1>4 DEF CloseReceiver, TypeOK
  <2> QED BY <2>1 DEF arrived
<1>5. \/ UNCHANGED <<recv, got>> \/ \E p \in Peers : PutConsumer(p)
      \/ \E d \in Receivers : Receive(d) \/ CloseReceiver(d) \/ FeedCached(d)
  BY DEF Next, vars, PutStep, Publish, PublishFails, PutBegin, PutDone, CacheRead, CacheWrite,
         Cache, CacheExpires, Subscribe, Delete, SubscribeClient, CloseRelay, Flush
<1>6. CASE UNCHANGED <<recv, got>>
  BY <1>6 DEF arrived
<1> QED BY <1>1, <1>2, <1>3, <1>4, <1>5, <1>6

-----------------------------------------------------------------------------
(* The parts of the invariant *)

\* Who is subscribed or about to be deleted changes only in these steps.
LEMMA SubscriptionFrame ==
  ASSUME TypeOK, [Next]_vars
  PROVE  \/ /\ relay'.consumers = relay.consumers /\ relay'.status = relay.status
            /\ deleting' = deleting /\ history'.panicked = history.panicked
         \/ CloseRelay \/ Flush
         \/ \E c \in Receivers : CloseReceiver(c) \/ Subscribe(c) \/ Delete(c)
<1> DEFINE Same == /\ relay'.consumers = relay.consumers /\ relay'.status = relay.status
                   /\ deleting' = deleting /\ history'.panicked = history.panicked
<1>1. ASSUME NEW p \in Peers, CacheWrite(p) PROVE Same
  <2>1. relay'.consumers = relay.consumers /\ relay'.status = relay.status
    BY <1>1 DEF CacheWrite, TypeOK
  <2>2. history'.panicked = history.panicked
    BY <1>1 DEF CacheWrite, TypeOK
  <2> QED BY <1>1, <2>1, <2>2 DEF CacheWrite
<1>2. ASSUME NEW p \in Peers, CacheRead(p) PROVE Same
  BY <1>2 DEF CacheRead, TypeOK
<1>3. ASSUME NEW k \in CachePreds, Cache(k) PROVE Same
  BY <1>3 DEF Cache, TypeOK
<1>4. \/ UNCHANGED <<relay, deleting, history>>
      \/ (\E p \in Peers : CacheWrite(p) \/ CacheRead(p)) \/ (\E k \in CachePreds : Cache(k))
      \/ CloseRelay \/ Flush
      \/ \E c \in Receivers : CloseReceiver(c) \/ Subscribe(c) \/ Delete(c)
  BY DEF Next, vars, PutStep, Publish, PublishFails, PutBegin, PutConsumer, PutDone,
         CacheExpires, Receive, FeedCached, SubscribeClient
<1> QED BY <1>1, <1>2, <1>3, <1>4

\* Subscribe appends, delete takes one away.
LEMMA DeletingInv ==
  ASSUME TypeOK, Deleting, NeverPanics, [Next]_vars
  PROVE  Deleting' /\ NeverPanics'
<1>1. \A c \in Receivers : recv[c].closed => recv'[c].closed
  BY HistoryGrows
<1>2. CASE /\ relay'.consumers = relay.consumers /\ relay'.status = relay.status
           /\ deleting' = deleting /\ history'.panicked = history.panicked
  BY <1>1, <1>2 DEF Deleting, NeverPanics, isClosed, TypeOK
<1>3. CASE CloseRelay \/ Flush
  <2>1. isClosed' /\ deleting' = deleting /\ history' = history
    BY <1>3 DEF CloseRelay, Flush, isClosed, TypeOK
  <2> QED BY <1>1, <2>1 DEF Deleting, NeverPanics, TypeOK
<1>4. ASSUME NEW c \in Receivers, CloseReceiver(c) PROVE Deleting' /\ NeverPanics'
  <2>1. recv'[c].closed /\ relay' = relay /\ history' = history
    BY <1>4 DEF CloseReceiver, TypeOK
  <2>2. deleting' \subseteq deleting \cup {c} /\ (c \in deleting' \ deleting => c \in Range(relay.consumers))
    BY <1>4 DEF CloseReceiver
  <2> QED BY <1>1, <2>1, <2>2 DEF Deleting, NeverPanics, isClosed, TypeOK
<1>5. ASSUME NEW c \in Receivers, Subscribe(c) PROVE Deleting' /\ NeverPanics'
  <2>1. /\ relay'.consumers = Append(relay.consumers, c) /\ relay'.status = relay.status
        /\ deleting' = deleting /\ history' = history
    BY <1>5 DEF Subscribe, TypeOK
  <2>2. Range(Append(relay.consumers, c)) = Range(relay.consumers) \cup {c}
    BY RangeAppend DEF TypeOK
  <2> QED BY <1>1, <2>1, <2>2 DEF Deleting, NeverPanics, isClosed, TypeOK
<1>6. ASSUME NEW c \in Receivers, Delete(c) PROVE Deleting' /\ NeverPanics'
  <2>1. c \in deleting /\ deleting' = deleting \ {c} /\ recv' = recv
    BY <1>6 DEF Delete
  <2>2. ~isClosed => c \in Range(relay.consumers)
    BY <2>1 DEF Deleting
  <2>3. history'.panicked = history.panicked
    BY <1>6, <2>2 DEF Delete, TypeOK
  <2>4. relay'.status = relay.status
    BY <1>6 DEF Delete, TypeOK
  <2>5. ~isClosed => relay'.consumers = without(relay.consumers, c)
    BY <1>6, <2>2 DEF Delete, TypeOK
  <2>6. ~isClosed => Range(relay.consumers) \ {c} \subseteq Range(without(relay.consumers, c))
    BY <2>2, WithoutProperties DEF TypeOK
  <2> QED BY <2>1, <2>3, <2>4, <2>5, <2>6 DEF Deleting, NeverPanics, isClosed
<1> QED BY <1>2, <1>3, <1>4, <1>5, <1>6, SubscriptionFrame

\* A receiver that is subscribed again has nothing left to be fed.
LEMMA FeedingInv ==
  ASSUME TypeOK, TypeOK', Deleting, Feeding, AllSent, [Next]_vars
  PROVE  Feeding'
<1>1. /\ history.accepted \subseteq history'.accepted
      /\ \A c \in Receivers : recv[c].closed => recv'[c].closed
      /\ ~isClosed' => ~isClosed
  BY HistoryGrows
<1>2. ASSUME NEW c \in Receivers, FeedCached(c) PROVE Feeding'
  <2>1. Range(Tail(feed[c])) \subseteq Range(feed[c])
    BY <1>2, RangeHeadTail DEF FeedCached, TypeOK
  <2>2. feed' = [feed EXCEPT ![c] = Tail(@)] /\ relay' = relay /\ feed[c] # <<>>
    BY <1>2 DEF FeedCached
  <2>3. \A d \in Receivers : /\ Range(feed'[d]) \subseteq Range(feed[d])
                             /\ feed'[d] # <<>> => feed[d] # <<>>
    BY <2>1, <2>2 DEF TypeOK
  <2> QED BY <1>1, <2>2, <2>3 DEF Feeding, isClosed
<1>3. ASSUME NEW c \in Receivers, Subscribe(c) PROVE Feeding'
  <2>1. Range(CacheGet(c).matches) = Range(relay.msgs) \cap Pred[c]
    BY FilterProperties DEF CacheGet, TypeOK
  <2>2. /\ feed' = [feed EXCEPT ![c] = CacheGet(c).matches] /\ recv' = recv
        /\ relay'.consumers = Append(relay.consumers, c)
    BY <1>3 DEF Subscribe, TypeOK
  <2>3. Range(relay'.consumers) = Range(relay.consumers) \cup {c}
    BY <2>2, RangeAppend DEF TypeOK
  <2>4. Range(relay.msgs) \subseteq history.accepted
    BY DEF AllSent
  <2>5. \A d \in Receivers \ {c} : feed'[d] = feed[d]
    BY <2>2 DEF TypeOK
  <2>6. feed'[c] = CacheGet(c).matches
    BY <2>2 DEF TypeOK
  <2> QED BY <1>1, <2>1, <2>2, <2>3, <2>4, <2>5, <2>6 DEF Feeding
<1>4. CASE UNCHANGED feed
  <2>1. \A c \in Receivers : Range(feed'[c]) \subseteq Pred[c] \cap history'.accepted
    BY <1>1, <1>4 DEF Feeding
  <2>2. ASSUME ~isClosed', NEW c \in Receivers, feed[c] # <<>>
        PROVE  recv'[c].closed \/ c \in Range(relay'.consumers)
    <3>1. recv[c].closed \/ c \in Range(relay.consumers)
      BY <1>1, <2>2 DEF Feeding
    <3>2. CASE relay'.consumers = relay.consumers
      BY <1>1, <3>1, <3>2
    <3>3. CASE CloseRelay \/ Flush
      BY <2>2, <3>3 DEF CloseRelay, Flush, TypeOK, isClosed
    <3>4. ASSUME NEW d \in Receivers, CloseReceiver(d) PROVE relay'.consumers = relay.consumers
      BY <3>4 DEF CloseReceiver
    <3>5. ASSUME NEW d \in Receivers, Delete(d)
          PROVE  recv'[c].closed \/ c \in Range(relay'.consumers)
      <4>1. d \in deleting /\ recv' = recv /\ recv[d].closed
        BY <3>5 DEF Delete, Deleting
      <4>2. d \in Range(relay.consumers) /\ ~isClosed
        BY <1>1, <2>2, <4>1 DEF Deleting
      <4>3. relay'.consumers = without(relay.consumers, d)
        BY <3>5, <4>2 DEF Delete, TypeOK
      <4>4. Range(relay.consumers) \ {d} \subseteq Range(relay'.consumers)
        BY <4>2, <4>3, WithoutProperties DEF TypeOK
      <4> QED BY <3>1, <4>1, <4>4
    <3>6. ASSUME NEW d \in Receivers, Subscribe(d)
          PROVE  recv'[c].closed \/ c \in Range(relay'.consumers)
      <4>1. relay'.consumers = Append(relay.consumers, d)
        BY <3>6 DEF Subscribe, TypeOK
      <4>2. Range(relay'.consumers) = Range(relay.consumers) \cup {d}
        BY <4>1, RangeAppend DEF TypeOK
      <4> QED BY <1>1, <3>1, <4>2
    <3> QED BY <3>2, <3>3, <3>4, <3>5, <3>6, SubscriptionFrame
  <2> QED BY <1>4, <2>1, <2>2 DEF Feeding
<1>5. UNCHANGED feed \/ \E c \in Receivers : FeedCached(c) \/ Subscribe(c)
  BY DEF Next, vars, PutStep, Publish, PublishFails, PutBegin, PutConsumer, PutDone, CacheRead,
         CacheWrite, Cache, CacheExpires, Receive, CloseReceiver, Delete, SubscribeClient,
         CloseRelay, Flush
<1> QED BY <1>2, <1>3, <1>4, <1>5

\* A call is in cache.Put only since its CacheRead.
LEMMA CachingFrame ==
  ASSUME TypeOK, [Next]_vars
  PROVE  \/ \A p \in caching' : p \in caching /\ put'[p] = put[p]
         \/ \E p \in Peers : CacheRead(p)
<1> DEFINE Fewer == \A p \in caching' : p \in caching /\ put'[p] = put[p]
<1>1. ASSUME NEW p \in Peers, NEW x, x.pc # "caching", put' = [put EXCEPT ![p] = x]
      PROVE  Fewer
  BY <1>1 DEF caching, TypeOK
<1>2. ASSUME NEW p \in Peers, Publish(p) PROVE Fewer
  <2> DEFINE x == [pc |-> "publishing", n |-> put[p].n + 1]
  <2>1. put' = [put EXCEPT ![p] = x] /\ x.pc # "caching"
    BY <1>2 DEF Publish, TypeOK
  <2> QED BY <2>1, <1>1
<1>3. ASSUME NEW p \in Peers, PublishFails(p) PROVE Fewer
  <2> DEFINE x == [put[p] EXCEPT !.pc = "idle"]
  <2>1. put[p] \in [pc : {"publishing"}, n : Nat]
    BY <1>3 DEF PublishFails, TypeOK, Call
  <2>2. put' = [put EXCEPT ![p] = x] /\ x.pc # "caching"
    BY <1>3, <2>1 DEF PublishFails, TypeOK
  <2> QED BY <2>2, <1>1
<1>4. ASSUME NEW p \in Peers, PutBegin(p) PROVE Fewer
  BY <1>4 DEF PutBegin, return, TypeOK, caching
<1>5. ASSUME NEW p \in Peers, PutConsumer(p) PROVE Fewer
  <2> DEFINE x == [put[p] EXCEPT !.todo = Tail(@)]
  <2>1. put[p] \in [pc : {"delivering"}, n : Nat, todo : Seq(Receivers), any : BOOLEAN]
    BY <1>5 DEF PutConsumer, TypeOK, Call
  <2>2. put' = [put EXCEPT ![p] = x] /\ x.pc # "caching"
    BY <1>5, <2>1 DEF PutConsumer, TypeOK
  <2> QED BY <2>2, <1>1
<1>6. ASSUME NEW p \in Peers, PutDone(p) \/ CacheWrite(p) PROVE Fewer
  <2>1. put' = return(p)
    BY <1>6 DEF PutDone, CacheWrite
  <2> QED BY <2>1 DEF return, TypeOK, caching
<1>7. CASE UNCHANGED put
  BY <1>7 DEF caching
<1>8. \/ UNCHANGED put
      \/ \E p \in Peers : \/ Publish(p) \/ PublishFails(p) \/ PutBegin(p) \/ PutConsumer(p)
                          \/ PutDone(p) \/ CacheWrite(p) \/ CacheRead(p)
  BY DEF Next, vars, PutStep, Cache, CacheExpires, Receive, CloseReceiver, Subscribe, FeedCached,
         Delete, SubscribeClient, CloseRelay, Flush
<1> QED BY <1>2, <1>3, <1>4, <1>5, <1>6, <1>7, <1>8

\* The cached messages change only in these steps.
LEMMA CacheFrame ==
  ASSUME TypeOK, [Next]_vars
  PROVE  \/ relay'.msgs = relay.msgs /\ history'.accepted = history.accepted
         \/ \E p \in Peers : CacheWrite(p)
         \/ \E c \in Receivers : Subscribe(c)
         \/ Flush
<1> DEFINE Same == relay'.msgs = relay.msgs /\ history'.accepted = history.accepted
<1>1. ASSUME NEW p \in Peers, CacheRead(p) PROVE Same
  BY <1>1 DEF CacheRead, TypeOK
<1>2. ASSUME NEW k \in CachePreds, Cache(k) PROVE Same
  BY <1>2 DEF Cache, TypeOK
<1>3. ASSUME NEW c \in Receivers, Delete(c) PROVE Same
  BY <1>3 DEF Delete, TypeOK
<1>4. CASE CloseRelay
  BY <1>4 DEF CloseRelay, TypeOK
<1>5. \/ UNCHANGED <<relay, history>> \/ CloseRelay \/ Flush
      \/ (\E p \in Peers : CacheRead(p) \/ CacheWrite(p)) \/ (\E k \in CachePreds : Cache(k))
      \/ \E c \in Receivers : Subscribe(c) \/ Delete(c)
  BY DEF Next, vars, PutStep, Publish, PublishFails, PutBegin, PutConsumer, PutDone,
         CacheExpires, Receive, CloseReceiver, FeedCached, SubscribeClient
<1> QED BY <1>1, <1>2, <1>3, <1>4, <1>5

\* What the write of cache.Put leaves in the cache.
LEMMA CacheWriteEffect ==
  ASSUME TypeOK, NEW p \in Peers, CacheWrite(p)
  PROVE  /\ p \in caching /\ message(p) \in Msg
         /\ history'.raced = history.raced
         /\ \/ /\ Range(relay'.msgs) = Range(put[p].msgs) \cup {message(p)}
               /\ history'.accepted = history.accepted \cup {message(p)}
            \/ relay'.msgs = relay.msgs /\ history'.accepted = history.accepted
<1>1. put[p] \in [pc : {"caching"}, n : Nat, msgs : Seq(Msg),
                  preds : SUBSET CachePreds, hit : BOOLEAN]
  BY DEF CacheWrite, TypeOK, Call
<1>2. message(p) \in Msg /\ p \in caching
  BY MessageType DEF CacheWrite, caching
<1>3. history'.raced = history.raced
  BY DEF CacheWrite, TypeOK
<1>4. Range(Append(put[p].msgs, message(p))) = Range(put[p].msgs) \cup {message(p)}
  BY <1>1, <1>2, RangeAppend
<1>5. relay'.msgs = IF put[p].hit THEN Append(put[p].msgs, message(p)) ELSE relay.msgs
  BY DEF CacheWrite, TypeOK
<1>6. history'.accepted = IF put[p].hit THEN history.accepted \cup {message(p)}
                          ELSE history.accepted
  BY DEF CacheWrite, TypeOK
<1> QED BY <1>2, <1>3, <1>4, <1>5, <1>6

\* The core of the argument: a call that has read the cache before another one
\* wrote to it overlaps with that one.
LEMMA SnapshotInv ==
  ASSUME TypeOK, Snapshot, AllSent, [Next]_vars
  PROVE  Snapshot'
<1>1. /\ history.accepted \subseteq history'.accepted
      /\ history.raced \subseteq history'.raced
  BY HistoryGrows
<1>2. ASSUME NEW p \in Peers, CacheRead(p) PROVE Snapshot'
  <2>1. put'[p].pc = "caching" /\ put'[p].msgs = relay.msgs /\ put'[p].n = put[p].n
    BY <1>2 DEF CacheRead, TypeOK
  <2>2. \A q \in Peers \ {p} : put'[q] = put[q]
    BY <1>2 DEF CacheRead, TypeOK
  <2>3. caching' = caching \cup {p} /\ p \notin caching
    BY <1>2, <2>1, <2>2 DEF caching, CacheRead
  <2>4. \A q \in Peers : message(q)' = message(q)
    BY <2>1, <2>2 DEF message
  <2>5. caching # {} => \A q \in caching \cup {p} : message(q) \in history'.raced
    BY <1>2 DEF CacheRead, TypeOK
  <2>6. relay' = relay
    BY <1>2 DEF CacheRead
  <2>7. ASSUME NEW q \in caching'
        PROVE  /\ Range(relay'.msgs) \ history'.raced \subseteq Range(put'[q].msgs)
               /\ Range(put'[q].msgs) \ history'.raced \subseteq Range(relay'.msgs)
               /\ Range(put'[q].msgs) \subseteq history'.accepted
    <3>1. CASE q = p
      BY <1>1, <2>1, <2>6, <3>1 DEF AllSent
    <3>2. CASE q # p
      <4>1. q \in caching /\ put'[q] = put[q]
        BY <2>2, <2>3, <2>7, <3>2 DEF caching
      <4> QED BY <1>1, <2>6, <4>1 DEF Snapshot
    <3> QED BY <3>1, <3>2
  <2>8. ASSUME NEW q \in caching', NEW r \in caching' \ {q} PROVE message(q)' \in history'.raced
    <3>1. q \in Peers /\ r \in Peers /\ caching # {}
      BY <2>3 DEF caching
    <3> QED BY <2>3, <2>4, <2>5, <3>1
  <2> QED BY <2>7, <2>8 DEF Snapshot
<1>3. CASE \A p \in caching' : p \in caching /\ put'[p] = put[p]
  <2>1. \A p \in caching' : message(p)' = message(p)
    BY <1>3 DEF message
  <2>2. \A p \in caching' : \A q \in caching' \ {p} : message(p)' \in history'.raced
    BY <1>1, <1>3, <2>1 DEF Snapshot
  <2>3. CASE relay'.msgs = relay.msgs
    <3>1. \A p \in caching' :
            /\ Range(relay'.msgs) \ history'.raced \subseteq Range(put'[p].msgs)
            /\ Range(put'[p].msgs) \ history'.raced \subseteq Range(relay'.msgs)
            /\ Range(put'[p].msgs) \subseteq history'.accepted
      BY <1>1, <1>3, <2>3 DEF Snapshot
    <3> QED BY <2>2, <3>1 DEF Snapshot
  <2>4. CASE (\E c \in Receivers : Subscribe(c)) \/ Flush
    <3>1. readers = {} /\ put' = put
      BY <2>4 DEF Subscribe, Flush
    <3>2. caching' = {}
      BY <3>1 DEF readers, caching
    <3> QED BY <3>2 DEF Snapshot
  <2>5. ASSUME NEW w \in Peers, CacheWrite(w), relay'.msgs # relay.msgs PROVE Snapshot'
    <3>1. /\ w \in caching /\ history'.raced = history.raced
          /\ Range(relay'.msgs) = Range(put[w].msgs) \cup {message(w)}
      BY <2>5, CacheWriteEffect
    <3>2. w \notin caching'
      BY <2>5 DEF CacheWrite, return, TypeOK, caching
    <3>3. ASSUME NEW p \in caching'
          PROVE  /\ Range(relay'.msgs) \ history'.raced \subseteq Range(put'[p].msgs)
                 /\ Range(put'[p].msgs) \ history'.raced \subseteq Range(relay'.msgs)
                 /\ Range(put'[p].msgs) \subseteq history'.accepted
      <4>1. p \in caching /\ put'[p] = put[p] /\ p # w
        BY <1>3, <3>2, <3>3
      <4>2. message(w) \in history.raced
        BY <3>1, <4>1 DEF Snapshot
      <4>3. /\ Range(put[w].msgs) \ history.raced \subseteq Range(relay.msgs)
            /\ Range(relay.msgs) \ history.raced \subseteq Range(put[w].msgs)
            /\ Range(put[p].msgs) \ history.raced \subseteq Range(relay.msgs)
            /\ Range(relay.msgs) \ history.raced \subseteq Range(put[p].msgs)
            /\ Range(put[p].msgs) \subseteq history.accepted
        BY <3>1, <4>1 DEF Snapshot
      <4> QED BY <1>1, <3>1, <4>1, <4>2, <4>3
    <3> QED BY <2>2, <3>3 DEF Snapshot
  <2> QED BY <2>3, <2>4, <2>5, CacheFrame
<1> QED BY <1>2, <1>3, CachingFrame

LEMMA AllSentInv ==
  ASSUME TypeOK, TypeOK', Feeding, Snapshot, AllSent, [Next]_vars
  PROVE  AllSent'
<1>1. /\ history.accepted \subseteq history'.accepted
      /\ history.raced \subseteq history'.raced
  BY HistoryGrows
<1>2. ASSUME NEW m \in Msg, Sent(m) PROVE Sent(m)'
  <2>1. m.from \in Peers /\ m.n \in Nat
    BY MsgProperties
  <2>2. put[m.from].n \in Nat /\ put'[m.from].n \in Nat /\ put[m.from].n <= put'[m.from].n
    BY <2>1, SentGrows
  <2> QED BY <1>2, <2>1, <2>2 DEF Sent
<1>3. /\ Range(relay'.msgs) \subseteq history'.accepted
      /\ \A m \in history'.accepted : Sent(m)
  <2>1. CASE relay'.msgs = relay.msgs /\ history'.accepted = history.accepted
    BY <2>1 DEF AllSent
  <2>2. ASSUME NEW w \in Peers, CacheWrite(w)
        PROVE  /\ Range(relay'.msgs) \subseteq history'.accepted
               /\ \A m \in history'.accepted : Sent(m)
    <3>1. Range(put[w].msgs) \subseteq history.accepted
      BY <2>2, CacheWriteEffect DEF Snapshot
    <3>2. message(w).from = w /\ message(w).n = put[w].n /\ put[w].n \in Nat
      BY <2>2, MessageType, SentGrows DEF CacheWrite
    <3>3. Sent(message(w))
      BY <3>2 DEF Sent
    <3> QED BY <2>2, <3>1, <3>3, CacheWriteEffect DEF AllSent
  <2>3. ASSUME NEW c \in Receivers, Subscribe(c)
        PROVE  /\ Range(relay'.msgs) \subseteq history'.accepted
               /\ \A m \in history'.accepted : Sent(m)
    <3>1. relay'.msgs = CacheGet(c).rest /\ history' = history
      BY <2>3 DEF Subscribe, TypeOK
    <3>2. Range(CacheGet(c).rest) \subseteq Range(relay.msgs)
      BY FilterProperties DEF CacheGet, TypeOK
    <3> QED BY <3>1, <3>2 DEF AllSent
  <2>4. CASE Flush
    <3>1. relay'.msgs = <<>> /\ history' = history
      BY <2>4 DEF Flush, TypeOK
    <3> QED BY <3>1, RangeEmpty DEF AllSent
  <2> QED BY <2>1, <2>2, <2>3, <2>4, CacheFrame
<1>4. \A m \in history'.accepted : Sent(m)'
  BY <1>2, <1>3 DEF TypeOK
<1>5. ASSUME NEW c \in Receivers, NEW m \in Range(arrived(c)') PROVE Sent(m)'
  <2>1. arrived(c) \in Seq(Msg) /\ Range(arrived(c)) \subseteq Msg
    BY DEF arrived, TypeOK, Range
  <2>2. CASE m \in Range(arrived(c))
    BY <1>2, <2>1, <2>2 DEF AllSent
  <2>3. ASSUME NEW x \in Msg, ArrivalOf(c, x), arrived(c)' = Append(arrived(c), x), m = x
        PROVE  Sent(m)'
    <3>1. Sent(x)
      <4>1. x.from \in Peers /\ x.n \in Nat /\ put[x.from].n \in Nat
        BY MsgProperties, SentGrows
      <4> QED BY <2>3, <4>1 DEF ArrivalOf, AllSent, Sent
    <3> QED BY <1>2, <2>3, <3>1
  <2>4. ASSUME NEW x \in Msg, arrived(c)' = Append(arrived(c), x)
        PROVE  Range(arrived(c)') = Range(arrived(c)) \cup {x}
    BY <2>1, <2>4, RangeAppend
  <2> QED BY <2>2, <2>3, <2>4, ArrivedStep
<1> QED BY <1>3, <1>4, <1>5 DEF AllSent

\* Where a message that the cache has taken may be.
Held(m) ==
    \/ m \in Range(relay.msgs)
    \/ \E c \in Receivers : \/ m \in Range(arrived(c)) \cup Range(feed[c])
                            \/ recv[c].closed /\ m \in Pred[c]

LEMMA KeptIsHeld ==
  ASSUME TypeOK
  PROVE  KeptUnlessRaced
           <=> (~isClosed => \A m \in history.accepted \ history.raced : Held(m))
<1>1. \A c \in Receivers : Range(arrived(c) \o feed[c]) = Range(arrived(c)) \cup Range(feed[c])
  <2>1. \A c \in Receivers : arrived(c) \in Seq(Msg) /\ feed[c] \in Seq(Msg)
    BY DEF arrived, TypeOK
  <2> QED BY <2>1, RangeConcat
<1> QED BY <1>1 DEF KeptUnlessRaced, Held

LEMMA KeptInv ==
  ASSUME TypeOK, TypeOK', Feeding, Snapshot, KeptUnlessRaced, [Next]_vars
  PROVE  KeptUnlessRaced'
<1>1. /\ history.raced \subseteq history'.raced
      /\ \A c \in Receivers : recv[c].closed => recv'[c].closed
      /\ ~isClosed' => ~isClosed
  BY HistoryGrows
<1>2. SUFFICES ASSUME ~isClosed', NEW m \in history'.accepted \ history'.raced PROVE Held(m)'
  <2>1. \A c \in Receivers : arrived(c)' \in Seq(Msg) /\ feed'[c] \in Seq(Msg)
    BY DEF arrived, TypeOK
  <2>2. \A c \in Receivers : Range(arrived(c)' \o feed'[c])
                              = Range(arrived(c)') \cup Range(feed'[c])
    BY <2>1, RangeConcat
  <2> QED BY <2>2 DEF KeptUnlessRaced, Held
<1>3. ASSUME NEW c \in Receivers PROVE Range(arrived(c)) \subseteq Range(arrived(c)')
  <2>1. arrived(c) \in Seq(Msg)
    BY DEF arrived, TypeOK
  <2>2. ASSUME NEW x \in Msg, arrived(c)' = Append(arrived(c), x)
        PROVE  Range(arrived(c)') = Range(arrived(c)) \cup {x}
    BY <2>1, <2>2, RangeAppend
  <2> QED BY <2>2, ArrivedStep
<1>4. CASE m \in history.accepted
  <2>1. Held(m)
    BY <1>1, <1>2, <1>4, KeptIsHeld
  <2>2. CASE m \in Range(relay.msgs)
    <3>1. CASE relay'.msgs = relay.msgs
      BY <2>2, <3>1 DEF Held
    <3>2. ASSUME NEW w \in Peers, CacheWrite(w) PROVE m \in Range(relay'.msgs)
      <4>1. m \in Range(put[w].msgs)
        BY <1>1, <1>2, <2>2, <3>2, CacheWriteEffect DEF Snapshot
      <4> QED BY <2>2, <3>2, <4>1, CacheWriteEffect
    <3>3. ASSUME NEW c \in Receivers, Subscribe(c)
          PROVE  m \in Range(relay'.msgs) \/ m \in Range(feed'[c])
      <4>1. relay'.msgs = CacheGet(c).rest /\ feed'[c] = CacheGet(c).matches
        BY <3>3 DEF Subscribe, TypeOK
      <4>2. /\ Range(CacheGet(c).rest) = Range(relay.msgs) \cap (Msg \ Pred[c])
            /\ Range(CacheGet(c).matches) = Range(relay.msgs) \cap Pred[c]
        BY FilterProperties DEF CacheGet, TypeOK
      <4>3. m \in Msg
        BY <1>2 DEF TypeOK
      <4> QED BY <2>2, <4>1, <4>2, <4>3
    <3>4. ~Flush
      BY <1>2 DEF Flush, isClosed, TypeOK
    <3> QED BY <3>1, <3>2, <3>3, <3>4, CacheFrame DEF Held
  <2>3. ASSUME NEW c \in Receivers, m \in Range(arrived(c)) PROVE Held(m)'
    BY <1>3, <2>3 DEF Held
  <2>4. ASSUME NEW c \in Receivers, recv[c].closed, m \in Pred[c] PROVE Held(m)'
    BY <1>1, <2>4 DEF Held
  <2>5. ASSUME NEW c \in Receivers, m \in Range(feed[c]) PROVE Held(m)'
    <3>1. CASE feed'[c] = feed[c]
      BY <2>5, <3>1 DEF Held
    <3>2. ASSUME NEW d \in Receivers, Subscribe(d) PROVE feed'[c] = feed[c]
      <4>1. CASE d = c
        <5>1. feed[c] = <<>>
          BY <3>2, <4>1 DEF Subscribe, Feeding
        <5> QED BY <2>5, <5>1, RangeEmpty
      <4>2. CASE d # c
        BY <3>2, <4>2 DEF Subscribe, TypeOK
      <4> QED BY <4>1, <4>2
    <3>3. ASSUME NEW d \in Receivers, FeedCached(d) PROVE Held(m)'
      <4>1. CASE d # c
        BY <3>1, <3>3, <4>1 DEF FeedCached, TypeOK
      <4>2. CASE d = c
        <5>1. /\ Head(feed[c]) \in Msg /\ feed'[c] = Tail(feed[c])
              /\ Range(feed[c]) = {Head(feed[c])} \cup Range(Tail(feed[c]))
          BY <3>3, <4>2, RangeHeadTail DEF FeedCached, TypeOK
        <5>2. CASE m # Head(feed[c])
          BY <2>5, <5>1, <5>2 DEF Held
        <5>3. CASE m = Head(feed[c])
          <6>1. \/ arrived(c)' = Append(arrived(c), m)
                \/ recv[c].closed /\ arrived(c)' = arrived(c)
            BY <3>3, <4>2, <5>1, <5>3, ReceiverPutEffect DEF FeedCached
          <6>2. CASE arrived(c)' = Append(arrived(c), m)
            <7>1. arrived(c) \in Seq(Msg)
              BY DEF arrived, TypeOK
            <7>2. m \in Range(arrived(c)')
              BY <5>1, <5>3, <6>2, <7>1, RangeAppend
            <7> QED BY <7>2 DEF Held
          <6>3. CASE recv[c].closed
            BY <2>4, <2>5, <6>3 DEF Feeding
          <6> QED BY <6>1, <6>2, <6>3
        <5> QED BY <5>2, <5>3
      <4> QED BY <4>1, <4>2
    <3>4. UNCHANGED feed \/ \E d \in Receivers : FeedCached(d) \/ Subscribe(d)
      BY DEF Next, vars, PutStep, Publish, PublishFails, PutBegin, PutConsumer, PutDone,
             CacheRead, CacheWrite, Cache, CacheExpires, Receive, CloseReceiver, Delete,
             SubscribeClient, CloseRelay, Flush
    <3> QED BY <3>1, <3>2, <3>3, <3>4
  <2> QED BY <2>1, <2>2, <2>3, <2>4, <2>5 DEF Held
<1>5. CASE m \notin history.accepted
  <2>1. \/ \E w \in Peers : CacheWrite(w)
        \/ history'.accepted = history.accepted
    BY CacheFrame DEF Subscribe, Flush
  <2>2. PICK w \in Peers : CacheWrite(w)
    BY <1>2, <1>5, <2>1
  <2>3. m \in Range(relay'.msgs)
    BY <1>2, <1>5, <2>2, CacheWriteEffect
  <2> QED BY <2>3 DEF Held
<1> QED BY <1>4, <1>5

\* A message that is delivered by its sender comes after all that the sender
\* has sent before; one that comes later than that is from the cache.
LEMMA OrderedInv ==
  ASSUME TypeOK, TypeOK', Feeding, AllSent, OrderedUnlessCached, [Next]_vars
  PROVE  OrderedUnlessCached'
<1>1. history.accepted \subseteq history'.accepted
  BY HistoryGrows
<1> SUFFICES ASSUME NEW c \in Receivers,
                    NEW i \in DOMAIN arrived(c)', NEW j \in DOMAIN arrived(c)', i < j,
                    (arrived(c)')[i].from = (arrived(c)')[j].from,
                    (arrived(c)')[i].n > (arrived(c)')[j].n
             PROVE  (arrived(c)')[j] \in history'.accepted
  BY DEF OrderedUnlessCached
<1>2. CASE arrived(c)' = arrived(c)
  BY <1>1, <1>2 DEF OrderedUnlessCached
<1>3. ASSUME NEW m \in Msg, ArrivalOf(c, m), arrived(c)' = Append(arrived(c), m)
      PROVE  (arrived(c)')[j] \in history'.accepted
  <2> DEFINE s == arrived(c)
  <2>1. s \in Seq(Msg)
    BY DEF arrived, TypeOK
  <2> HIDE DEF s
  <2>2. /\ DOMAIN Append(s, m) = 1..(Len(s) + 1) /\ DOMAIN s = 1..Len(s)
        /\ Append(s, m)[Len(s) + 1] = m /\ \A k \in 1..Len(s) : Append(s, m)[k] = s[k]
    BY <2>1
  <2>3. arrived(c)' = Append(s, m)
    BY <1>3 DEF s
  <2>4. CASE j <= Len(s)
    <3>1. i \in DOMAIN s /\ j \in DOMAIN s /\ Append(s, m)[i] = s[i] /\ Append(s, m)[j] = s[j]
      BY <2>1, <2>2, <2>3, <2>4
    <3>2. s[j] \in history.accepted
      BY <2>3, <3>1 DEF OrderedUnlessCached, s
    <3> QED BY <1>1, <2>3, <3>1, <3>2
  <2>5. CASE j = Len(s) + 1
    <3>1. i \in 1..Len(s) /\ s[i] \in Msg /\ s[i] \in Range(s)
      BY <2>1, <2>2, <2>3, <2>5 DEF Range
    <3>2. s[i].from = m.from /\ s[i].n > m.n
      BY <2>2, <2>3, <2>5, <3>1
    <3>3. s[i].n <= put[s[i].from].n
      BY <3>1 DEF AllSent, Sent, s
    <3>4. s[i].n \in Nat /\ m.n \in Nat /\ m.from \in Peers /\ put[m.from].n \in Nat
      BY <3>1, MsgProperties, SentGrows
    <3>5. m \in history.accepted
      BY <1>3, <3>2, <3>3, <3>4 DEF ArrivalOf
    <3> QED BY <1>1, <2>2, <2>3, <2>5, <3>5
  <2>6. j \in 1..(Len(s) + 1) /\ Len(s) \in Nat
    BY <2>1, <2>2, <2>3
  <2> QED BY <2>4, <2>5, <2>6
<1> QED BY <1>2, <1>3, ArrivedStep

-----------------------------------------------------------------------------
(* Theorems *)

\* The inductive invariant of the relay: what its calls have read, what they
\* owe and what has arrived, between any two steps of Publish, Subscribe, Cache,
\* Close and the receivers.
THEOREM RelayInvariance == Spec => []Inv
<1>1. Init => Inv
  BY InitInv
<1>2. Inv /\ [Next]_vars => Inv'
  <2> SUFFICES ASSUME Inv, [Next]_vars PROVE Inv'
    OBVIOUS
  <2>1. TypeOK'
    BY NextType DEF Inv
  <2>2. Deleting' /\ NeverPanics'
    BY DeletingInv DEF Inv
  <2>3. Feeding' /\ Snapshot' /\ AllSent'
    BY <2>1, FeedingInv, SnapshotInv, AllSentInv DEF Inv
  <2>4. KeptUnlessRaced' /\ OrderedUnlessCached'
    BY <2>1, KeptInv, OrderedInv DEF Inv
  <2> QED BY <2>1, <2>2, <2>3, <2>4 DEF Inv
<1> QED BY <1>1, <1>2, PTL DEF Spec

\* The panic of Relay.delete is unreachable, for any number of receivers that
\* subscribe and are closed, and whenever the relay is closed.
THEOREM NeverPanicsAlways == Spec => []NeverPanics
<1>1. Inv => NeverPanics
  BY DEF Inv
<1> QED BY <1>1, RelayInvariance, PTL

\* The cache loses a message only when two calls of cache.Put overlap under the
\* read lock of Relay.Put.
THEOREM KeptUnlessRacedAlways == Spec => []KeptUnlessRaced
<1>1. Inv => KeptUnlessRaced
  BY DEF Inv
<1> QED BY <1>1, RelayInvariance, PTL

\* Only a message that was cached is overtaken by a later one of its sender.
THEOREM OrderedUnlessCachedAlways == Spec => []OrderedUnlessCached
<1>1. Inv => OrderedUnlessCached
  BY DEF Inv
<1> QED BY <1>1, RelayInvariance, PTL
=============================================================================
