----------------------- MODULE EndpointRegistryProofs -----------------------
(***************************************************************************)
(* Proofs about the endpoint registries of two nodes, for any number of    *)
(* publishers, connections and faults: the nodes agree on the connection   *)
(* to keep, and Get returns a nil endpoint only after a lost tie.          *)
(***************************************************************************)
EXTENDS EndpointRegistry, TLAPS

-----------------------------------------------------------------------------
(* The inductive invariant *)

ConnType == [dialer : Nodes, st : {"new", "dialing", "open", "closed"}, replied : BOOLEAN]
SideType == {"none", "exchange", "add", "tie", "loop", "lost", "ended", "done"}
PubType ==
  [pc : {"get", "wait", "dial", "exchange", "adding", "have", "cooldown", "published",
         "failed", "panicked"},
   attempt : Nat, h : Conns \cup {Nil}]

TypeOK ==
  /\ ep \in [Nodes -> Conns \cup {Nil}] /\ dialing \in [Nodes -> Conns \cup {Nil}]
  /\ dialed \in [Conns -> Conns \cup {Nil, Failure}]
  /\ conn \in [Conns -> ConnType]
  /\ side \in [Nodes -> [Conns -> SideType]]
  /\ pub \in [Publishers -> PubType]
  /\ bus \in [Nodes -> {"open", "closed"}]
  /\ faults \in Nat

\* A call that dials or sets up its connection: it is the one of its node.
Dials(p) == pub[p].pc \in {"dial", "exchange", "adding"}
DialOK(p) ==
  LET n == NodeOf[p]  c == pub[p].h
  IN /\ c \in Conns /\ dialing[n] = c /\ conn[c].dialer = n
     /\ pub[p].pc = "dial" => conn[c].st = "dialing"
     /\ pub[p].pc = "exchange" => conn[c].st \in {"open", "closed"} /\ side[n][c] = "none"
     /\ pub[p].pc = "adding" => side[n][c] \notin {"none", "exchange"}
PubOK ==
  /\ \A p \in Publishers : Dials(p) => DialOK(p)
  /\ \A p, q \in Publishers : Dials(p) /\ Dials(q) /\ NodeOf[p] = NodeOf[q] => p = q
  /\ \A p \in Publishers : pub[p].pc = "wait" => pub[p].h \in Conns

\* A nil endpoint comes from a lost tie.
NilOK ==
  \A p \in Publishers :
    pub[p].pc = "panicked" \/ (pub[p].pc = "have" /\ pub[p].h = Nil) =>
      \E c \in Conns : conn[c].dialer = NodeOf[p] /\ side[NodeOf[p]][c] = "lost"

\* The states of a connection and of the goroutines that set it up.
ConnOK(c) ==
  LET d == conn[c].dialer
  IN /\ conn[c].st \in {"new", "dialing"} => \A n \in Nodes : side[n][c] = "none"
     /\ conn[c].st = "dialing" => \E p \in Publishers : pub[p].pc = "dial" /\ pub[p].h = c
     /\ conn[c].st = "open" => side[Peer(d)][c] # "none"
     /\ conn[c].st = "open" /\ side[d][c] = "none" =>
          \E p \in Publishers : pub[p].pc = "exchange" /\ pub[p].h = c
     /\ \A n \in Nodes : side[n][c] \in {"lost", "ended", "done"} => conn[c].st = "closed"

\* The endpoint that is installed is received on; what is received on and open is
\* installed.
EpOK(n) ==
  /\ ep[n] # Nil => side[n][ep[n]] \in {"loop", "ended"}
  /\ \A c \in Conns : side[n][c] = "loop" /\ IsOpen(c) => ep[n] = c

\* Without a fault, of the connections dialed by n there is one, it is kept by both,
\* and n has installed it once its dial is over.
DialedBy(n, c) == conn[c].dialer = n /\ conn[c].st # "new"
Lasts(n) ==
  /\ \A c, d \in Conns : DialedBy(n, c) /\ DialedBy(n, d) => c = d
  /\ \A c \in Conns : DialedBy(n, c) =>
       conn[c].st # "closed" /\ (dialing[n] # c => ep[n] = c)

\* Connections dialed by node 1 always last; those of node 0 as long as 1 has not dialed,
\* and until then there is no tie.
NoTie == \A n \in Nodes, c \in Conns : side[n][c] # "tie"
NoFaultOK ==
  faults = 0 =>
    /\ \A n \in Nodes : bus[n] = "open"
    /\ Lasts(1)
    /\ (\A c \in Conns : ~DialedBy(1, c)) => Lasts(0) /\ NoTie

Inv ==
  /\ TypeOK /\ PubOK /\ NilOK /\ NoFaultOK
  /\ \A c \in Conns : ConnOK(c)
  /\ \A n \in Nodes : EpOK(n)

LEMMA Facts ==
  /\ Nodes = {0, 1} /\ Peer(0) = 1 /\ Peer(1) = 0
  /\ 1 \in Conns /\ 0 \notin Conns /\ Conns \subseteq Nat
  /\ \A p \in Publishers : NodeOf[p] \in Nodes
  BY NodeAssumption DEF Nodes, Peer, Conns

LEMMA InitInv == Init => Inv
<1> SUFFICES ASSUME Init PROVE Inv
  OBVIOUS
<1>1. TypeOK
  BY NodeAssumption, Facts
  DEF Init, TypeOK, ConnType, SideType, PubType, Nil, Failure, NewBus
<1>2. PubOK /\ NilOK
  BY Facts DEF Init, PubOK, NilOK, Dials, Nil
<1>3. NoFaultOK
  BY Facts DEF Init, NoFaultOK, Lasts, DialedBy, NoTie, NewBus
<1>4. \A c \in Conns : ConnOK(c)
  BY Facts DEF Init, ConnOK
<1>5. \A n \in Nodes : EpOK(n)
  BY Facts DEF Init, EpOK, Nil
<1> QED BY <1>1, <1>2, <1>3, <1>4, <1>5 DEF Inv

-----------------------------------------------------------------------------
(* Closing a connection *)

LEMMA ClosedConn ==
  ASSUME TypeOK, NEW c \in Conns, conn' = Closed(c)
  PROVE  /\ conn' \in [Conns -> ConnType]
         /\ conn'[c].st = "closed" /\ conn'[c].dialer = conn[c].dialer
         /\ \A d \in Conns \ {c} : conn'[d] = conn[d]
         /\ \A d \in Conns : conn'[d].dialer = conn[d].dialer
<1>1. conn \in [Conns -> ConnType] /\ conn[c] \in ConnType
  BY DEF TypeOK
<1>2. conn' = [conn EXCEPT ![c] = [conn[c] EXCEPT !.st = "closed"]]
  BY DEF Closed
<1>3. [conn[c] EXCEPT !.st = "closed"] \in ConnType
  BY <1>1 DEF ConnType
<1>4. [conn[c] EXCEPT !.st = "closed"].st = "closed"
      /\ [conn[c] EXCEPT !.st = "closed"].dialer = conn[c].dialer
  BY <1>1 DEF ConnType
<1> QED BY <1>1, <1>2, <1>3, <1>4

\* A connection that is set up ends and nobody has noticed yet.
LEMMA CloseInv ==
  ASSUME Inv, NEW c \in Conns, conn[c].st \in {"open", "closed"}, conn' = Closed(c),
         ep' = ep, dialing' = dialing, dialed' = dialed, side' = side, pub' = pub
  PROVE  /\ PubOK' /\ NilOK'
         /\ \A d \in Conns : ConnOK(d)'
         /\ \A n \in Nodes : EpOK(n)'
<1>1. /\ conn' \in [Conns -> ConnType]
      /\ conn'[c].st = "closed" /\ conn'[c].dialer = conn[c].dialer
      /\ \A d \in Conns \ {c} : conn'[d] = conn[d]
      /\ \A d \in Conns : conn'[d].dialer = conn[d].dialer
  BY ClosedConn DEF Inv
<1>2. PubOK'
  BY <1>1 DEF Inv, PubOK, Dials, DialOK
<1>3. NilOK'
  BY <1>1 DEF Inv, NilOK
<1>4. ASSUME NEW d \in Conns PROVE ConnOK(d)'
  <2>1. ConnOK(d)
    BY DEF Inv
  <2> QED BY <1>1, <2>1 DEF ConnOK
<1>5. ASSUME NEW n \in Nodes PROVE EpOK(n)'
  BY <1>1 DEF Inv, EpOK, IsOpen
<1> QED BY <1>2, <1>3, <1>4, <1>5

LEMMA BreakInv ==
  ASSUME Inv, NEW c \in Conns, Break(c)
  PROVE  Inv'
<1>1. /\ conn' = Closed(c) /\ ep' = ep /\ dialing' = dialing /\ dialed' = dialed /\ side' = side
      /\ pub' = pub /\ bus' = bus /\ faults' = faults + 1 /\ conn[c].st = "open"
  BY DEF Break, IsOpen
<1>2. TypeOK' /\ faults' # 0
  BY <1>1, ClosedConn DEF Inv, TypeOK
<1> QED BY <1>1, <1>2, CloseInv DEF Inv, NoFaultOK

LEMMA BusCloseInv ==
  ASSUME Inv, NEW n \in Nodes, BusClose(n)
  PROVE  Inv'
<1>1. /\ bus' = [bus EXCEPT ![n] = "closed"] /\ ep' = ep /\ dialing' = dialing
      /\ dialed' = dialed /\ side' = side /\ pub' = pub /\ faults' = faults + 1
  BY DEF BusClose
<1>2. faults' # 0 /\ faults' \in Nat /\ bus' \in [Nodes -> {"open", "closed"}]
  BY <1>1 DEF Inv, TypeOK
<1>3. CASE ep[n] = Nil
  <2>1. conn' = conn
    BY <1>3 DEF BusClose
  <2>2. TypeOK'
    BY <1>1, <1>2, <2>1 DEF Inv, TypeOK
  <2>3. PubOK' /\ NilOK'
    BY <1>1, <2>1 DEF Inv, PubOK, NilOK, Dials, DialOK
  <2>4. \A c \in Conns : ConnOK(c)'
    BY <1>1, <2>1 DEF Inv, ConnOK
  <2>5. \A m \in Nodes : EpOK(m)'
    BY <1>1, <2>1 DEF Inv, EpOK, IsOpen
  <2> QED BY <1>2, <2>2, <2>3, <2>4, <2>5 DEF Inv, NoFaultOK
<1>4. CASE ep[n] # Nil
  <2> DEFINE c == ep[n]
  <2>1. c \in Conns /\ conn' = Closed(c)
    BY <1>4 DEF BusClose, Inv, TypeOK
  <2>2. side[n][c] \in {"loop", "ended"} /\ ConnOK(c)
    BY <1>4, <2>1 DEF Inv, EpOK
  <2>3. conn[c].st \in {"open", "closed"}
    BY <2>1, <2>2 DEF ConnOK, Inv, TypeOK, ConnType
  <2> HIDE DEF c
  <2>4. TypeOK'
    BY <1>1, <1>2, <2>1, ClosedConn DEF Inv, TypeOK
  <2> QED BY <1>1, <1>2, <2>1, <2>3, <2>4, CloseInv DEF Inv, NoFaultOK
<1> QED BY <1>3, <1>4

-----------------------------------------------------------------------------
(* Publish calls that do not dial *)

\* The tie that was lost and made p's endpoint nil.
LostTie(p) ==
  \E c \in Conns : conn[c].dialer = NodeOf[p] /\ side[NodeOf[p]][c] = "lost"

LEMMA PubOnly ==
  ASSUME Inv, NEW p \in Publishers, ~Dials(p),
         NEW x \in PubType, x.pc \notin {"dial", "exchange", "adding"},
         x.pc = "wait" => x.h \in Conns,
         x.pc = "panicked" \/ (x.pc = "have" /\ x.h = Nil) => LostTie(p),
         pub' = [pub EXCEPT ![p] = x],
         UNCHANGED <<ep, dialing, dialed, conn, side, bus, faults>>
  PROVE  Inv'
<1>1. pub' \in [Publishers -> PubType] /\ pub'[p] = x /\ \A q \in Publishers \ {p} : pub'[q] = pub[q]
  BY DEF Inv, TypeOK
<1>2. TypeOK'
  BY <1>1 DEF Inv, TypeOK
<1>3. PubOK'
  BY <1>1 DEF Inv, PubOK, Dials, DialOK
<1>4. NilOK'
  BY <1>1 DEF Inv, NilOK, LostTie
<1>5. NoFaultOK'
  BY DEF Inv, NoFaultOK, Lasts, DialedBy, NoTie
<1>6. ASSUME NEW c \in Conns PROVE ConnOK(c)'
  <2>1. ConnOK(c)
    BY DEF Inv
  <2>2. \A q \in Publishers : pub[q].pc \in {"dial", "exchange"} => pub'[q] = pub[q]
    BY <1>1 DEF Dials
  <2> QED BY <2>1, <2>2 DEF ConnOK
<1>7. \A n \in Nodes : EpOK(n)'
  BY DEF Inv, EpOK, IsOpen
<1> QED BY <1>2, <1>3, <1>4, <1>5, <1>6, <1>7 DEF Inv

LEMMA SendOnInv ==
  ASSUME Inv, NEW p \in Publishers, SendOn(p)
  PROVE  Inv'
<1>1. PICK pc \in {"panicked", "published", "cooldown"} :
        /\ pub' = [pub EXCEPT ![p].pc = pc]
        /\ pc = "panicked" => pub[p].h = Nil
  BY DEF SendOn
<1>2. pub[p].pc = "have" /\ UNCHANGED <<ep, dialing, dialed, conn, side, bus, faults>>
  BY DEF SendOn
<1> DEFINE x == [pub[p] EXCEPT !.pc = pc]
<1>3. x \in PubType /\ x.pc = pc /\ x.h = pub[p].h
  <2>1. pub[p] \in PubType
    BY DEF Inv, TypeOK
  <2> QED BY <2>1 DEF PubType
<1>4. pub' = [pub EXCEPT ![p] = x]
  BY <1>1 DEF Inv, TypeOK
<1>5. pc = "panicked" => LostTie(p)
  BY <1>1, <1>2 DEF Inv, NilOK, LostTie
<1> HIDE DEF x
<1> QED BY <1>2, <1>3, <1>4, <1>5, PubOnly DEF Dials

LEMMA RetryInv ==
  ASSUME Inv, NEW p \in Publishers, Retry(p)
  PROVE  Inv'
<1> DEFINE x == IF pub[p].attempt < PublishAttempts /\ bus[NodeOf[p]] = "open"
                THEN [pc |-> "get", attempt |-> pub[p].attempt + 1, h |-> Nil]
                ELSE [pc |-> "failed", attempt |-> pub[p].attempt, h |-> Nil]
<1>1. /\ pub' = [pub EXCEPT ![p] = x] /\ pub[p].pc = "cooldown"
      /\ UNCHANGED <<ep, dialing, dialed, conn, side, bus, faults>>
  BY DEF Retry
<1>2. pub[p] \in PubType /\ pub[p].attempt \in Nat
  BY DEF Inv, TypeOK, PubType
<1>3. x \in PubType /\ x.pc \in {"get", "failed"}
  BY <1>2 DEF PubType
<1> HIDE DEF x
<1> QED BY <1>1, <1>3, PubOnly DEF Dials

LEMMA WaitDialInv ==
  ASSUME Inv, NEW p \in Publishers, WaitDial(p)
  PROVE  Inv'
<1> DEFINE d == dialed[pub[p].h]
<1>1. pub[p].pc = "wait" /\ UNCHANGED <<ep, dialing, dialed, conn, side, bus, faults>>
  BY DEF WaitDial
<1>2. pub[p].h \in Conns /\ d \in Conns \cup {Nil, Failure}
  BY <1>1 DEF Inv, PubOK, TypeOK
<1>3. CASE d > 0 /\ pub' = [pub EXCEPT ![p].pc = "have", ![p].h = d]
  <2> DEFINE x == [pub[p] EXCEPT !.pc = "have", !.h = d]
  <2>1. d \in Conns \cup {Nil} /\ d # Nil
    BY <1>2, <1>3 DEF Nil, Failure
  <2>2. x \in PubType /\ x.pc = "have" /\ x.h = d
    <3>1. pub[p] \in PubType
      BY DEF Inv, TypeOK
    <3> HIDE DEF d
    <3> QED BY <2>1, <3>1 DEF PubType
  <2>3. pub' = [pub EXCEPT ![p] = x]
    BY <1>3 DEF Inv, TypeOK
  <2> HIDE DEF x
  <2> QED BY <1>1, <2>1, <2>2, <2>3, PubOnly DEF Dials
<1>4. CASE pub' = [pub EXCEPT ![p].pc = "cooldown"]
  <2> DEFINE x == [pub[p] EXCEPT !.pc = "cooldown"]
  <2>1. x \in PubType /\ x.pc = "cooldown"
    <3>1. pub[p] \in PubType
      BY DEF Inv, TypeOK
    <3> QED BY <3>1 DEF PubType
  <2>2. pub' = [pub EXCEPT ![p] = x]
    BY <1>4 DEF Inv, TypeOK
  <2> HIDE DEF x
  <2> QED BY <1>1, <2>1, <2>2, PubOnly DEF Dials
<1> QED BY <1>3, <1>4 DEF WaitDial

\* Get dials: nobody else of its node does, and without a fault nothing dialed by
\* it before is left.
LEMMA GetDialInv ==
  ASSUME Inv, NEW p \in Publishers, NEW c \in Conns, conn[c].st = "new",
         ep[NodeOf[p]] = Nil, dialing[NodeOf[p]] = Nil, pub[p].pc = "get",
         dialing' = [dialing EXCEPT ![NodeOf[p]] = c],
         conn' = [conn EXCEPT ![c] = [dialer |-> NodeOf[p], st |-> "dialing", replied |-> FALSE]],
         pub' = [pub EXCEPT ![p].pc = "dial", ![p].h = c],
         UNCHANGED <<ep, dialed, side, bus, faults>>
  PROVE  Inv'
<1> DEFINE n == NodeOf[p]
           x == [pub[p] EXCEPT !.pc = "dial", !.h = c]
           y == [dialer |-> n, st |-> "dialing", replied |-> FALSE]
<1>1. n \in Nodes /\ n \in {0, 1}
  BY Facts
<1>2. x \in PubType /\ x.pc = "dial" /\ x.h = c
  <2>1. pub[p] \in PubType
    BY DEF Inv, TypeOK
  <2> QED BY <2>1 DEF PubType
<1>3. y \in ConnType /\ y.dialer = n /\ y.st = "dialing"
  BY <1>1 DEF ConnType
<1>4. /\ conn' \in [Conns -> ConnType] /\ conn'[c] = y /\ \A d \in Conns \ {c} : conn'[d] = conn[d]
      /\ pub' \in [Publishers -> PubType] /\ pub'[p] = x
      /\ \A q \in Publishers \ {p} : pub'[q] = pub[q]
      /\ dialing' \in [Nodes -> Conns \cup {Nil}] /\ dialing'[n] = c
      /\ \A m \in Nodes \ {n} : dialing'[m] = dialing[m]
  <2>1. conn' \in [Conns -> ConnType] /\ conn'[c] = y /\ \A d \in Conns \ {c} : conn'[d] = conn[d]
    BY <1>3 DEF Inv, TypeOK
  <2>2. pub' = [pub EXCEPT ![p] = x]
    BY DEF Inv, TypeOK
  <2>3. pub' \in [Publishers -> PubType] /\ pub'[p] = x /\ \A q \in Publishers \ {p} : pub'[q] = pub[q]
    BY <1>2, <2>2 DEF Inv, TypeOK
  <2> QED BY <1>1, <2>1, <2>3 DEF Inv, TypeOK
<1> HIDE DEF n, x, y
<1>5. TypeOK'
  BY <1>4 DEF Inv, TypeOK
<1>6. \A m \in Nodes : side[m][c] = "none" /\ ep[m] # c
  <2>1. ConnOK(c)
    BY DEF Inv
  <2>2. \A m \in Nodes : side[m][c] = "none"
    BY <2>1 DEF ConnOK
  <2> QED BY <2>2, Facts DEF Inv, EpOK, Nil
<1>7. ASSUME NEW q \in Publishers, Dials(q) PROVE pub[q].h # c /\ NodeOf[q] # n
  <2>1. DialOK(q) /\ NodeOf[q] \in Nodes
    BY <1>7, Facts DEF Inv, PubOK
  <2>2. pub[q].h # c
    BY <1>6, <1>7, <2>1 DEF DialOK, Dials
  <2>3. NodeOf[q] # n
    BY <2>1, Facts DEF DialOK, Nil, n
  <2> QED BY <2>2, <2>3
<1>8. PubOK'
  <2>1. \A q \in Publishers \ {p} : Dials(q)' <=> Dials(q)
    BY <1>4 DEF Dials
  <2>2. ASSUME NEW q \in Publishers, Dials(q)' PROVE DialOK(q)'
    <3>1. CASE q = p
      BY <1>2, <1>3, <1>4, <3>1 DEF DialOK, n
    <3>2. CASE q # p
      <4>1. Dials(q) /\ DialOK(q) /\ pub'[q] = pub[q]
        BY <1>4, <2>1, <2>2, <3>2 DEF Inv, PubOK
      <4>2. pub[q].h # c /\ NodeOf[q] # n /\ NodeOf[q] \in Nodes
        BY <1>7, <4>1, Facts
      <4>3. dialing'[NodeOf[q]] = dialing[NodeOf[q]] /\ (pub[q].h \in Conns => conn'[pub[q].h] = conn[pub[q].h])
        BY <1>4, <4>2
      <4> QED BY <4>1, <4>3 DEF DialOK
    <3> QED BY <3>1, <3>2
  <2>3. \A q, r \in Publishers : Dials(q)' /\ Dials(r)' /\ NodeOf[q] = NodeOf[r] => q = r
    BY <1>7, <2>1 DEF Inv, PubOK, n
  <2>4. \A q \in Publishers : pub'[q].pc = "wait" => pub'[q].h \in Conns
    BY <1>2, <1>4 DEF Inv, PubOK
  <2> QED BY <2>2, <2>3, <2>4 DEF PubOK
<1>9. NilOK'
  <2>1. \A q \in Publishers, d \in Conns :
          conn[d].dialer = NodeOf[q] /\ side[NodeOf[q]][d] = "lost" => conn'[d] = conn[d]
    BY <1>4, <1>6, Facts
  <2> QED BY <1>2, <1>4, <2>1 DEF Inv, NilOK
<1>10. ASSUME NEW d \in Conns PROVE ConnOK(d)'
  <2>1. CASE d = c
    BY <1>2, <1>3, <1>4, <1>6, <2>1 DEF ConnOK
  <2>2. CASE d # c
    <3>1. ConnOK(d) /\ conn'[d] = conn[d]
      BY <1>4, <2>2 DEF Inv
    <3>2. \A q \in Publishers : pub[q].pc \in {"dial", "exchange"} => pub'[q] = pub[q]
      BY <1>4
    <3> QED BY <3>1, <3>2 DEF ConnOK
  <2> QED BY <2>1, <2>2
<1>11. \A m \in Nodes : EpOK(m)'
  BY <1>3, <1>4, <1>6 DEF Inv, EpOK, IsOpen
<1>12. NoFaultOK'
  <2> SUFFICES ASSUME faults = 0
               PROVE  /\ Lasts(1)'
                      /\ (\A d \in Conns : ~DialedBy(1, d)') => Lasts(0)' /\ NoTie'
    BY DEF Inv, NoFaultOK
  <2>1. \A d \in Conns, m \in Nodes :
          DialedBy(m, d)' <=> (DialedBy(m, d) \/ (m = n /\ d = c))
    BY <1>3, <1>4 DEF DialedBy
  <2>2. Lasts(1) /\ ((\A d \in Conns : ~DialedBy(1, d)) => Lasts(0) /\ NoTie)
    BY DEF Inv, NoFaultOK
  <2>3. Lasts(n) => \A d \in Conns : ~DialedBy(n, d)
    BY Facts DEF Lasts, Nil, n
  <2>4. ASSUME NEW m \in Nodes, Lasts(m) PROVE Lasts(m)'
    <3>1. CASE m = n
      <4>1. \A d \in Conns : DialedBy(m, d)' <=> d = c
        BY <2>1, <2>3, <2>4, <3>1
      <4> QED BY <1>3, <1>4, <3>1, <4>1 DEF Lasts
    <3>2. CASE m # n
      <4>1. \A d \in Conns : DialedBy(m, d)' <=> DialedBy(m, d)
        BY <2>1, <3>2
      <4>2. dialing'[m] = dialing[m] /\ ep'[m] = ep[m]
        BY <1>4, <3>2
      <4>3. \A d \in Conns : DialedBy(m, d) => conn'[d] = conn[d]
        BY <1>4 DEF DialedBy
      <4> QED BY <2>4, <4>1, <4>2, <4>3 DEF Lasts
    <3> QED BY <3>1, <3>2
  <2>5. (\A d \in Conns : ~DialedBy(1, d)') => Lasts(0)' /\ NoTie'
    BY <2>1, <2>2, <2>4, Facts DEF NoTie
  <2> QED BY <2>2, <2>4, <2>5, Facts
<1> QED BY <1>5, <1>8, <1>9, <1>10, <1>11, <1>12 DEF Inv

LEMMA GetInv ==
  ASSUME Inv, NEW p \in Publishers, Get(p)
  PROVE  Inv'
<1> DEFINE n == NodeOf[p]
<1>1. pub[p].pc = "get" /\ UNCHANGED <<ep, side, bus, faults>> /\ n \in Nodes
  BY Facts DEF Get
<1>2. ASSUME NEW pc \in {"have", "wait"}, NEW h \in Conns, pub' = [pub EXCEPT ![p].pc = pc, ![p].h = h],
             UNCHANGED <<dialing, conn, dialed>>
      PROVE  Inv'
  <2> DEFINE x == [pub[p] EXCEPT !.pc = pc, !.h = h]
  <2>1. x \in PubType /\ x.pc = pc /\ x.h = h
    <3>1. pub[p] \in PubType
      BY DEF Inv, TypeOK
    <3> QED BY <3>1 DEF PubType
  <2>2. pub' = [pub EXCEPT ![p] = x]
    BY <1>2 DEF Inv, TypeOK
  <2> HIDE DEF x
  <2> QED BY <1>1, <1>2, <2>1, <2>2, PubOnly, Facts DEF Dials, Nil
<1>3. CASE pub' = [pub EXCEPT ![p].pc = "cooldown"] /\ UNCHANGED <<dialing, conn, dialed>>
  <2> DEFINE x == [pub[p] EXCEPT !.pc = "cooldown"]
  <2>1. x \in PubType /\ x.pc = "cooldown"
    <3>1. pub[p] \in PubType
      BY DEF Inv, TypeOK
    <3> QED BY <3>1 DEF PubType
  <2>2. pub' = [pub EXCEPT ![p] = x]
    BY <1>3 DEF Inv, TypeOK
  <2> HIDE DEF x
  <2> QED BY <1>1, <1>3, <2>1, <2>2, PubOnly DEF Dials
<1>4. ASSUME NEW c \in Fresh, ep[n] = Nil, dialing[n] = Nil,
             dialing' = [dialing EXCEPT ![n] = c],
             conn' = [conn EXCEPT ![c] = [dialer |-> n, st |-> "dialing", replied |-> FALSE]],
             pub' = [pub EXCEPT ![p].pc = "dial", ![p].h = c], UNCHANGED dialed
      PROVE  Inv'
  <2>1. c \in Conns /\ conn[c].st = "new"
    BY DEF Fresh
  <2> QED BY <1>1, <1>4, <2>1, GetDialInv
<1>5. ep[n] \in Conns \cup {Nil} /\ dialing[n] \in Conns \cup {Nil}
  BY <1>1 DEF Inv, TypeOK
<1>6. CASE ep[n] # Nil
  BY <1>2, <1>5, <1>6 DEF Get
<1>7. CASE ep[n] = Nil /\ dialing[n] # Nil
  BY <1>2, <1>5, <1>7 DEF Get
<1>8. CASE ep[n] = Nil /\ dialing[n] = Nil
  BY <1>3, <1>4, <1>8 DEF Get
<1> QED BY <1>6, <1>7, <1>8

-----------------------------------------------------------------------------
(* The call that dials *)

\* No other call uses its node's dial or its connection.
LEMMA OtherDials ==
  ASSUME Inv, NEW p \in Publishers, Dials(p), NEW q \in Publishers, Dials(q), q # p
  PROVE  NodeOf[q] # NodeOf[p] /\ pub[q].h # pub[p].h
  BY DEF Inv, PubOK, DialOK

\* The dial of p ends, with its connection closed or set up.
LEMMA EndDial ==
  ASSUME Inv, NEW p \in Publishers, Dials(p), NEW x \in PubType, x.pc \in {"cooldown", "have"},
         x.pc = "have" /\ x.h = Nil => LostTie(p),
         pub' = [pub EXCEPT ![p] = x],
         dialing' = [dialing EXCEPT ![NodeOf[p]] = Nil],
         dialed' \in [Conns -> Conns \cup {Nil, Failure}],
         conn' = Closed(pub[p].h) \/ (conn' = conn /\ pub[p].pc = "adding"),
         UNCHANGED <<ep, side, bus, faults>>
  PROVE  /\ TypeOK' /\ PubOK' /\ NilOK'
         /\ \A c \in Conns : ConnOK(c)'
         /\ \A n \in Nodes : EpOK(n)'
         /\ \A d \in Conns : conn'[d].dialer = conn[d].dialer /\ (d # pub[p].h => conn'[d] = conn[d])
<1> DEFINE n == NodeOf[p]
           c == pub[p].h
<1>1. n \in Nodes /\ c \in Conns /\ conn[c].dialer = n
  BY Facts DEF Inv, PubOK, DialOK
<1>2. /\ conn' \in [Conns -> ConnType]
      /\ \A d \in Conns : conn'[d].dialer = conn[d].dialer /\ (d # c => conn'[d] = conn[d])
      /\ conn'[c].st = "closed" \/ (conn'[c] = conn[c] /\ pub[p].pc = "adding")
  <2>1. CASE conn' = conn /\ pub[p].pc = "adding"
    BY <2>1 DEF Inv, TypeOK
  <2>2. CASE conn' = Closed(c)
    BY <1>1, <2>2, ClosedConn DEF Inv
  <2> QED BY <2>1, <2>2
<1>3. /\ pub' \in [Publishers -> PubType] /\ pub'[p] = x
      /\ \A q \in Publishers \ {p} : pub'[q] = pub[q]
      /\ dialing' \in [Nodes -> Conns \cup {Nil}]
      /\ \A m \in Nodes \ {n} : dialing'[m] = dialing[m]
  BY <1>1 DEF Inv, TypeOK
<1>4. TypeOK'
  BY <1>2, <1>3 DEF Inv, TypeOK
<1>5. PubOK'
  <2>1. \A q \in Publishers : Dials(q)' => Dials(q) /\ q # p /\ pub'[q] = pub[q]
    BY <1>3 DEF Dials
  <2>2. ASSUME NEW q \in Publishers, Dials(q)' PROVE DialOK(q)'
    <3>1. Dials(q) /\ q # p /\ pub'[q] = pub[q] /\ DialOK(q)
      BY <2>1, <2>2 DEF Inv, PubOK
    <3>2. NodeOf[q] # n /\ pub[q].h # c /\ NodeOf[q] \in Nodes /\ pub[q].h \in Conns
      BY <3>1, OtherDials, Facts DEF DialOK
    <3>3. dialing'[NodeOf[q]] = dialing[NodeOf[q]] /\ conn'[pub[q].h] = conn[pub[q].h]
      BY <1>2, <1>3, <3>2
    <3> QED BY <3>1, <3>3 DEF DialOK
  <2>3. \A q, r \in Publishers : Dials(q)' /\ Dials(r)' /\ NodeOf[q] = NodeOf[r] => q = r
    BY <2>1 DEF Inv, PubOK
  <2>4. \A q \in Publishers : pub'[q].pc = "wait" => pub'[q].h \in Conns
    BY <1>3 DEF Inv, PubOK
  <2> QED BY <2>2, <2>3, <2>4 DEF PubOK
<1>6. NilOK'
  BY <1>2, <1>3 DEF Inv, NilOK, LostTie
<1>7. ASSUME NEW d \in Conns PROVE ConnOK(d)'
  <2>1. ConnOK(d)
    BY DEF Inv
  <2>2. CASE conn'[d].st = "closed" /\ d = c
    BY <2>2 DEF ConnOK
  <2>3. CASE conn'[d] = conn[d] /\ (d # c \/ pub[p].pc = "adding")
    <3>1. \A q \in Publishers : pub[q].pc \in {"dial", "exchange"} /\ pub[q].h = d => pub'[q] = pub[q]
      BY <1>3, <2>3
    <3> QED BY <2>1, <2>3, <3>1 DEF ConnOK
  <2> QED BY <1>2, <2>2, <2>3
<1>8. ASSUME NEW m \in Nodes PROVE EpOK(m)'
  <2>1. \A d \in Conns : IsOpen(d)' => IsOpen(d)
    BY <1>2 DEF IsOpen
  <2> QED BY <2>1 DEF Inv, EpOK
<1> QED BY <1>2, <1>4, <1>5, <1>6, <1>7, <1>8

\* FinishDial as a step of EndDial.
LEMMA Finished ==
  ASSUME Inv, NEW p \in Publishers, Dials(p),
         NEW ret \in Conns \cup {Nil, Failure}, NEW pc \in {"cooldown", "have"},
         FinishDial(p, pub[p].h, ret, pc)
  PROVE  \E x \in PubType :
           /\ x.pc = pc /\ x.h = (IF ret = Failure THEN Nil ELSE ret)
           /\ pub' = [pub EXCEPT ![p] = x]
           /\ dialing' = [dialing EXCEPT ![NodeOf[p]] = Nil]
           /\ dialed' \in [Conns -> Conns \cup {Nil, Failure}]
<1> DEFINE h == IF ret = Failure THEN Nil ELSE ret
           x == [pub[p] EXCEPT !.pc = pc, !.h = h]
<1>1. pub[p] \in PubType /\ pub \in [Publishers -> PubType] /\ pub[p].h \in Conns
  BY DEF Inv, TypeOK, PubOK, DialOK
<1>2. h \in Conns \cup {Nil}
  OBVIOUS
<1>3. x \in PubType /\ x.pc = pc /\ x.h = h
  <2> HIDE DEF h
  <2> QED BY <1>1, <1>2 DEF PubType
<1>4. pub' = [pub EXCEPT ![p] = x]
  BY <1>1 DEF FinishDial
<1>5. /\ dialing' = [dialing EXCEPT ![NodeOf[p]] = Nil]
      /\ dialed' \in [Conns -> Conns \cup {Nil, Failure}]
  BY <1>1 DEF FinishDial, Inv, TypeOK
<1> HIDE DEF x
<1> QED BY <1>3, <1>4, <1>5

\* What was dialed and is still there lasts, if only connections dialed by node 0 end
\* while node 1 has one.
LEMMA LastsKept ==
  ASSUME Inv, NEW m \in Nodes, Lasts(m),
         \A d \in Conns : /\ conn'[d].dialer = conn[d].dialer
                          /\ conn'[d].st = "new" <=> conn[d].st = "new"
                          /\ DialedBy(m, d) /\ conn'[d].st = "closed" => conn[d].st = "closed"
                          /\ DialedBy(m, d) /\ dialing'[m] # d => dialing[m] # d \/ ep[m] = d
                          /\ DialedBy(m, d) /\ ep[m] = d => ep'[m] = d
  PROVE  Lasts(m)'
<1>1. \A d \in Conns : DialedBy(m, d)' <=> DialedBy(m, d)
  BY DEF DialedBy
<1> QED BY <1>1 DEF Lasts

LEMMA DialInv ==
  ASSUME Inv, NEW p \in Publishers, Dial(p)
  PROVE  Inv'
<1> DEFINE n == NodeOf[p]
           c == pub[p].h
<1>1. /\ pub[p].pc = "dial" /\ Dials(p) /\ n \in Nodes /\ Peer(n) \in Nodes /\ Peer(n) # n /\ c \in Conns
      /\ dialing[n] = c /\ conn[c].dialer = n /\ conn[c].st = "dialing"
      /\ UNCHANGED <<ep, bus, faults>>
  BY Facts DEF Dial, Dials, Inv, PubOK, DialOK
<1>2. CASE /\ bus[Peer(n)] = "closed" \/ bus[n] = "closed"
           /\ conn' = Closed(c) /\ FinishDial(p, c, Failure, "cooldown") /\ UNCHANGED side
  <2>1. faults # 0
    BY <1>1, <1>2 DEF Inv, NoFaultOK
  <2>2. PICK x \in PubType :
           /\ x.pc = "cooldown" /\ pub' = [pub EXCEPT ![p] = x]
           /\ dialing' = [dialing EXCEPT ![NodeOf[p]] = Nil]
           /\ dialed' \in [Conns -> Conns \cup {Nil, Failure}]
    BY <1>1, <1>2, Finished
  <2>3. /\ TypeOK' /\ PubOK' /\ NilOK'
        /\ \A d \in Conns : ConnOK(d)'
        /\ \A m \in Nodes : EpOK(m)'
    BY <1>1, <1>2, <2>2, EndDial
  <2> QED BY <1>1, <2>1, <2>3 DEF Inv, NoFaultOK
<1>3. CASE /\ conn' = [conn EXCEPT ![c].st = "open"] /\ Accept(Peer(n), c)
           /\ pub' = [pub EXCEPT ![p].pc = "exchange"] /\ UNCHANGED <<dialing, dialed>>
  <2> DEFINE x == [pub[p] EXCEPT !.pc = "exchange"]
             y == [conn[c] EXCEPT !.st = "open"]
  <2>1. /\ pub[p] \in PubType /\ pub \in [Publishers -> PubType]
        /\ conn[c] \in ConnType /\ conn \in [Conns -> ConnType]
        /\ side \in [Nodes -> [Conns -> SideType]]
    BY <1>1 DEF Inv, TypeOK
  <2>2. x \in PubType /\ x.pc = "exchange" /\ x.h = c /\ y \in ConnType /\ y.st = "open" /\ y.dialer = n
    BY <1>1, <2>1 DEF PubType, ConnType
  <2>3. pub' = [pub EXCEPT ![p] = x] /\ conn' = [conn EXCEPT ![c] = y]
    BY <1>3, <2>1
  <2> HIDE DEF x, y
  <2>4. /\ pub' \in [Publishers -> PubType] /\ pub'[p] = x /\ \A q \in Publishers \ {p} : pub'[q] = pub[q]
        /\ conn' \in [Conns -> ConnType] /\ conn'[c] = y /\ \A d \in Conns \ {c} : conn'[d] = conn[d]
    BY <1>1, <2>1, <2>2, <2>3
  <2>5. /\ side' \in [Nodes -> [Conns -> SideType]] /\ side'[Peer(n)][c] = "exchange"
        /\ \A m \in Nodes, d \in Conns : m # Peer(n) \/ d # c => side'[m][d] = side[m][d]
    BY <1>1, <1>3, <2>1 DEF Accept, SideType
  <2>6. \A m \in Nodes : side[m][c] = "none"
    BY <1>1 DEF Inv, ConnOK
  <2>7. TypeOK'
    BY <1>1, <1>3, <2>4, <2>5 DEF Inv, TypeOK
  <2>8. PubOK'
    <3>1. \A q \in Publishers : Dials(q)' <=> Dials(q)
      BY <1>1, <2>2, <2>4 DEF Dials
    <3>2. ASSUME NEW q \in Publishers, Dials(q) PROVE DialOK(q)'
      <4>1. CASE q = p
        BY <1>1, <1>3, <2>2, <2>4, <2>5, <2>6, <4>1 DEF DialOK
      <4>2. CASE q # p
        <5>1. DialOK(q) /\ pub'[q] = pub[q] /\ pub[q].h # c /\ pub[q].h \in Conns /\ NodeOf[q] \in Nodes
          BY <1>1, <2>4, <3>2, <4>2, OtherDials, Facts DEF Inv, PubOK, DialOK
        <5>2. conn'[pub[q].h] = conn[pub[q].h] /\ side'[NodeOf[q]][pub[q].h] = side[NodeOf[q]][pub[q].h]
          BY <2>4, <2>5, <5>1
        <5> QED BY <1>3, <5>1, <5>2 DEF DialOK
      <4> QED BY <4>1, <4>2
    <3>3. \A q, r \in Publishers : Dials(q)' /\ Dials(r)' /\ NodeOf[q] = NodeOf[r] => q = r
      BY <3>1 DEF Inv, PubOK
    <3>4. \A q \in Publishers : pub'[q].pc = "wait" => pub'[q].h \in Conns
      BY <2>2, <2>4 DEF Inv, PubOK
    <3> QED BY <3>1, <3>2, <3>3, <3>4 DEF PubOK
  <2>9. NilOK'
    <3>1. \A d \in Conns, m \in Nodes : side[m][d] = "lost" => d # c /\ side'[m][d] = "lost" /\ conn'[d] = conn[d]
      BY <2>4, <2>5, <2>6
    <3> QED BY <2>2, <2>4, <3>1, Facts DEF Inv, NilOK
  <2>10. ASSUME NEW d \in Conns PROVE ConnOK(d)'
    <3>1. CASE d = c
      BY <1>1, <2>2, <2>4, <2>5, <2>6, <3>1 DEF ConnOK
    <3>2. CASE d # c
      <4>1. ConnOK(d) /\ conn'[d] = conn[d] /\ \A m \in Nodes : side'[m][d] = side[m][d]
        BY <2>4, <2>5, <3>2 DEF Inv
      <4>2. \A q \in Publishers : pub[q].h = d => pub'[q] = pub[q]
        BY <2>4, <3>2
      <4>3. conn[d].dialer \in Nodes /\ Peer(conn[d].dialer) \in Nodes
        BY <2>1, Facts DEF ConnType
      <4> QED BY <4>1, <4>2, <4>3 DEF ConnOK
    <3> QED BY <3>1, <3>2
  <2>11. ASSUME NEW m \in Nodes PROVE EpOK(m)'
    <3>1. ep[m] # c
      BY <1>1, <2>6, Facts DEF Inv, EpOK, Nil
    <3>2. ep[m] \in Conns \cup {Nil}
      BY DEF Inv, TypeOK
    <3>3. \A d \in Conns : side'[m][d] = "loop" => side[m][d] = "loop" /\ d # c
      BY <2>5, <2>6
    <3> QED BY <1>1, <2>4, <2>5, <3>1, <3>2, <3>3 DEF Inv, EpOK, IsOpen
  <2>12. NoFaultOK'
    <3>1. \A d \in Conns : /\ conn'[d].dialer = conn[d].dialer
                           /\ conn'[d].st = "new" <=> conn[d].st = "new"
                           /\ conn'[d].st = "closed" => conn[d].st = "closed"
      BY <1>1, <2>2, <2>4
    <3>2. \A m \in Nodes : Lasts(m) => Lasts(m)'
      BY <1>1, <1>3, <3>1, LastsKept
    <3>3. \A d \in Conns : DialedBy(1, d)' <=> DialedBy(1, d)
      BY <3>1 DEF DialedBy
    <3>4. NoTie => NoTie'
      BY <2>5 DEF NoTie
    <3> QED BY <1>1, <3>2, <3>3, <3>4, Facts DEF Inv, NoFaultOK
  <2> QED BY <2>7, <2>8, <2>9, <2>10, <2>11, <2>12 DEF Inv
<1> QED BY <1>2, <1>3 DEF Dial

\* The exchange is over: the connection is added, or closed.
LEMMA ExchangeInv ==
  ASSUME Inv, NEW p \in Publishers, ExchangeAddrsActive(p)
  PROVE  Inv'
<1> DEFINE n == NodeOf[p]
           c == pub[p].h
<1>1. /\ pub[p].pc = "exchange" /\ Dials(p) /\ n \in Nodes /\ n \in {0, 1} /\ c \in Conns
      /\ dialing[n] = c /\ conn[c].dialer = n /\ conn[c].st \in {"open", "closed"}
      /\ side[n][c] = "none" /\ UNCHANGED <<ep, bus, faults>>
  BY Facts DEF ExchangeAddrsActive, Dials, Inv, PubOK, DialOK
<1>2. CASE ~IsOpen(c) /\ conn' = Closed(c) /\ FinishDial(p, c, Failure, "cooldown") /\ UNCHANGED side
  <2>1. PICK x \in PubType :
           /\ x.pc = "cooldown" /\ pub' = [pub EXCEPT ![p] = x]
           /\ dialing' = [dialing EXCEPT ![NodeOf[p]] = Nil]
           /\ dialed' \in [Conns -> Conns \cup {Nil, Failure}]
    BY <1>1, <1>2, Finished
  <2>2. /\ TypeOK' /\ PubOK' /\ NilOK'
        /\ \A d \in Conns : ConnOK(d)'
        /\ \A m \in Nodes : EpOK(m)'
        /\ \A d \in Conns : conn'[d].dialer = conn[d].dialer /\ (d # c => conn'[d] = conn[d])
    BY <1>1, <1>2, <2>1, EndDial
  <2>3. NoFaultOK'
    <3> SUFFICES ASSUME faults = 0
                 PROVE  Lasts(1)' /\ ((\A d \in Conns : ~DialedBy(1, d)') => Lasts(0)' /\ NoTie')
      BY <1>1 DEF Inv, NoFaultOK
    <3>1. Lasts(1) /\ ((\A d \in Conns : ~DialedBy(1, d)) => Lasts(0) /\ NoTie)
      BY DEF Inv, NoFaultOK
    <3>2. conn[c].st = "closed" /\ DialedBy(n, c)
      BY <1>1, <1>2 DEF IsOpen, DialedBy
    <3>3. ~Lasts(n)
      BY <1>1, <3>2 DEF Lasts
    <3>4. n = 0 /\ ~(\A d \in Conns : ~DialedBy(1, d))
      BY <1>1, <3>1, <3>3
    <3>5. PICK d \in Conns : DialedBy(1, d)
      BY <3>4
    <3>6. DialedBy(1, d)'
      BY <1>1, <2>2, <3>4, <3>5 DEF DialedBy
    <3>7. \A e \in Conns : conn'[e].st = "new" <=> conn[e].st = "new"
      <4>1. conn'[c].st = "closed"
        BY <1>1, <1>2, ClosedConn DEF Inv
      <4> QED BY <1>1, <2>2, <4>1
    <3>8. dialing'[1] = dialing[1]
      BY <2>1, <3>4, Facts DEF Inv, TypeOK
    <3>9. \A e \in Conns : DialedBy(1, e) => conn'[e] = conn[e]
      BY <1>1, <2>2, <3>4 DEF DialedBy
    <3>10. Lasts(1)'
      BY <1>1, <2>2, <3>1, <3>7, <3>8, <3>9, LastsKept, Facts
    <3> QED BY <3>6, <3>10
  <2> QED BY <2>2, <2>3 DEF Inv
<1>3. CASE /\ side' = [side EXCEPT ![n][c] = "add"] /\ pub' = [pub EXCEPT ![p].pc = "adding"]
           /\ UNCHANGED <<conn, dialing, dialed>>
  <2> DEFINE x == [pub[p] EXCEPT !.pc = "adding"]
  <2>1. pub[p] \in PubType /\ pub \in [Publishers -> PubType] /\ side \in [Nodes -> [Conns -> SideType]]
    BY DEF Inv, TypeOK
  <2>2. x \in PubType /\ x.pc = "adding" /\ x.h = c
    BY <2>1 DEF PubType
  <2>3. pub' = [pub EXCEPT ![p] = x]
    BY <1>3, <2>1
  <2> HIDE DEF x
  <2>4. pub' \in [Publishers -> PubType] /\ pub'[p] = x /\ \A q \in Publishers \ {p} : pub'[q] = pub[q]
    BY <2>1, <2>2, <2>3
  <2>5. /\ side' \in [Nodes -> [Conns -> SideType]] /\ side'[n][c] = "add"
        /\ \A m \in Nodes, d \in Conns : m # n \/ d # c => side'[m][d] = side[m][d]
    BY <1>1, <1>3, <2>1 DEF SideType
  <2>6. TypeOK'
    BY <1>1, <1>3, <2>4, <2>5 DEF Inv, TypeOK
  <2>7. PubOK'
    <3>1. \A q \in Publishers : Dials(q)' <=> Dials(q)
      BY <1>1, <2>2, <2>4 DEF Dials
    <3>2. ASSUME NEW q \in Publishers, Dials(q) PROVE DialOK(q)'
      <4>1. CASE q = p
        BY <1>1, <1>3, <2>2, <2>4, <2>5, <4>1 DEF DialOK
      <4>2. CASE q # p
        <5>1. DialOK(q) /\ pub'[q] = pub[q] /\ pub[q].h # c /\ pub[q].h \in Conns /\ NodeOf[q] \in Nodes
          BY <1>1, <2>4, <3>2, <4>2, OtherDials, Facts DEF Inv, PubOK, DialOK
        <5>2. side'[NodeOf[q]][pub[q].h] = side[NodeOf[q]][pub[q].h]
          BY <2>5, <5>1
        <5> QED BY <1>3, <5>1, <5>2 DEF DialOK
      <4> QED BY <4>1, <4>2
    <3>3. \A q, r \in Publishers : Dials(q)' /\ Dials(r)' /\ NodeOf[q] = NodeOf[r] => q = r
      BY <3>1 DEF Inv, PubOK
    <3>4. \A q \in Publishers : pub'[q].pc = "wait" => pub'[q].h \in Conns
      BY <2>2, <2>4 DEF Inv, PubOK
    <3> QED BY <3>1, <3>2, <3>3, <3>4 DEF PubOK
  <2>8. NilOK'
    <3>1. \A d \in Conns, m \in Nodes : side[m][d] = "lost" => side'[m][d] = "lost"
      BY <1>1, <2>5
    <3> QED BY <1>3, <2>2, <2>4, <3>1, Facts DEF Inv, NilOK
  <2>9. ASSUME NEW d \in Conns PROVE ConnOK(d)'
    <3>1. ConnOK(d) /\ conn'[d] = conn[d]
      BY <1>3 DEF Inv
    <3>2. CASE d = c
      <4>1. Peer(n) \in Nodes /\ Peer(n) # n
        BY <1>1, Facts
      <4>2. /\ side'[Peer(n)][c] = side[Peer(n)][c] /\ side'[n][c] = "add"
            /\ \A m \in Nodes : side'[m][c] = side[m][c] \/ side'[m][c] = "add"
        BY <1>1, <2>5, <4>1
      <4>3. conn'[c].st \in {"open", "closed"} /\ conn'[c].dialer = n /\ conn[c] = conn'[c]
        BY <1>1, <3>1, <3>2
      <4> QED BY <3>1, <3>2, <4>2, <4>3 DEF ConnOK
    <3>3. CASE d # c
      <4>1. \A m \in Nodes : side'[m][d] = side[m][d]
        BY <2>5, <3>3
      <4>2. \A q \in Publishers : pub[q].h = d => pub'[q] = pub[q]
        BY <2>4, <3>3
      <4>3. conn[d].dialer \in Nodes /\ Peer(conn[d].dialer) \in Nodes
        BY Facts DEF Inv, TypeOK, ConnType
      <4> QED BY <3>1, <4>1, <4>2, <4>3 DEF ConnOK
    <3> QED BY <3>2, <3>3
  <2>10. ASSUME NEW m \in Nodes PROVE EpOK(m)'
    <3>1. m = n => ep[m] # c
      BY <1>1, Facts DEF Inv, EpOK, Nil
    <3>2. ep[m] \in Conns \cup {Nil}
      BY DEF Inv, TypeOK
    <3>3. \A d \in Conns : side'[m][d] = "loop" => side[m][d] = "loop"
      BY <2>5
    <3> QED BY <1>1, <1>3, <2>5, <3>1, <3>2, <3>3 DEF Inv, EpOK, IsOpen
  <2>11. NoFaultOK'
    <3>1. \A m \in Nodes : Lasts(m) => Lasts(m)'
      BY <1>1, <1>3 DEF Lasts, DialedBy
    <3>2. NoTie => NoTie'
      BY <2>5 DEF NoTie
    <3> QED BY <1>1, <1>3, <3>1, <3>2, Facts DEF Inv, NoFaultOK, DialedBy
  <2> QED BY <2>6, <2>7, <2>8, <2>9, <2>10, <2>11 DEF Inv
<1> QED BY <1>2, <1>3 DEF ExchangeAddrsActive

\* The connection was added: it is the endpoint, or it lost a tie.
LEMMA AddedInv ==
  ASSUME Inv, NEW p \in Publishers, Added(p)
  PROVE  Inv'
<1> DEFINE n == NodeOf[p]
           c == pub[p].h
           ret == IF side[n][c] = "lost" THEN ep[n] ELSE c
<1>1. /\ pub[p].pc = "adding" /\ Dials(p) /\ n \in Nodes /\ c \in Conns
      /\ dialing[n] = c /\ conn[c].dialer = n
      /\ side[n][c] \notin {"none", "exchange", "add", "tie"}
      /\ UNCHANGED <<ep, conn, side, bus, faults>>
      /\ FinishDial(p, c, ret, "have")
  BY Facts DEF Added, Dials, Inv, PubOK, DialOK
<1>2. ret \in Conns \cup {Nil} /\ (ret = Nil => side[n][c] = "lost") /\ ret # Failure
  <2>1. ep[n] \in Conns \cup {Nil} /\ c # Nil
    BY <1>1, Facts DEF Inv, TypeOK, Nil
  <2>2. \A d \in Conns \cup {Nil} : d # Failure
    BY Facts DEF Nil, Failure
  <2> QED BY <1>1, <2>1, <2>2
<1> HIDE DEF ret
<1>3. PICK x \in PubType :
         /\ x.pc = "have" /\ x.h = ret /\ pub' = [pub EXCEPT ![p] = x]
         /\ dialing' = [dialing EXCEPT ![NodeOf[p]] = Nil]
         /\ dialed' \in [Conns -> Conns \cup {Nil, Failure}]
  BY <1>1, <1>2, Finished
<1>4. x.h = Nil => LostTie(p)
  BY <1>1, <1>2, <1>3 DEF LostTie
<1>5. /\ TypeOK' /\ PubOK' /\ NilOK'
      /\ \A d \in Conns : ConnOK(d)'
      /\ \A m \in Nodes : EpOK(m)'
  BY <1>1, <1>3, <1>4, EndDial
<1>6. ASSUME NEW m \in Nodes, Lasts(m) PROVE Lasts(m)'
  <2>1. CASE m = n
    <3>1. DialedBy(n, c) => conn[c].st # "closed"
      BY <1>1, <1>6, <2>1 DEF Lasts
    <3>2. conn[c].st \in {"open", "closed"} /\ (side[n][c] = "loop" \/ conn[c].st = "closed")
      <4>1. ConnOK(c) /\ side[n][c] \in SideType /\ conn[c] \in ConnType
        BY <1>1 DEF Inv, TypeOK
      <4> QED BY <1>1, <4>1 DEF ConnOK, SideType, ConnType
    <3>3. ep[n] = c
      BY <1>1, <3>1, <3>2 DEF DialedBy, Inv, EpOK, IsOpen
    <3> QED BY <1>1, <1>6, <2>1, <3>3, LastsKept
  <2>2. CASE m # n
    <3>1. dialing'[m] = dialing[m]
      BY <1>1, <1>3, <2>2 DEF Inv, TypeOK
    <3> QED BY <1>1, <1>6, <3>1, LastsKept
  <2> QED BY <2>1, <2>2
<1>7. NoFaultOK'
  <2>1. NoTie => NoTie'
    BY <1>1 DEF NoTie
  <2> QED BY <1>1, <1>6, <2>1, Facts DEF Inv, NoFaultOK, DialedBy
<1> QED BY <1>5, <1>7 DEF Inv

-----------------------------------------------------------------------------
(* The goroutines of a connection *)

\* The goroutine of n for c goes on; connections may only be closed.
LEMMA SideStep ==
  ASSUME Inv, NEW n \in Nodes, NEW c \in Conns,
         NEW s \in {"add", "tie", "loop", "lost", "ended", "done"},
         side[n][c] \notin {"none", "lost"}, side' = [side EXCEPT ![n][c] = s],
         s \in {"lost", "ended", "done"} => conn'[c].st = "closed",
         conn' \in [Conns -> ConnType], ep' \in [Nodes -> Conns \cup {Nil}],
         \A d \in Conns : /\ conn'[d].dialer = conn[d].dialer
                          /\ \/ conn'[d].st = conn[d].st
                             \/ conn[d].st = "open" /\ conn'[d].st = "closed",
         UNCHANGED <<dialing, dialed, pub, bus, faults>>
  PROVE  /\ TypeOK' /\ PubOK' /\ NilOK'
         /\ \A d \in Conns : ConnOK(d)'
         /\ side'[n][c] = s
         /\ \A m \in Nodes, d \in Conns : m # n \/ d # c => side'[m][d] = side[m][d]
<1>1. /\ side' \in [Nodes -> [Conns -> SideType]] /\ side'[n][c] = s
      /\ \A m \in Nodes, d \in Conns : m # n \/ d # c => side'[m][d] = side[m][d]
  BY DEF Inv, TypeOK, SideType
<1>2. TypeOK'
  BY <1>1 DEF Inv, TypeOK
<1>3. \A m \in Nodes, d \in Conns :
        /\ side'[m][d] = "none" <=> side[m][d] = "none"
        /\ side[m][d] = "lost" => side'[m][d] = "lost"
  BY <1>1
<1>4. PubOK'
  <2>1. ASSUME NEW q \in Publishers, Dials(q) PROVE DialOK(q)'
    <3>1. DialOK(q) /\ pub[q].h \in Conns /\ NodeOf[q] \in Nodes
      BY <2>1, Facts DEF Inv, PubOK, DialOK
    <3>2. side[NodeOf[q]][pub[q].h] \notin {"none", "exchange"}
             => side'[NodeOf[q]][pub[q].h] \notin {"none", "exchange"}
      BY <1>1, <3>1
    <3> QED BY <1>3, <3>1, <3>2 DEF DialOK
  <2> QED BY <2>1 DEF Inv, PubOK, Dials
<1>5. NilOK'
  BY <1>3, Facts DEF Inv, NilOK
<1>6. ASSUME NEW d \in Conns PROVE ConnOK(d)'
  <2>1. ConnOK(d) /\ conn[d].dialer \in Nodes /\ Peer(conn[d].dialer) \in Nodes
    BY Facts DEF Inv, TypeOK, ConnType
  <2>2. conn'[d].st = conn[d].st \/ (conn[d].st = "open" /\ conn'[d].st = "closed")
    OBVIOUS
  <2>3. conn'[d].dialer = conn[d].dialer
    OBVIOUS
  <2>4. ASSUME NEW m \in Nodes, side'[m][d] \in {"lost", "ended", "done"} PROVE conn'[d].st = "closed"
    <3>1. CASE m = n /\ d = c
      BY <1>1, <2>4, <3>1
    <3>2. CASE m # n \/ d # c
      BY <1>1, <2>1, <2>2, <2>4, <3>2 DEF ConnOK
    <3> QED BY <3>1, <3>2
  <2> QED BY <1>3, <2>1, <2>2, <2>3, <2>4 DEF ConnOK
<1> QED BY <1>1, <1>2, <1>4, <1>5, <1>6

\* Without a fault nothing is closed that was to last.
LEMMA NoFaultKept ==
  ASSUME Inv, UNCHANGED <<dialing, bus, faults>>,
         \A d \in Conns : conn'[d].dialer = conn[d].dialer /\ (conn'[d].st = "new" <=> conn[d].st = "new"),
         faults = 0 => \A m \in Nodes, d \in Conns :
           /\ Lasts(m) /\ (m = 1 \/ \A e \in Conns : ~DialedBy(1, e)) /\ DialedBy(m, d)
           => /\ conn'[d].st = "closed" => conn[d].st = "closed"
              /\ ep[m] = d => ep'[m] = d,
         faults = 0 /\ NoTie /\ Lasts(0) /\ (\A e \in Conns : ~DialedBy(1, e)) => NoTie'
  PROVE  NoFaultOK'
<1> SUFFICES ASSUME faults = 0
             PROVE  Lasts(1)' /\ ((\A d \in Conns : ~DialedBy(1, d)') => Lasts(0)' /\ NoTie')
  BY DEF Inv, NoFaultOK
<1>1. Lasts(1) /\ ((\A d \in Conns : ~DialedBy(1, d)) => Lasts(0) /\ NoTie)
  BY DEF Inv, NoFaultOK
<1>2. \A d \in Conns : DialedBy(1, d)' <=> DialedBy(1, d)
  BY DEF DialedBy
<1>3. ASSUME NEW m \in Nodes, Lasts(m), m = 1 \/ \A e \in Conns : ~DialedBy(1, e)
      PROVE  Lasts(m)'
  BY <1>3, LastsKept
<1> QED BY <1>1, <1>2, <1>3, Facts

LEMMA SetupConnInv ==
  ASSUME Inv, NEW n \in Nodes, NEW c \in Conns, setupConn(n, c)
  PROVE  Inv'
<1>1. side[n][c] = "exchange" /\ UNCHANGED <<ep, dialing, dialed, pub, bus, faults>>
  BY DEF setupConn
<1>2. /\ conn \in [Conns -> ConnType] /\ conn[c] \in ConnType /\ conn[c].st \in {"open", "closed"}
      /\ ep \in [Nodes -> Conns \cup {Nil}]
  <2>1. conn[c] \in ConnType /\ conn \in [Conns -> ConnType] /\ ConnOK(c)
        /\ ep \in [Nodes -> Conns \cup {Nil}]
    BY DEF Inv, TypeOK
  <2> QED BY <1>1, <2>1 DEF ConnOK, ConnType
<1>3. PICK s \in {"add", "done"} :
        /\ side' = [side EXCEPT ![n][c] = s]
        /\ s = "add" => conn' = [conn EXCEPT ![c].replied = TRUE]
        /\ s = "done" => conn' = Closed(c) /\ ~ExchangeAddrsPassive(n, c)
  BY DEF setupConn
<1>4. /\ conn' \in [Conns -> ConnType]
      /\ \A d \in Conns : conn'[d].dialer = conn[d].dialer
      /\ \A d \in Conns \ {c} : conn'[d] = conn[d]
      /\ s = "add" => conn'[c].st = conn[c].st
      /\ s = "done" => conn'[c].st = "closed"
  <2>1. CASE s = "done"
    BY <1>3, <2>1, ClosedConn DEF Inv
  <2>2. CASE s = "add"
    <3> DEFINE y == [conn[c] EXCEPT !.replied = TRUE]
    <3>1. y \in ConnType /\ y.st = conn[c].st /\ y.dialer = conn[c].dialer
      BY <1>2 DEF ConnType
    <3>2. conn' = [conn EXCEPT ![c] = y]
      BY <1>2, <1>3, <2>2
    <3> HIDE DEF y
    <3> QED BY <1>2, <2>2, <3>1, <3>2
  <2> QED BY <2>1, <2>2
<1>5. \A d \in Conns : conn'[d].st = conn[d].st \/ (conn[d].st = "open" /\ conn'[d].st = "closed")
  BY <1>2, <1>4
<1>6. /\ TypeOK' /\ PubOK' /\ NilOK'
      /\ \A d \in Conns : ConnOK(d)'
      /\ side'[n][c] = s
      /\ \A m \in Nodes, d \in Conns : m # n \/ d # c => side'[m][d] = side[m][d]
  BY <1>1, <1>2, <1>3, <1>4, <1>5, SideStep
<1>7. ASSUME NEW m \in Nodes PROVE EpOK(m)'
  <2>1. EpOK(m) /\ ep[m] \in Conns \cup {Nil}
    BY <1>2 DEF Inv
  <2>2. m = n => ep[m] # c
    BY <1>1, <2>1, Facts DEF EpOK, Nil
  <2>3. \A d \in Conns : side'[m][d] = "loop" /\ IsOpen(d)' => side[m][d] = "loop" /\ IsOpen(d)
    BY <1>5, <1>6 DEF IsOpen
  <2> QED BY <1>1, <1>6, <2>1, <2>2, <2>3 DEF EpOK
<1>8. NoFaultOK'
  <2>1. faults = 0 => \A d \in Conns : conn'[d].st = conn[d].st
    <3>1. faults = 0 /\ s = "done" => conn[c].st = "closed"
      BY <1>2, <1>3 DEF ExchangeAddrsPassive, IsOpen, Inv, NoFaultOK
    <3> QED BY <1>4, <3>1
  <2>2. NoTie => NoTie'
    BY <1>6 DEF NoTie
  <2>3. \A d \in Conns : conn'[d].st = "new" <=> conn[d].st = "new"
    BY <1>5
  <2> QED BY <1>1, <1>4, <2>1, <2>2, <2>3, NoFaultKept
<1> QED BY <1>6, <1>7, <1>8 DEF Inv

LEMMA InstallInv ==
  ASSUME Inv, NEW n \in Nodes, NEW c \in Conns, Install(n, c)
  PROVE  Inv'
<1> DEFINE s == IF ep[n] = Nil THEN "loop" ELSE "tie"
<1>1. /\ side[n][c] = "add" /\ UNCHANGED <<dialing, dialed, conn, pub, bus, faults>>
      /\ side' = [side EXCEPT ![n][c] = s]
      /\ ep' = [ep EXCEPT ![n] = IF ep[n] = Nil THEN c ELSE ep[n]]
  BY DEF Install, getOrCreateFullEndpoint
<1>2. ep \in [Nodes -> Conns \cup {Nil}] /\ conn \in [Conns -> ConnType]
  BY DEF Inv, TypeOK
<1>3. /\ ep' \in [Nodes -> Conns \cup {Nil}]
      /\ ep'[n] = IF ep[n] = Nil THEN c ELSE ep[n]
      /\ \A m \in Nodes \ {n} : ep'[m] = ep[m]
  BY <1>1, <1>2
<1>4. s \in {"loop", "tie"} /\ (s = "loop" <=> ep[n] = Nil)
  OBVIOUS
<1> HIDE DEF s
<1>5. /\ TypeOK' /\ PubOK' /\ NilOK'
      /\ \A d \in Conns : ConnOK(d)'
      /\ side'[n][c] = s
      /\ \A m \in Nodes, d \in Conns : m # n \/ d # c => side'[m][d] = side[m][d]
  BY <1>1, <1>2, <1>3, <1>4, SideStep
<1>6. ep[n] # c
  BY <1>1, Facts DEF Inv, EpOK, Nil
<1>7. ASSUME NEW m \in Nodes PROVE EpOK(m)'
  <2>1. EpOK(m) /\ ep[m] \in Conns \cup {Nil}
    BY <1>2 DEF Inv
  <2>2. CASE m = n /\ s = "loop"
    <3>1. ep'[n] = c /\ ep[n] = Nil /\ side'[n][c] = "loop"
      BY <1>3, <1>4, <1>5, <2>2
    <3>2. \A d \in Conns : d # c /\ side'[n][d] = "loop" /\ IsOpen(d)' => FALSE
      BY <1>1, <1>5, <2>1, <2>2, <3>1, Facts DEF EpOK, IsOpen, Nil
    <3> QED BY <2>2, <3>1, <3>2 DEF EpOK
  <2>3. CASE m # n \/ s = "tie"
    <3>1. ep'[m] = ep[m]
      BY <1>3, <1>4, <2>3
    <3>2. m # n \/ ep[m] # c
      BY <1>6
    <3>3. \A d \in Conns : side'[m][d] = "loop" => side[m][d] = "loop"
      BY <1>5, <2>3
    <3> QED BY <1>1, <1>5, <2>1, <3>1, <3>2, <3>3 DEF EpOK, IsOpen
  <2> QED BY <1>4, <2>2, <2>3
<1>8. NoFaultOK'
  <2>1. \A m \in Nodes, d \in Conns : ep[m] = d => ep'[m] = d
    BY <1>3, Facts DEF Nil
  <2>2. ASSUME NoTie, Lasts(0), \A e \in Conns : ~DialedBy(1, e) PROVE NoTie'
    <3>1. ASSUME s = "tie" PROVE FALSE
      <4> DEFINE d == ep[n]
      <4>1. d \in Conns /\ side[n][d] \in {"loop", "ended"} /\ d # c
        BY <1>2, <1>4, <1>6, <3>1 DEF Inv, EpOK
      <4> HIDE DEF d
      <4>2. conn[c].st # "new" /\ conn[d].st # "new"
        BY <1>1, <4>1 DEF Inv, ConnOK
      <4>3. conn[c].dialer \in {0, 1} /\ conn[d].dialer \in {0, 1}
        BY <1>2, <4>1, Facts DEF ConnType
      <4>4. DialedBy(0, c) /\ DialedBy(0, d)
        BY <2>2, <4>1, <4>2, <4>3 DEF DialedBy
      <4> QED BY <2>2, <4>1, <4>4 DEF Lasts
    <3> QED BY <1>4, <1>5, <2>2, <3>1 DEF NoTie
  <2> QED BY <1>1, <2>1, <2>2, NoFaultKept
<1> QED BY <1>5, <1>7, <1>8 DEF Inv

\* A tie: the connection dialed by node 0 is given up on both nodes.
LEMMA ReplaceInv ==
  ASSUME Inv, NEW n \in Nodes, NEW c \in Conns, replace(n, c)
  PROVE  Inv'
<1>1. side[n][c] = "tie" /\ UNCHANGED <<dialing, dialed, pub, bus, faults>>
  BY DEF replace
<1>2. /\ ep \in [Nodes -> Conns \cup {Nil}] /\ conn \in [Conns -> ConnType]
      /\ conn[c].dialer \in {0, 1} /\ conn[c].st \in {"open", "closed"}
  <2>1. conn[c] \in ConnType /\ ConnOK(c)
    BY DEF Inv, TypeOK
  <2> QED BY <1>1, <2>1, Facts DEF ConnOK, ConnType, Inv, TypeOK
<1>3. Loses(n, c) <=> conn[c].dialer = 0
  BY <1>2, Facts DEF Loses
<1>4. ep[n] # c
  BY <1>1, Facts DEF Inv, EpOK, Nil
<1>5. CASE Loses(n, c)
  <2>1. conn' = Closed(c) /\ side' = [side EXCEPT ![n][c] = "lost"] /\ ep' = ep
    BY <1>5 DEF replace
  <2>2. /\ conn' \in [Conns -> ConnType]
        /\ conn'[c].st = "closed"
        /\ \A d \in Conns \ {c} : conn'[d] = conn[d]
        /\ \A d \in Conns : conn'[d].dialer = conn[d].dialer
    BY <2>1, ClosedConn DEF Inv
  <2>3. \A d \in Conns : conn'[d].st = conn[d].st \/ (conn[d].st = "open" /\ conn'[d].st = "closed")
    BY <1>2, <2>2
  <2>4. /\ TypeOK' /\ PubOK' /\ NilOK'
        /\ \A d \in Conns : ConnOK(d)'
        /\ side'[n][c] = "lost"
        /\ \A m \in Nodes, d \in Conns : m # n \/ d # c => side'[m][d] = side[m][d]
    BY <1>1, <1>2, <2>1, <2>2, <2>3, SideStep
  <2>5. ASSUME NEW m \in Nodes PROVE EpOK(m)'
    <3>1. EpOK(m) /\ ep[m] \in Conns \cup {Nil}
      BY <1>2 DEF Inv
    <3>2. \A d \in Conns : side'[m][d] = "loop" /\ IsOpen(d)' => side[m][d] = "loop" /\ IsOpen(d)
      BY <2>3, <2>4 DEF IsOpen
    <3> QED BY <1>4, <2>1, <2>4, <3>1, <3>2 DEF EpOK
  <2>6. NoFaultOK'
    <3>1. ~NoTie
      BY <1>1 DEF NoTie
    <3>2. faults = 0 => ~\A e \in Conns : ~DialedBy(1, e)
      BY <3>1 DEF Inv, NoFaultOK
    <3>3. \A d \in Conns : DialedBy(1, d) => conn'[d] = conn[d]
      BY <1>3, <1>5, <2>2 DEF DialedBy
    <3>4. \A d \in Conns : conn'[d].st = "new" <=> conn[d].st = "new"
      BY <2>3
    <3> QED BY <1>1, <2>1, <2>2, <3>1, <3>2, <3>3, <3>4, NoFaultKept
  <2> QED BY <2>4, <2>5, <2>6 DEF Inv
<1>6. CASE ~Loses(n, c)
  <2>1. /\ ep' = [ep EXCEPT ![n] = c] /\ side' = [side EXCEPT ![n][c] = "loop"]
        /\ conn' = IF ep[n] = Nil THEN conn ELSE Closed(ep[n])
    BY <1>6 DEF replace
  <2>2. /\ conn' \in [Conns -> ConnType]
        /\ \A d \in Conns : conn'[d].dialer = conn[d].dialer
        /\ \A d \in Conns : d # ep[n] => conn'[d] = conn[d]
        /\ ep[n] # Nil => conn'[ep[n]].st = "closed" /\ conn[ep[n]].st \in {"open", "closed"}
    <3>1. CASE ep[n] = Nil
      BY <1>2, <2>1, <3>1, Facts DEF Nil
    <3>2. CASE ep[n] # Nil
      <4> DEFINE d == ep[n]
      <4>1. d \in Conns /\ conn' = Closed(d) /\ side[n][d] \in {"loop", "ended"}
        BY <1>2, <2>1, <3>2 DEF Inv, EpOK
      <4> HIDE DEF d
      <4>2. ConnOK(d) /\ conn[d] \in ConnType
        BY <1>2, <4>1 DEF Inv
      <4>3. conn[d].st \in {"open", "closed"}
        BY <4>1, <4>2 DEF ConnOK, ConnType
      <4>4. /\ conn' \in [Conns -> ConnType] /\ conn'[d].st = "closed"
            /\ \A e \in Conns \ {d} : conn'[e] = conn[e]
            /\ \A e \in Conns : conn'[e].dialer = conn[e].dialer
        BY <4>1, ClosedConn DEF Inv
      <4> QED BY <4>3, <4>4 DEF d
    <3> QED BY <3>1, <3>2
  <2>3. \A d \in Conns : conn'[d].st = conn[d].st \/ (conn[d].st = "open" /\ conn'[d].st = "closed")
    BY <2>2, Facts DEF Nil
  <2>4. /\ ep' \in [Nodes -> Conns \cup {Nil}] /\ ep'[n] = c
        /\ \A m \in Nodes \ {n} : ep'[m] = ep[m]
    BY <1>2, <2>1
  <2>5. /\ TypeOK' /\ PubOK' /\ NilOK'
        /\ \A d \in Conns : ConnOK(d)'
        /\ side'[n][c] = "loop"
        /\ \A m \in Nodes, d \in Conns : m # n \/ d # c => side'[m][d] = side[m][d]
    <3>1. /\ conn' \in [Conns -> ConnType] /\ ep' \in [Nodes -> Conns \cup {Nil}]
          /\ side' = [side EXCEPT ![n][c] = "loop"]
      BY <2>1, <2>2, <2>4
    <3>2. \A d \in Conns : /\ conn'[d].dialer = conn[d].dialer
                           /\ \/ conn'[d].st = conn[d].st
                              \/ conn[d].st = "open" /\ conn'[d].st = "closed"
      BY <2>2, <2>3
    <3> QED BY <1>1, <3>1, <3>2, SideStep
  <2>6. ASSUME NEW m \in Nodes PROVE EpOK(m)'
    <3>1. EpOK(m) /\ ep[m] \in Conns \cup {Nil}
      BY <1>2 DEF Inv
    <3>2. CASE m = n
      <4>1. ASSUME NEW d \in Conns, side'[n][d] = "loop", conn'[d].st = "open", d # c PROVE FALSE
        <5>1. side[n][d] = "loop" /\ conn[d].st = "open"
          BY <2>3, <2>5, <4>1
        <5>2. ep[n] = d /\ ep[n] # Nil
          BY <3>1, <3>2, <5>1, Facts DEF EpOK, IsOpen, Nil
        <5> QED BY <2>2, <4>1, <5>2
      <4> QED BY <2>4, <2>5, <3>2, <4>1 DEF EpOK, IsOpen
    <3>3. CASE m # n
      <4>1. \A d \in Conns : side'[m][d] = side[m][d] /\ (IsOpen(d)' => IsOpen(d))
        BY <2>3, <2>5, <3>3 DEF IsOpen
      <4> QED BY <2>4, <3>1, <3>3, <4>1 DEF EpOK
    <3> QED BY <3>2, <3>3
  <2>7. NoFaultOK'
    <3>1. DialedBy(1, c)
      BY <1>2, <1>3, <1>6 DEF DialedBy
    <3>2. ASSUME NEW d \in Conns, Lasts(1), DialedBy(1, d)
          PROVE  conn'[d] = conn[d] /\ (ep[1] = d => ep'[1] = d)
      <4>1. d = c
        BY <3>1, <3>2 DEF Lasts
      <4> QED BY <1>4, <2>2, <2>4, <4>1, Facts
    <3>3. \A d \in Conns : conn'[d].st = "new" <=> conn[d].st = "new"
      BY <2>3
    <3> QED BY <1>1, <2>2, <3>1, <3>2, <3>3, NoFaultKept
  <2> QED BY <2>5, <2>6, <2>7 DEF Inv
<1> QED BY <1>5, <1>6

LEMMA RecvLoopInv ==
  ASSUME Inv, NEW n \in Nodes, NEW c \in Conns, recvLoop(n, c)
  PROVE  Inv'
<1>1. side[n][c] = "loop" /\ UNCHANGED <<ep, dialing, dialed, conn, pub, bus, faults>>
  BY DEF recvLoop
<1>2. conn \in [Conns -> ConnType] /\ conn[c] \in ConnType /\ ep \in [Nodes -> Conns \cup {Nil}]
  BY DEF Inv, TypeOK
<1>3. CASE UNCHANGED side
  <2>1. TypeOK'
    BY <1>1, <1>3 DEF Inv, TypeOK
  <2>2. PubOK' /\ NilOK'
    BY <1>1, <1>3 DEF Inv, PubOK, NilOK, Dials, DialOK
  <2>3. \A d \in Conns : ConnOK(d)'
    BY <1>1, <1>3 DEF Inv, ConnOK
  <2>4. \A m \in Nodes : EpOK(m)'
    BY <1>1, <1>3 DEF Inv, EpOK, IsOpen
  <2>5. NoFaultOK'
    BY <1>1, <1>3 DEF Inv, NoFaultOK, Lasts, DialedBy, NoTie
  <2> QED BY <2>1, <2>2, <2>3, <2>4, <2>5 DEF Inv
<1>4. CASE ~IsOpen(c) /\ side' = [side EXCEPT ![n][c] = "ended"]
  <2>1. conn[c].st = "closed"
    BY <1>1, <1>2, <1>4 DEF IsOpen, Inv, ConnOK, ConnType
  <2>2. /\ TypeOK' /\ PubOK' /\ NilOK'
        /\ \A d \in Conns : ConnOK(d)'
        /\ side'[n][c] = "ended"
        /\ \A m \in Nodes, d \in Conns : m # n \/ d # c => side'[m][d] = side[m][d]
    BY <1>1, <1>2, <1>4, <2>1, SideStep
  <2>3. ASSUME NEW m \in Nodes PROVE EpOK(m)'
    <3>1. EpOK(m) /\ ep[m] \in Conns \cup {Nil}
      BY <1>2 DEF Inv
    <3>2. \A d \in Conns : side'[m][d] = "loop" => side[m][d] = "loop"
      BY <2>2
    <3> QED BY <1>1, <2>2, <3>1, <3>2 DEF EpOK, IsOpen
  <2>4. NoFaultOK'
    <3>1. NoTie => NoTie'
      BY <2>2 DEF NoTie
    <3> QED BY <1>1, <3>1, NoFaultKept
  <2> QED BY <2>2, <2>3, <2>4 DEF Inv
<1> QED BY <1>3, <1>4 DEF recvLoop

LEMMA DeleteInv ==
  ASSUME Inv, NEW n \in Nodes, NEW c \in Conns, delete(n, c)
  PROVE  Inv'
<1>1. /\ side[n][c] = "ended" /\ UNCHANGED <<dialing, dialed, conn, pub, bus, faults>>
      /\ side' = [side EXCEPT ![n][c] = "done"]
      /\ ep' = IF ep[n] = c THEN [ep EXCEPT ![n] = Nil] ELSE ep
  BY DEF delete
<1>2. /\ conn \in [Conns -> ConnType] /\ ep \in [Nodes -> Conns \cup {Nil}]
      /\ conn[c].st = "closed"
  BY <1>1 DEF Inv, TypeOK, ConnOK
<1>3. /\ ep' \in [Nodes -> Conns \cup {Nil}]
      /\ \A m \in Nodes : ep'[m] = IF m = n /\ ep[m] = c THEN Nil ELSE ep[m]
  BY <1>1, <1>2
<1>4. /\ TypeOK' /\ PubOK' /\ NilOK'
      /\ \A d \in Conns : ConnOK(d)'
      /\ side'[n][c] = "done"
      /\ \A m \in Nodes, d \in Conns : m # n \/ d # c => side'[m][d] = side[m][d]
  BY <1>1, <1>2, <1>3, SideStep
<1>5. ASSUME NEW m \in Nodes PROVE EpOK(m)'
  <2>1. EpOK(m) /\ ep[m] \in Conns \cup {Nil}
    BY <1>2 DEF Inv
  <2>2. \A d \in Conns : side'[m][d] = "loop" => side[m][d] = "loop" /\ (m # n \/ d # c)
    BY <1>4
  <2>3. ep'[m] # Nil => ep'[m] = ep[m] /\ (m # n \/ ep[m] # c)
    BY <1>3
  <2>4. ep'[m] # Nil => side'[m][ep'[m]] \in {"loop", "ended"}
    BY <1>4, <2>1, <2>3 DEF EpOK
  <2>5. \A d \in Conns : side'[m][d] = "loop" /\ IsOpen(d)' => ep'[m] = d
    BY <1>1, <1>3, <2>1, <2>2 DEF EpOK, IsOpen
  <2> QED BY <2>4, <2>5 DEF EpOK
<1>6. NoFaultOK'
  <2>1. NoTie => NoTie'
    BY <1>4 DEF NoTie
  <2>2. \A m \in Nodes, d \in Conns : Lasts(m) /\ DialedBy(m, d) /\ ep[m] = d => ep'[m] = d
    BY <1>2, <1>3 DEF Lasts
  <2> QED BY <1>1, <2>1, <2>2, NoFaultKept
<1> QED BY <1>4, <1>5, <1>6 DEF Inv

\* What neither the subscribers nor the queues are part of.
LEMMA RestInv ==
  ASSUME Inv, UNCHANGED <<ep, dialing, dialed, conn, side, pub, bus>>,
         faults' = faults \/ faults' = faults + 1
  PROVE  Inv'
<1>1. TypeOK' /\ (faults' = 0 => faults = 0)
  BY DEF Inv, TypeOK
<1>2. PubOK' /\ NilOK'
  BY DEF Inv, PubOK, NilOK, Dials, DialOK
<1>3. \A d \in Conns : ConnOK(d)'
  BY DEF Inv, ConnOK
<1>4. \A m \in Nodes : EpOK(m)'
  BY DEF Inv, EpOK, IsOpen
<1>5. NoFaultOK'
  BY <1>1 DEF Inv, NoFaultOK, Lasts, DialedBy, NoTie
<1> QED BY <1>1, <1>2, <1>3, <1>4, <1>5 DEF Inv

-----------------------------------------------------------------------------
(* The theorems *)

LEMMA NextInv == Inv /\ [Next]_vars => Inv'
<1> SUFFICES ASSUME Inv, [Next]_vars PROVE Inv'
  OBVIOUS
<1>1. CASE UNCHANGED vars
  BY <1>1, RestInv DEF vars
<1>2. ASSUME NEW n \in Nodes, removeSubscriber(n) PROVE Inv'
  BY <1>2, RestInv DEF removeSubscriber
<1>3. ASSUME NEW n \in Nodes, BusClose(n) PROVE Inv'
  BY <1>3, BusCloseInv
<1>4. ASSUME NEW n \in Nodes, NEW c \in Conns, ConnStep(n, c) PROVE Inv'
  BY <1>4, SetupConnInv, InstallInv, ReplaceInv, RecvLoopInv, DeleteInv DEF ConnStep
<1>5. ASSUME NEW p \in Publishers, PubStep(p) PROVE Inv'
  BY <1>5, SendOnInv, RetryInv, GetInv, WaitDialInv, DialInv, ExchangeInv, AddedInv DEF PubStep
<1>6. ASSUME NEW c \in Conns, Break(c) PROVE Inv'
  BY <1>6, BreakInv
<1> QED BY <1>1, <1>2, <1>3, <1>4, <1>5, <1>6 DEF Next

\* The registries, the dials and the connections of two nodes keep the inductive
\* invariant, whoever dials and whatever breaks or is closed.
THEOREM EndpointInvariance == Spec => []Inv
<1> QED BY InitInv, NextInv, PTL DEF Spec

\* Once everything is set up, a connection that is open is received on by both nodes.
LEMMA OpenIsInstalled ==
  ASSUME Inv, Settled, NEW c \in Conns, IsOpen(c)
  PROVE  ep[0] = c /\ ep[1] = c
<1> DEFINE d == conn[c].dialer
<1>1. ConnOK(c) /\ d \in {0, 1} /\ conn[c].st = "open"
  BY Facts DEF Inv, TypeOK, ConnType, IsOpen
<1>2. side[d][c] # "none" /\ side[Peer(d)][c] # "none"
  <2>1. ~\E p \in Publishers : pub[p].pc = "exchange" /\ pub[p].h = c
    BY DEF Settled
  <2> QED BY <1>1, <2>1 DEF ConnOK
<1>3. side[0][c] # "none" /\ side[1][c] # "none"
  BY <1>1, <1>2, Facts
<1>4. ASSUME NEW n \in Nodes PROVE side[n][c] = "none" \/ side[n][c] = "loop"
  <2>1. side[n][c] \in SideType
    BY DEF Inv, TypeOK
  <2>2. side[n][c] \notin {"exchange", "add", "tie", "ended"}
    BY DEF Settled
  <2>3. side[n][c] \notin {"lost", "done"}
    BY <1>1 DEF ConnOK
  <2> QED BY <2>1, <2>2, <2>3 DEF SideType
<1> QED BY <1>3, <1>4, Facts DEF Inv, EpOK

LEMMA InstalledIsOpen ==
  ASSUME Inv, Settled, NEW n \in Nodes, ep[n] # Nil
  PROVE  ep[n] \in Conns /\ IsOpen(ep[n])
<1>1. ep[n] \in Conns /\ side[n][ep[n]] \in {"loop", "ended"}
  BY DEF Inv, TypeOK, EpOK
<1> QED BY <1>1 DEF Settled

\* Without a fault a connection that lasts is open once everything is set up.
LEMMA LastingIsOpen ==
  ASSUME Inv, Settled, NEW n \in Nodes, Lasts(n), NEW c \in Conns, DialedBy(n, c)
  PROVE  IsOpen(c)
<1>1. conn[c].st \in {"new", "dialing", "open", "closed"} /\ ConnOK(c)
  BY DEF Inv, TypeOK, ConnType
<1>2. conn[c].st # "closed" /\ conn[c].st # "new"
  BY DEF Lasts, DialedBy
<1>3. conn[c].st # "dialing"
  BY <1>1 DEF ConnOK, Settled
<1> QED BY <1>1, <1>2, <1>3 DEF IsOpen

\* For any number of calls, dials and faults: when nothing is being set up any more the
\* registries of both nodes hold the same connection (fullEndpoint.replace), no other is
\* open, and without a fault there is one.
THEOREM TieAgreedAlways == Spec => []TieAgreed
<1>1. Inv => TieAgreed
  <2> SUFFICES ASSUME Inv, Settled
               PROVE  /\ ep[0] = ep[1]
                      /\ \A c \in Conns : IsOpen(c) => ep[0] = c
                      /\ faults = 0 /\ conn[1].st # "new" => ep[0] # Nil
    BY DEF TieAgreed
  <2>1. \A c \in Conns : IsOpen(c) => ep[0] = c /\ ep[1] = c
    BY OpenIsInstalled
  <2>2. ep[0] = ep[1]
    <3>1. ep[0] # Nil => ep[1] = ep[0]
      BY <2>1, InstalledIsOpen, Facts
    <3>2. ep[1] # Nil => ep[0] = ep[1]
      BY <2>1, InstalledIsOpen, Facts
    <3> QED BY <3>1, <3>2
  <2>3. ASSUME faults = 0, conn[1].st # "new" PROVE ep[0] # Nil
    <3>1. Lasts(1) /\ ((\A d \in Conns : ~DialedBy(1, d)) => Lasts(0))
      BY <2>3 DEF Inv, NoFaultOK
    <3>2. conn[1].dialer \in {0, 1} /\ 1 \in Conns
      BY Facts DEF Inv, TypeOK, ConnType
    <3>3. PICK n \in Nodes, c \in Conns : Lasts(n) /\ DialedBy(n, c)
      <4>1. CASE \A d \in Conns : ~DialedBy(1, d)
        <5>1. DialedBy(0, 1)
          BY <2>3, <3>2, <4>1 DEF DialedBy
        <5> QED BY <3>1, <3>2, <4>1, <5>1, Facts
      <4>2. CASE ~\A d \in Conns : ~DialedBy(1, d)
        BY <3>1, <4>2, Facts
      <4> QED BY <4>1, <4>2
    <3>4. IsOpen(c)
      BY <3>3, LastingIsOpen
    <3> QED BY <2>1, <3>4, Facts DEF Nil
  <2> QED BY <2>1, <2>2, <2>3
<1> QED BY <1>1, EndpointInvariance, PTL

\* Get returns a nil endpoint with no error, on which Publish panics, only after a tie was
\* lost on that node: every other end of a dial is an error or an endpoint.
THEOREM NilOnlyAfterLostTieAlways == Spec => []NilOnlyAfterLostTie
<1>1. Inv => NilOnlyAfterLostTie
  BY DEF Inv, NilOK, NilOnlyAfterLostTie
<1> QED BY <1>1, EndpointInvariance, PTL
=============================================================================
