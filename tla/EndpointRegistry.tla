-------------------------- MODULE EndpointRegistry --------------------------
(***************************************************************************)
(* Two nodes of the network bus (wire/net/bus.go) that publish to each     *)
(* other.  A publisher asks its endpoint registry for the connection to    *)
(* the peer, which dials if there is none; both may dial at once, and the  *)
(* registries must agree on the connection to keep                         *)
(* (wire/net/endpoint_registry.go, exchange_addr.go).  Every access to the *)
(* atomic endpoint pointer is a step of its own.                           *)
(***************************************************************************)
EXTENDS Integers, Sequences, SequencesExt, FiniteSets

CONSTANTS
  Publishers,       \* calls of Bus.Publish
  NodeOf,           \* NodeOf[p]: the node a publisher runs on, 0 or 1
  FirstAttempt,     \* FirstAttempt[p]: the attempt p has reached
  MaxConns,         \* bound: dial attempts
  PublishAttempts,  \* tries of Publish
  MaxFaults,        \* bound: broken connections, closed buses and clients
  MayClose          \* nodes whose bus may be closed

VARIABLES
  ep,        \* ep[n]: the pointer in n's fullEndpoint, 0 for nil
  dialing,   \* dialing[n]: the dialingEndpoint in the map, 0 for none
  dialed,    \* dialed[d]: how dial d ended: "running", or the result
  conn,      \* conn[c]: the connection of dial c
  side,      \* side[n][c]: where n's goroutine for connection c is
  pub,       \* pub[p]: the Publish call
  queue,     \* queue[n][c]: messages to n on connection c
  inbox,     \* inbox[n]: messages handed to n's subscriber
  bus,       \* bus[n]: "open" or "closed"
  sub,       \* sub[n]: n's client: "subscribed", "closed", "panicked"
  faults     \* faults so far

vars == <<ep, dialing, dialed, conn, side, pub, queue, inbox, bus, sub, faults>>

Nodes == {0, 1}
Conns == 1..MaxConns
Peer(n) == 1 - n
Nil == 0
Failure == -1

ASSUME NodeAssumption ==
  /\ NodeOf \in [Publishers -> Nodes] /\ FirstAttempt \in [Publishers -> Nat]
  /\ MaxConns \in Nat \ {0}

NewBus == [n \in Nodes |-> "open"]
SubscribeClient == [n \in Nodes |-> "subscribed"]

Init ==
  /\ ep = [n \in Nodes |-> Nil]
  /\ dialing = [n \in Nodes |-> Nil]
  /\ dialed = [d \in Conns |-> Nil]
  /\ conn = [c \in Conns |-> [dialer |-> 0, st |-> "new", replied |-> FALSE]]
  /\ side = [n \in Nodes |-> [c \in Conns |-> "none"]]
  /\ pub = [p \in Publishers |-> [pc |-> "get", attempt |-> FirstAttempt[p], h |-> Nil]]
  /\ queue = [n \in Nodes |-> [c \in Conns |-> <<>>]]
  /\ inbox = [n \in Nodes |-> {}]
  /\ bus = NewBus
  /\ sub = SubscribeClient
  /\ faults = 0

\* Conn.Close: the connection is closed for both sides.
Closed(c) == [conn EXCEPT ![c].st = "closed"]
IsOpen(c) == conn[c].st = "open"
Fresh == {c \in Conns : conn[c].st = "new"}

-----------------------------------------------------------------------------
(* Bus: subscribers, Publish and Close *)

\* The consumer is closed: removeSubscriber panics if it is not registered,
\* as after Bus.Close, which drops the map.
removeSubscriber(n) ==
  /\ sub[n] = "subscribed" /\ n \in MayClose
  /\ sub' = [sub EXCEPT ![n] = IF bus[n] = "closed" THEN "panicked" ELSE "closed"]
  /\ faults < MaxFaults /\ faults' = faults + 1
  /\ UNCHANGED <<ep, dialing, dialed, conn, side, pub, queue, inbox, bus>>

\* Bus.Close and EndpointRegistry.Close: the dialer and the installed endpoint
\* are closed.
BusClose(n) ==
  /\ n \in MayClose /\ bus[n] = "open"
  /\ bus' = [bus EXCEPT ![n] = "closed"]
  /\ conn' = IF ep[n] = Nil THEN conn ELSE Closed(ep[n])
  /\ faults < MaxFaults /\ faults' = faults + 1
  /\ UNCHANGED <<ep, dialing, dialed, side, pub, queue, inbox, sub>>

\* Mutant: a message is dropped while another one is being handled.
dispatchBusy(n, m) ==
  inbox' = IF sub[n] = "subscribed" /\ bus[n] = "open" /\ inbox[n] = {}
           THEN [inbox EXCEPT ![n] = @ \cup {m}] ELSE inbox

\* dispatchMsgs: to the subscriber of the recipient, or dropped.
dispatchMsgs(n, m) ==
  inbox' = IF sub[n] = "subscribed" /\ bus[n] = "open"
           THEN [inbox EXCEPT ![n] = @ \cup {m}] ELSE inbox

\* Endpoint.Send on the endpoint Get returned; a nil endpoint panics.
SendOn(p) ==
  /\ pub[p].pc = "have"
  /\ LET n == NodeOf[p]
     IN \/ /\ pub[p].h = Nil
           /\ pub' = [pub EXCEPT ![p].pc = "panicked"]
           /\ UNCHANGED queue
        \/ /\ pub[p].h # Nil /\ IsOpen(pub[p].h)
           /\ queue' = [queue EXCEPT ![Peer(n)][pub[p].h] = Append(@, p)]
           /\ pub' = [pub EXCEPT ![p].pc = "published"]
        \/ /\ pub[p].h # Nil /\ ~IsOpen(pub[p].h)
           /\ pub' = [pub EXCEPT ![p].pc = "cooldown"]
           /\ UNCHANGED queue
  /\ UNCHANGED <<ep, dialing, dialed, conn, side, inbox, bus, sub, faults>>

\* After the cooldown the next attempt; the last error is returned, or that
\* the bus is closed.
Retry(p) ==
  /\ pub[p].pc = "cooldown"
  /\ pub' = [pub EXCEPT ![p] =
       IF pub[p].attempt < PublishAttempts /\ bus[NodeOf[p]] = "open"
       THEN [pc |-> "get", attempt |-> pub[p].attempt + 1, h |-> Nil]
       ELSE [pc |-> "failed", attempt |-> pub[p].attempt, h |-> Nil]]
  /\ UNCHANGED <<ep, dialing, dialed, conn, side, queue, inbox, bus, sub, faults>>

-----------------------------------------------------------------------------
(* EndpointRegistry.Get and authenticatedDial *)

\* Under the registry's mutex: the installed endpoint, the dial in progress,
\* or a dial of one's own.
Get(p) ==
  /\ pub[p].pc = "get"
  /\ LET n == NodeOf[p]
     IN \/ /\ ep[n] # Nil
           /\ pub' = [pub EXCEPT ![p].pc = "have", ![p].h = ep[n]]
           /\ UNCHANGED <<dialing, conn, dialed>>
        \/ /\ ep[n] = Nil /\ dialing[n] # Nil
           /\ pub' = [pub EXCEPT ![p].pc = "wait", ![p].h = dialing[n]]
           /\ UNCHANGED <<dialing, conn, dialed>>
        \/ /\ ep[n] = Nil /\ dialing[n] = Nil
           /\ \E c \in Fresh :
                /\ \A d \in Fresh : c <= d
                /\ dialing' = [dialing EXCEPT ![n] = c]
                /\ conn' = [conn EXCEPT ![c] = [dialer |-> n, st |-> "dialing", replied |-> FALSE]]
                /\ pub' = [pub EXCEPT ![p].pc = "dial", ![p].h = c]
           /\ UNCHANGED dialed
        \* Beyond the bound on connections a dial just fails.
        \/ /\ ep[n] = Nil /\ dialing[n] = Nil /\ Fresh = {}
           /\ pub' = [pub EXCEPT ![p].pc = "cooldown"]
           /\ UNCHANGED <<dialing, conn, dialed>>
  /\ UNCHANGED <<ep, side, queue, inbox, bus, sub, faults>>

\* Waiting for the dial of another call; also ended by closing the registry.
WaitDial(p) ==
  /\ pub[p].pc = "wait"
  /\ LET d == dialed[pub[p].h]
     IN \/ /\ d > 0
           /\ pub' = [pub EXCEPT ![p].pc = "have", ![p].h = d]
        \/ /\ \/ bus[NodeOf[p]] = "closed"
              \/ dialing[NodeOf[p]] # pub[p].h /\ d <= 0
           /\ pub' = [pub EXCEPT ![p].pc = "cooldown"]
  /\ UNCHANGED <<ep, dialing, dialed, conn, side, queue, inbox, bus, sub, faults>>

\* Mutant: a failed dial is reported as a nil endpoint.
FinishDialNil(p, c, ret, pc) ==
  /\ dialing' = [dialing EXCEPT ![NodeOf[p]] = Nil]
  /\ dialed' = [dialed EXCEPT ![c] = ret]
  /\ pub' = [pub EXCEPT ![p].pc = "have", ![p].h = IF ret = Failure THEN Nil ELSE ret]

\* The deferred end of a dial: the entry is removed and its waiters are told.
FinishDial(p, c, ret, pc) ==
  /\ dialing' = [dialing EXCEPT ![NodeOf[p]] = Nil]
  /\ dialed' = [dialed EXCEPT ![c] = ret]
  /\ pub' = [pub EXCEPT ![p].pc = pc, ![p].h = IF ret = Failure THEN Nil ELSE ret]

\* n's listener accepts the connection; its registry sets it up in a goroutine
\* of its own.
Accept(n, c) == side' = [side EXCEPT ![n][c] = "exchange"]

\* The dial reaches the peer's listener, or it fails.
Dial(p) ==
  /\ pub[p].pc = "dial"
  /\ LET n == NodeOf[p]  c == pub[p].h
     IN \/ /\ bus[Peer(n)] = "open" /\ bus[n] = "open"
           /\ conn' = [conn EXCEPT ![c].st = "open"]
           /\ Accept(Peer(n), c)
           /\ pub' = [pub EXCEPT ![p].pc = "exchange"]
           /\ UNCHANGED <<dialing, dialed>>
        \/ /\ bus[Peer(n)] = "closed" \/ bus[n] = "closed"
           /\ conn' = Closed(c)
           /\ FinishDial(p, c, Failure, "cooldown")
           /\ UNCHANGED side
  /\ UNCHANGED <<ep, queue, inbox, bus, sub, faults>>

\* The passive side answers, if the connection and its registry are open.
ExchangeAddrsPassive(n, c) == IsOpen(c) /\ bus[n] = "open"

\* It goes on to add the endpoint; on an error it closes the connection.
setupConn(n, c) ==
  /\ side[n][c] = "exchange"
  /\ \/ /\ ExchangeAddrsPassive(n, c)
        /\ conn' = [conn EXCEPT ![c].replied = TRUE]
        /\ side' = [side EXCEPT ![n][c] = "add"]
     \/ /\ ~ExchangeAddrsPassive(n, c)
        /\ conn' = Closed(c)
        /\ side' = [side EXCEPT ![n][c] = "done"]
  /\ UNCHANGED <<ep, dialing, dialed, pub, queue, inbox, bus, sub, faults>>

ExchangeAddrsActive(p) ==
  /\ pub[p].pc = "exchange"
  /\ LET n == NodeOf[p]  c == pub[p].h
     IN \/ /\ conn[c].replied
           /\ side' = [side EXCEPT ![n][c] = "add"]
           /\ pub' = [pub EXCEPT ![p].pc = "adding"]
           /\ UNCHANGED <<conn, dialing, dialed>>
        \/ /\ ~IsOpen(c) /\ ~conn[c].replied
           /\ conn' = Closed(c)
           /\ FinishDial(p, c, Failure, "cooldown")
           /\ UNCHANGED side
  /\ UNCHANGED <<ep, queue, inbox, bus, sub, faults>>

-----------------------------------------------------------------------------
(* addEndpoint, fullEndpoint.replace and delete *)

\* The endpoint of the peer, which is c if there was none.
getOrCreateFullEndpoint(n, c) ==
  [entry |-> IF ep[n] = Nil THEN c ELSE ep[n], created |-> ep[n] = Nil]

\* A new entry, or the compare-and-swap on a nil pointer.
Install(n, c) ==
  /\ side[n][c] = "add"
  /\ LET fe == getOrCreateFullEndpoint(n, c)
     IN /\ ep' = [ep EXCEPT ![n] = fe.entry]
        /\ side' = [side EXCEPT ![n][c] = IF fe.created THEN "loop" ELSE "tie"]
  /\ UNCHANGED <<dialing, dialed, conn, pub, queue, inbox, bus, sub, faults>>

\* Mutant: each node gives up the connection it dialed itself.
LosesOwn(n, c) == conn[c].dialer = n
\* The connection dialed by the node with the lesser address is closed.
Loses(n, c) == (conn[c].dialer = n) = (n < Peer(n))

replace(n, c) ==
  /\ side[n][c] = "tie"
  /\ IF Loses(n, c)
     THEN /\ conn' = Closed(c)
          /\ side' = [side EXCEPT ![n][c] = "lost"]
          /\ UNCHANGED ep
     ELSE /\ ep' = [ep EXCEPT ![n] = c]
          /\ conn' = IF ep[n] = Nil THEN conn ELSE Closed(ep[n])
          /\ side' = [side EXCEPT ![n][c] = "loop"]
  /\ UNCHANGED <<dialing, dialed, pub, queue, inbox, bus, sub, faults>>

\* authenticatedDial returns its endpoint, or the one that won, which is
\* loaded after the tie was decided.
Added(p) ==
  /\ pub[p].pc = "adding"
  /\ LET n == NodeOf[p]  c == pub[p].h
     IN /\ side[n][c] \notin {"add", "tie"}
        /\ FinishDial(p, c, IF side[n][c] = "lost" THEN ep[n] ELSE c, "have")
  /\ UNCHANGED <<ep, conn, side, queue, inbox, bus, sub, faults>>

\* recvLoop: a message for the bus, or the end of the connection.
recvLoop(n, c) ==
  /\ side[n][c] = "loop"
  /\ \/ /\ queue[n][c] # <<>>
        /\ queue' = [queue EXCEPT ![n][c] = Tail(@)]
        /\ dispatchMsgs(n, Head(queue[n][c]))
        /\ UNCHANGED side
     \/ /\ ~IsOpen(c)
        /\ side' = [side EXCEPT ![n][c] = "ended"]
        /\ UNCHANGED <<queue, inbox>>
  /\ UNCHANGED <<ep, dialing, dialed, conn, pub, bus, sub, faults>>

\* The pointer is cleared unless it was replaced.
delete(n, c) ==
  /\ side[n][c] = "ended"
  /\ ep' = IF ep[n] = c THEN [ep EXCEPT ![n] = Nil] ELSE ep
  /\ side' = [side EXCEPT ![n][c] = "done"]
  /\ UNCHANGED <<dialing, dialed, conn, pub, queue, inbox, bus, sub, faults>>

\* The network, or a timeout of the exchange, ends a connection.
Break(c) ==
  /\ faults < MaxFaults /\ IsOpen(c)
  /\ conn' = Closed(c)
  /\ faults' = faults + 1
  /\ UNCHANGED <<ep, dialing, dialed, side, pub, queue, inbox, bus, sub>>

ConnStep(n, c) == \/ setupConn(n, c) \/ Install(n, c) \/ replace(n, c)
                  \/ recvLoop(n, c) \/ delete(n, c)
PubStep(p) == \/ SendOn(p) \/ Retry(p) \/ Get(p) \/ WaitDial(p) \/ Dial(p)
              \/ ExchangeAddrsActive(p) \/ Added(p)

Next ==
  \/ \E n \in Nodes : \/ removeSubscriber(n) \/ BusClose(n)
                      \/ \E c \in Conns : ConnStep(n, c)
  \/ \E p \in Publishers : PubStep(p)
  \/ \E c \in Conns : Break(c)

\* The goroutines of the connections run on, and a dial that was answered; of
\* the rest of a Publish call nothing is asked.
Fairness ==
  /\ \A n \in Nodes : \A c \in Conns : WF_vars(ConnStep(n, c))
  /\ \A p \in Publishers : WF_vars(ExchangeAddrsActive(p))
Spec == Init /\ [][Next]_vars /\ Fairness

-----------------------------------------------------------------------------
(* Properties *)

\* Nothing is being set up, and every connection that was closed is noticed.
Settled ==
  /\ \A n \in Nodes : \A c \in Conns :
       /\ side[n][c] \notin {"exchange", "add", "tie", "ended"}
       /\ side[n][c] = "loop" => IsOpen(c)
  /\ \A p \in Publishers : pub[p].pc \notin {"dial", "exchange", "adding"}

\* Whoever dialed, in whichever order the two dials arrive at the two sides,
\* the registries end up with the same connection, and no other stays open;
\* without a fault there is one.
TieAgreed ==
  Settled => /\ ep[0] = ep[1]
             /\ \A c \in Conns : IsOpen(c) => ep[0] = c
             /\ faults = 0 /\ conn[1].st # "new" => ep[0] # Nil

\* Get returns nil with no error, on which Publish panics, only after a tie
\* was lost on that node to a connection that had ended when it was looked up.
NilOnlyAfterLostTie ==
  \A p \in Publishers : pub[p].pc = "panicked" =>
    \E c \in Conns : conn[c].dialer = NodeOf[p] /\ side[NodeOf[p]][c] = "lost"

Handled(p) == LET n == Peer(NodeOf[p])
              IN p \in inbox[n] \/ sub[n] # "subscribed" \/ bus[n] = "closed"

\* Publish returned nil: the message reaches the subscriber.  It is lost
\* without an error only if the connection broke, a bus was closed, or the
\* connection it was sent on was given up for another one in a tie.
PublishedIsHandled ==
  <>[]\A p \in Publishers : pub[p].pc = "published" =>
    \/ Handled(p) \/ faults > 0
    \/ /\ ~IsOpen(pub[p].h)
       /\ \E c \in Conns : conn[c].dialer # conn[pub[p].h].dialer /\ conn[c].st # "new"
=============================================================================
