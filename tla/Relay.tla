------------------------------- MODULE Relay -------------------------------
(***************************************************************************)
(* The message relay of a client: wire/relay.go with its cache             *)
(* (wire/cache.go), the receivers that subscribe to it (wire/receiver.go)  *)
(* and the bus that puts messages into it (wire/localbus.go).              *)
(*                                                                         *)
(* Every peer is a goroutine that publishes its messages one after the     *)
(* other.  Relay.Put holds the read lock from PutBegin to its last step;   *)
(* everything that needs the write lock is one action and waits until no   *)
(* Put is under way.  The cache is written under the read lock: cache.Put  *)
(* is a read step and a write step, and two of them may overlap.           *)
(***************************************************************************)
EXTENDS Naturals, Sequences, FiniteSets, SequencesExt

CONSTANTS
    Peers,          \* the senders
    MaxMsgs,        \* bound: MaxMsgs[p] is how many messages p publishes
    Receivers,      \* the receivers that may subscribe
    Pred,           \* Pred[c]: the messages the predicate of receiver c accepts
    CachePreds,     \* the predicates the cache may be given
    Cached,         \* Cached[k]: the messages cache predicate k accepts
    BufferSize      \* receiverBufferSize

Msg == UNION {[from : {p}, n : 1..MaxMsgs[p]] : p \in Peers}

ASSUME RelayAssumption ==
    /\ MaxMsgs \in [Peers -> Nat] /\ BufferSize \in Nat \ {0}
    /\ Pred \in [Receivers -> SUBSET Msg]
    /\ Cached \in [CachePreds -> SUBSET Msg]

VARIABLES
    bus,        \* localBusReceiver of the client: none, placeholder, subscribed
    relay,      \* isClosed and the lists of the relay and of its cache
    expired,    \* the cache predicates whose context is done
    recv,       \* recv[c]: buffer and closed flag of a receiver
    put,        \* put[p]: the Publish call of peer p
    feed,       \* feed[c]: what the goroutine of Subscribe still has to put
    deleting,   \* the receivers with a pending goroutine go p.delete(c)
    got,        \* got[c]: what Next of receiver c returned
    history     \* accepted by the cache, raced with another cache.Put, panicked

vars == <<bus, relay, expired, recv, put, feed, deleting, got, history>>

idle == [pc |-> "idle", n |-> 0]

Init ==
    /\ bus = "none"
    /\ relay = [status |-> "open", consumers |-> <<>>, msgs |-> <<>>, preds |-> {}]
    /\ expired = {}
    /\ recv = [c \in Receivers |-> [buf |-> <<>>, closed |-> FALSE]]
    /\ put = [p \in Peers |-> idle]
    /\ feed = [c \in Receivers |-> <<>>]
    /\ deleting = {}
    /\ got = [c \in Receivers |-> <<>>]
    /\ history = [accepted |-> {}, raced |-> {}, panicked |-> FALSE]

isClosed == relay.status # "open"

\* Who holds the read lock.
readers == {p \in Peers : put[p].pc \in {"delivering", "caching"}}

caching == {p \in Peers : put[p].pc = "caching"}

message(p) == [from |-> p, n |-> put[p].n]

\* What the loops over the consumers and over the cached messages collect: the
\* elements of s that are in S, in their order.
filter(s, S) ==
    LET f[i \in 0..Len(s)] ==
          IF i = 0 THEN <<>>
          ELSE IF s[i] \in S THEN Append(f[i - 1], s[i]) ELSE f[i - 1]
    IN  f[Len(s)]

-----------------------------------------------------------------------------
(* Receiver *)

\* Mutant: Put waits for room only.
ReceiverPutBlocking(c, m) ==
    /\ Len(recv[c].buf) < BufferSize
    /\ recv' = [recv EXCEPT ![c].buf = Append(@, m)]

\* Receiver.Put: the message is queued or the receiver is closed; with a full
\* buffer it blocks.
ReceiverPut(c, m) ==
    \/ /\ Len(recv[c].buf) < BufferSize
       /\ recv' = [recv EXCEPT ![c].buf = Append(@, m)]
    \/ recv[c].closed /\ UNCHANGED recv

Receive(c) ==
    /\ ~recv[c].closed
    /\ recv[c].buf # <<>>
    /\ got' = [got EXCEPT ![c] = Append(@, Head(recv[c].buf))]
    /\ recv' = [recv EXCEPT ![c].buf = Tail(@)]
    /\ UNCHANGED <<bus, relay, expired, put, feed, deleting, history>>

\* Closer.Close of a receiver: the callback that Subscribe registered starts
\* a goroutine that deletes the subscription.
CloseReceiver(c) ==
    /\ ~recv[c].closed
    /\ recv' = [recv EXCEPT ![c].closed = TRUE]
    /\ deleting' = IF c \in Range(relay.consumers) THEN deleting \cup {c} ELSE deleting
    /\ UNCHANGED <<bus, relay, expired, put, feed, got, history>>

-----------------------------------------------------------------------------
(* Bus *)

\* LocalBus.Publish up to the wait for the recipient.
Publish(p) ==
    /\ put[p].pc = "idle" /\ put[p].n < MaxMsgs[p]
    /\ bus' = IF bus = "none" THEN "placeholder" ELSE bus
    /\ put' = [put EXCEPT ![p] = [pc |-> "publishing", n |-> @.n + 1]]
    /\ UNCHANGED <<relay, expired, recv, feed, deleting, got, history>>

\* The context of Publish ended before the recipient subscribed.
PublishFails(p) ==
    /\ put[p].pc = "publishing"
    /\ put' = [put EXCEPT ![p].pc = "idle"]
    /\ UNCHANGED <<bus, relay, expired, recv, feed, deleting, got, history>>

SubscribeClient ==
    /\ ~isClosed /\ bus # "subscribed"
    /\ bus' = "subscribed"
    /\ UNCHANGED <<relay, expired, recv, put, feed, deleting, got, history>>

-----------------------------------------------------------------------------
(* Relay.Put *)

return(p) == [put EXCEPT ![p] = [pc |-> "idle", n |-> @.n]]

\* A peer that holds the entry of a relay that was closed since still puts
\* into it.
PutBegin(p) ==
    /\ put[p].pc = "publishing"
    /\ bus = "subscribed" \/ isClosed
    /\ put' = IF isClosed
                THEN return(p)
                ELSE LET to == filter(relay.consumers,
                                      {c \in Receivers : message(p) \in Pred[c]})
                     IN  [put EXCEPT ![p] = [pc |-> "delivering", n |-> @.n,
                                             todo |-> to, any |-> to # <<>>]]
    /\ UNCHANGED <<bus, relay, expired, recv, feed, deleting, got, history>>

\* Mutant: every message is put by a goroutine of its own.
PutConsumerAsync(p) ==
    /\ put[p].pc = "delivering" /\ put[p].todo # <<>>
    /\ feed' = [feed EXCEPT ![Head(put[p].todo)] = <<message(p)>> \o @]
    /\ put' = [put EXCEPT ![p].todo = Tail(@)]
    /\ UNCHANGED <<bus, relay, expired, recv, deleting, got, history>>

PutConsumer(p) ==
    /\ put[p].pc = "delivering" /\ put[p].todo # <<>>
    /\ ReceiverPut(Head(put[p].todo), message(p))
    /\ put' = [put EXCEPT ![p].todo = Tail(@)]
    /\ UNCHANGED <<bus, relay, expired, feed, deleting, got, history>>

PutDone(p) ==
    /\ put[p].pc = "delivering" /\ put[p].todo = <<>> /\ put[p].any
    /\ put' = return(p)
    /\ UNCHANGED <<bus, relay, expired, recv, feed, deleting, got, history>>

\* cache.Put: the message list and the active predicates are read ...
CacheRead(p) ==
    /\ put[p].pc = "delivering" /\ put[p].todo = <<>> /\ ~put[p].any
    /\ LET active == relay.preds \ expired IN
       put' = [put EXCEPT ![p] =
                [pc |-> "caching", n |-> @.n, msgs |-> relay.msgs, preds |-> active,
                 hit |-> \E k \in active : message(p) \in Cached[k]]]
    /\ history' = [history EXCEPT !.raced = @ \cup
                     IF caching = {} THEN {} ELSE {message(q) : q \in caching \cup {p}}]
    /\ UNCHANGED <<bus, relay, expired, recv, feed, deleting, got>>

\* ... and written.  A message that no active predicate accepts goes to the
\* default handler, which logs it.
CacheWrite(p) ==
    /\ put[p].pc = "caching"
    /\ relay' = [relay EXCEPT
                   !.preds = put[p].preds,
                   !.msgs = IF put[p].hit THEN Append(put[p].msgs, message(p)) ELSE @]
    /\ history' = [history EXCEPT !.accepted =
                     IF put[p].hit THEN @ \cup {message(p)} ELSE @]
    /\ put' = return(p)
    /\ UNCHANGED <<bus, expired, recv, feed, deleting, got>>

-----------------------------------------------------------------------------
(* What needs the write lock *)

\* Relay.Cache
Cache(k) ==
    /\ readers = {} /\ ~isClosed
    /\ k \notin relay.preds \cup expired
    /\ relay' = [relay EXCEPT !.preds = @ \cup {k}]
    /\ UNCHANGED <<bus, expired, recv, put, feed, deleting, got, history>>

CacheExpires(k) ==
    /\ k \in relay.preds
    /\ expired' = expired \cup {k}
    /\ UNCHANGED <<bus, relay, recv, put, feed, deleting, got, history>>

\* Mutant: cache.Get empties the cache.
CacheGetAll(c) ==
    [matches |-> filter(relay.msgs, Pred[c]), rest |-> <<>>]

CacheGet(c) ==
    [matches |-> filter(relay.msgs, Pred[c]),
     rest    |-> filter(relay.msgs, Msg \ Pred[c])]

\* A closed relay or a closed consumer makes Subscribe return an error.
Subscribe(c) ==
    /\ readers = {} /\ ~isClosed
    /\ ~recv[c].closed
    /\ c \notin Range(relay.consumers)
    /\ relay' = [relay EXCEPT !.consumers = Append(@, c), !.msgs = CacheGet(c).rest]
    /\ feed' = [feed EXCEPT ![c] = CacheGet(c).matches]
    /\ UNCHANGED <<bus, expired, recv, put, deleting, got, history>>

\* The goroutine of Subscribe.
FeedCached(c) ==
    /\ feed[c] # <<>>
    /\ ReceiverPut(c, Head(feed[c]))
    /\ feed' = [feed EXCEPT ![c] = Tail(@)]
    /\ UNCHANGED <<bus, relay, expired, put, deleting, got, history>>

\* The last consumer takes the place of the deleted one.
without(s, c) ==
    LET i == CHOOSE j \in DOMAIN s : s[j] = c
    IN  SubSeq([s EXCEPT ![i] = s[Len(s)]], 1, Len(s) - 1)

\* Mutant: delete does not look whether the relay was closed meanwhile.
DeleteUnchecked(c) ==
    LET found == c \in Range(relay.consumers) IN
    /\ c \in deleting /\ readers = {}
    /\ deleting' = deleting \ {c}
    /\ relay' = IF found THEN [relay EXCEPT !.consumers = without(@, c)] ELSE relay
    /\ history' = [history EXCEPT !.panicked = @ \/ ~found]
    /\ UNCHANGED <<bus, expired, recv, put, feed, got>>

Delete(c) ==
    LET found == c \in Range(relay.consumers) IN
    /\ c \in deleting /\ readers = {}
    /\ deleting' = deleting \ {c}
    /\ relay' = IF ~isClosed /\ found
                  THEN [relay EXCEPT !.consumers = without(@, c)] ELSE relay
    /\ history' = [history EXCEPT !.panicked = @ \/ (~isClosed /\ ~found)]
    /\ UNCHANGED <<bus, expired, recv, put, feed, got>>

\* Relay.Close: first the Closer, whose callback takes the client off the bus,
CloseRelay ==
    /\ ~isClosed
    /\ relay' = [relay EXCEPT !.status = "closing"]
    /\ bus' = IF bus = "subscribed" THEN "none" ELSE bus
    /\ UNCHANGED <<expired, recv, put, feed, deleting, got, history>>

\* then, with the lock, the lists.
Flush ==
    /\ relay.status = "closing" /\ readers = {}
    /\ relay' = [relay EXCEPT !.status = "closed", !.consumers = <<>>, !.msgs = <<>>,
                              !.preds = IF relay.msgs = <<>> THEN @ ELSE {}]
    /\ UNCHANGED <<bus, expired, recv, put, feed, deleting, got, history>>

-----------------------------------------------------------------------------
PutStep(p) == PutBegin(p) \/ PutConsumer(p) \/ PutDone(p) \/ CacheRead(p) \/ CacheWrite(p)

Next ==
    \/ \E p \in Peers : Publish(p) \/ PublishFails(p) \/ PutStep(p)
    \/ \E k \in CachePreds : Cache(k) \/ CacheExpires(k)
    \/ \E c \in Receivers : \/ Receive(c) \/ CloseReceiver(c) \/ Subscribe(c)
                            \/ FeedCached(c) \/ Delete(c)
    \/ SubscribeClient \/ CloseRelay \/ Flush

Spec == Init /\ [][Next]_vars

\* A context ends, Put goes on unless a receiver blocks it, and a receiver is
\* read or closed in the end: the client's request loop reads until it is
\* closed, and who waits for a response closes its receiver when it returns.
Fairness ==
    /\ \A p \in Peers : WF_vars(PublishFails(p) \/ PutBegin(p))
                        /\ WF_vars(PutStep(p))
    /\ \A c \in Receivers : WF_vars(Receive(c) \/ CloseReceiver(c))

FairSpec == Spec /\ Fairness

-----------------------------------------------------------------------------
(* Properties *)

\* What a receiver got, in the order it was put.
arrived(c) == got[c] \o recv[c].buf

\* A message the cache has taken is still there, on its way to the subscriber
\* that asked for it, or was handed to one that closed, as long as the relay
\* is open and no other cache.Put ran at the same time (Relay.Put holds only
\* the read lock while it writes to the cache).
KeptUnlessRaced ==
    ~isClosed =>
        \A m \in history.accepted \ history.raced :
            \/ m \in Range(relay.msgs)
            \/ \E c \in Receivers : \/ m \in Range(arrived(c) \o feed[c])
                                    \/ recv[c].closed /\ m \in Pred[c]

\* The messages of one sender arrive in the order it sent them, except that
\* one that was in the cache may be overtaken (the goroutine of Subscribe).
OrderedUnlessCached ==
    \A c \in Receivers : \A i, j \in DOMAIN arrived(c) :
        LET x == arrived(c)[i]  y == arrived(c)[j] IN
        i < j /\ x.from = y.from /\ x.n > y.n => y \in history.accepted

\* The panic "deleted consumer that was not subscribed" of Relay.delete is
\* unreachable, also when receiver and relay are closed at the same time.
NeverPanics == ~history.panicked

\* Publish returns: a full receiver blocks Relay.Put, which holds the read
\* lock, only until it is read or closed.
PutReturns == \A p \in Peers : put[p].pc # "idle" ~> put[p].pc = "idle"
=============================================================================
