----------------------------- MODULE MCRestore ------------------------------
(* Two peers and three channels: a ledger channel with a sub-channel and a  *)
(* virtual channel, or the two ledger channels of a hub and its virtual one. *)
EXTENDS Restore

CONSTANTS p1, p2

MCPeers == {p1, p2}
MCSortedKeys ==
  LET ids == <<"a", "b", "c">>
  IN FlattenSeq([n \in 1..3 |-> [i \in 1..Len(ChannelKeys) |-> <<"Chan", ids[n], ChannelKeys[i]>>]])
     \o FlattenSeq([n \in 1..3 |-> [i \in 1..3 |-> <<"Peer", <<p1, p2, Self>>[n], ids[i]>>]])
MCLayouts ==
  {[peers |-> [a |-> {p1}, b |-> {p1}, c |-> {p2}],
    parent |-> [a |-> None, b |-> "a", c |-> "a"],
    ours |-> [a |-> TRUE, b |-> TRUE, c |-> TRUE]],
   [peers |-> [a |-> {p1}, b |-> {p2}, c |-> {p1, p2}],
    parent |-> [a |-> None, b |-> None, c |-> None],
    ours |-> [a |-> TRUE, b |-> TRUE, c |-> FALSE]]}

\* The two databases agree on every short batch that deletes no absent key.
ASSUME BackendsAgree ==
  LET calls == {[op |-> "put", key |-> k, value |-> v] : k \in {<<1>>, <<2>>}, v \in {1, 2}}
               \cup {[op |-> "delete", key |-> k] : k \in {<<1>>, <<2>>}}
      dbs == UNION {[K -> {0}] : K \in SUBSET {<<1>>, <<2>>}}
  IN \A d \in dbs, b \in UNION {[1..n -> calls] : n \in 0..3} :
       ~MemApplyFails(d, b) => MemApply(d, b) = LevelApply(d, b)
=============================================================================
