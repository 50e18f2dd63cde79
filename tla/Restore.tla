------------------------------ MODULE Restore -------------------------------
(***************************************************************************)
(* The channels of a client through restarts: the key-value persister and  *)
(* restorer, and Client.Restore.  Channels are created, written and        *)
(* removed next to each other; a crash comes between any two batches.      *)
(* After a restart every peer's channels are restored by a goroutine of    *)
(* its own, while the user already works with the restored ones.           *)
(*                                                                         *)
(* A value in the database has the key it was encoded for, so that a value *)
(* decoded for another key is an error, and the version of the write.  What *)
(* the phases of one channel write is in PersistedMachine.                 *)
(***************************************************************************)
EXTENDS SortedKV

CONSTANTS
  None,
  Peers,     \* the peers other than the client itself
  Layouts,   \* the channels a client may have: peers, parent, own account
  MaxWrites, \* bound on the updates of channels
  MaxCrashes

VARIABLES
  layout,   \* the channels (constant in a behaviour)
  db,       \* the database
  writer,   \* writer[c]: the batches of c's call that are still to be applied
  created,  \* the channels that were opened
  registry, \* registry[c]: version of the data of the registered channel
  restore,  \* restore[p]: the goroutine that restores p's channels
  up,       \* whether the process runs
  crashes, writes,
  funded,   \* the channels that are locked in the persisted state of their parent
  cut,      \* what was interrupted so far (history): "open", "settle" and "remove"
  panicked  \* restoring has panicked (history)

vars == <<layout, db, writer, created, registry, restore, up, crashes, writes,
          funded, cut, panicked>>

Channels == DOMAIN layout.peers
Self == "self"
AllPeers(c) == layout.peers[c] \cup {Self}
Children(c) == {x \in Channels : layout.parent[x] = c}
\* The keys of a channel in their order.  The index and the peers are written and
\* deleted with the parameters, the signatures are one key.
SigKeys == <<"staging:sig">>
ChannelKeys == <<"current", "params", "parent", "phase">> \o SigKeys \o <<"staging:state">>

NoWriter == [op |-> "none", todo |-> <<>>, tree |-> <<>>, locked |-> {}]
NoRestore == [pc |-> "none", ids |-> <<>>, its |-> <<>>, data |-> <<>>, put |-> {}]

Init ==
  /\ layout \in Layouts
  /\ db = NewDatabase
  /\ writer = [c \in Channels |-> NoWriter]
  /\ created = {} /\ registry = <<>>
  /\ restore = [p \in Peers |-> NoRestore]
  /\ up = TRUE /\ crashes = 0 /\ writes = 0
  /\ funded = {} /\ cut = {} /\ panicked = FALSE

-----------------------------------------------------------------------------
(* The batches of the persister *)

channelDB(c) == <<"Chan", c>>
peerChannelKey(p, c) == <<p, c>>
Value(c, k, v) == [ch |-> c, of |-> k, ver |-> v]

\* dbPutSource: the given keys with the data of version v.
dbPutSource(c, keys, v) ==
  TableBatch(channelDB(c),
    FoldSeq(LAMBDA k, b : BatchPut(b, <<k>>, Value(c, k, v)), NewBatch, keys))
PeerBatch(c, Op(_, _)) ==
  FoldSet(LAMBDA p, b : Op(b, peerChannelKey(p, c)), NewBatch, AllPeers(c))

ChannelCreated(c) ==
  <<dbPutSource(c, ChannelKeys, 0),
    TableBatch(<<"Peer">>, PeerBatch(c, LAMBDA b, k : BatchPut(b, k, "")))>>

\* The key "parent" stays.
ChannelRemoved(c) ==
  <<TableBatch(channelDB(c),
      FoldSeq(LAMBDA k, b : BatchDelete(b, <<k>>), NewBatch,
              SelectSeq(ChannelKeys, LAMBDA k : k # "parent"))),
    TableBatch(<<"Peer">>, PeerBatch(c, BatchDelete))>>

Staged(c, v) == dbPutSource(c, <<"staging:state", "phase">>, v)
SigAdded(c, v) == dbPutSource(c, SigKeys, v)
Enabled(c, v) == dbPutSource(c, <<"staging:state", "current", "phase">> \o SigKeys, v)
PhaseChanged(c, v) == dbPutSource(c, <<"phase">>, v)

-----------------------------------------------------------------------------
(* Calls of the client *)

Idle(c) == writer[c] = NoWriter
Restoring == \E p \in Peers : restore[p].pc \notin {"none", "done", "failed"}
Registered(c) == c \in DOMAIN registry
\* Nobody holds the mutex of c.
Free(c) == Idle(c) /\ \A x \in Channels : c \notin writer[x].locked

\* A channel is opened after the client was restored; a channel with a parent while
\* the parent's mutex is held.  The last batch is that of SetFunded.
Open(c) ==
  /\ up /\ ~Restoring /\ c \notin created /\ Idle(c)
  /\ layout.parent[c] # None => Registered(layout.parent[c]) /\ Free(layout.parent[c])
  /\ created' = created \cup {c}
  /\ writer' = [writer EXCEPT ![c] =
       [op |-> "create", todo |-> Append(ChannelCreated(c), PhaseChanged(c, 0)), tree |-> <<>>,
        locked |-> {layout.parent[c]} \ {None}]]
  /\ UNCHANGED <<layout, db, registry, restore, up, crashes, writes, funded, cut, panicked>>

\* The update of the parent that locks the funds is enabled,
AwaitsParent(c) ==
  /\ up /\ writer[c].op = "create" /\ Len(writer[c].todo) = 1
  /\ layout.parent[c] # None /\ c \notin funded
Fund(c) ==
  /\ AwaitsParent(c)
  /\ funded' = funded \cup {c}
  /\ UNCHANGED <<layout, db, writer, created, registry, restore, up, crashes, writes, cut, panicked>>
\* or it fails: the channel is given up and stays in the database.
FundFails(c) ==
  /\ AwaitsParent(c)
  /\ writer' = [writer EXCEPT ![c] = NoWriter]
  /\ cut' = cut \cup {"open"}
  /\ UNCHANGED <<layout, db, created, registry, restore, up, crashes, writes, funded, panicked>>

\* A call of the persister that is one batch; the channel has the data then.
Update(c) ==
  LET v == writes + 1
  IN /\ up /\ Registered(c) /\ Free(c) /\ v <= MaxWrites
     /\ \E b \in {Staged(c, v), SigAdded(c, v), Enabled(c, v), PhaseChanged(c, v)} :
          writer' = [writer EXCEPT ![c] =
                       [NoWriter EXCEPT !.op = "update", !.todo = <<b>>]]
     /\ registry' = [registry EXCEPT ![c] = v]
     /\ writes' = v
     /\ UNCHANGED <<layout, db, created, restore, up, crashes, funded, cut, panicked>>

\* Settle holds the mutexes of the channel and of the channels its state locks,
\* which must be registered.  The funds of a channel with a parent are withdrawn by
\* an update of the parent; then all are set to Withdrawn from the root to the leaves.
\* Mutants: the children are not locked, or they are forgotten.
SettleUnlocked(c) ==
  LET children == Children(c) \cap funded
  IN /\ up /\ Registered(c) /\ Free(c)
     /\ funded' = funded \ {c}
     /\ writer' = [writer EXCEPT ![c] =
          [op |-> "remove", todo |-> ChannelRemoved(c), tree |-> SetToSeq(children),
           locked |-> {c}]]
     /\ UNCHANGED <<layout, db, created, registry, restore, up, crashes, writes, cut, panicked>>
SettleAlone(c) ==
  /\ up /\ Registered(c) /\ Free(c)
  /\ funded' = funded \ {c}
  /\ writer' = [writer EXCEPT ![c] =
       [op |-> "remove", todo |-> ChannelRemoved(c), tree |-> <<>>, locked |-> {c}]]
  /\ UNCHANGED <<layout, db, created, registry, restore, up, crashes, writes, cut, panicked>>

Settle(c) ==
  LET children == Children(c) \cap funded
  IN /\ up /\ Registered(c) /\ Free(c)
     /\ \A x \in children : Registered(x) /\ Free(x)
     /\ layout.parent[c] # None => Registered(layout.parent[c]) /\ Free(layout.parent[c])
     /\ funded' = funded \ {c}
     /\ writer' = [writer EXCEPT ![c] =
          [op |-> "remove", todo |-> ChannelRemoved(c), tree |-> SetToSeq(children),
           locked |-> {c} \cup children]]
     /\ UNCHANGED <<layout, db, created, registry, restore, up, crashes, writes, cut, panicked>>

\* The next batch.  An opened channel is registered; a settled one is followed by
\* its children, and then all are closed.
ApplyNext(c) ==
  LET w == writer[c]
      done == Len(w.todo) = 1 /\ w.tree = <<>>
  IN /\ up /\ w.todo # <<>> /\ ~AwaitsParent(c)
     /\ db' = LevelApply(db, Head(w.todo))
     /\ writer' = [writer EXCEPT ![c] =
          IF done THEN NoWriter
          ELSE IF Len(w.todo) > 1 THEN [w EXCEPT !.todo = Tail(@)]
          ELSE [w EXCEPT !.todo = ChannelRemoved(Head(w.tree)), !.tree = Tail(@)]]
     /\ registry' = IF done /\ w.op = "create" THEN (c :> 0) @@ registry
                    ELSE IF done /\ w.op = "remove"
                      THEN Restrict(registry, DOMAIN registry \ w.locked)
                    ELSE registry
     /\ funded' = IF w.op = "remove" THEN funded \ w.locked ELSE funded
     /\ UNCHANGED <<layout, created, restore, up, crashes, writes, cut, panicked>>

\* The process dies and with it everything but the database.
Die ==
  /\ up' = FALSE /\ registry' = <<>>
  /\ writer' = [c \in Channels |-> NoWriter]
  /\ restore' = [p \in Peers |-> NoRestore]
  /\ cut' = cut \cup UNION {
       CASE writer[c].op = "create" -> {"open"}
         [] writer[c].op = "remove" ->
              {"settle"} \cup (IF Len(writer[c].todo) = 1 THEN {"remove"} ELSE {})
         [] OTHER -> {} : c \in Channels}
  /\ UNCHANGED <<layout, db, created, writes, funded>>
Crash ==
  /\ up /\ crashes < MaxCrashes
  /\ crashes' = crashes + 1
  /\ Die /\ UNCHANGED panicked

-----------------------------------------------------------------------------
(* Restoring *)

ActivePeers ==
  {k[1] : k \in Range(IteratorKeys(TableIterator(db, <<"Peer">>)))}

\* Client.Restore skips the own address.
RestoreClient ==
  /\ ~up /\ up' = TRUE
  /\ db' = LoadDatabase(db)
  /\ restore' = [p \in Peers |->
       [NoRestore EXCEPT !.pc = IF p \in ActivePeers THEN "peer" ELSE "done"]]
  /\ UNCHANGED <<layout, writer, created, registry, crashes, writes, funded, cut, panicked>>

SetRestore(p, r) ==
  /\ restore' = [restore EXCEPT ![p] = r]
  /\ UNCHANGED <<layout, db, writer, created, up, crashes, writes, funded, cut, panicked>>

\* RestorePeer reads the IDs of the peer's channels and then opens an iterator
\* for each.
RestorePeer(p) ==
  LET keys == IteratorKeys(TableIterator(db, <<"Peer", p>>))
  IN /\ up /\ restore[p].pc = "peer"
     /\ SetRestore(p, [restore[p] EXCEPT !.pc = "iterators",
                         !.ids = [n \in DOMAIN keys |-> keys[n][1]]])
     /\ UNCHANGED registry
NewIterator(p) ==
  LET r == restore[p]
  IN /\ up /\ r.pc = "iterators"
     /\ IF r.ids = <<>> THEN SetRestore(p, [r EXCEPT !.pc = "next"])
        ELSE SetRestore(p, [r EXCEPT !.ids = Tail(@),
               !.its = Append(@, TableIteratorWithPrefix(db, <<"Chan">>, <<Head(r.ids)>>))])
     /\ UNCHANGED registry

\* decodeNext, key by key: the value must be one for the key at its position.
Decodes(it) == [n \in DOMAIN it |-> it[n].value.of] = ChannelKeys
\* The optional ID under the key "parent".
OptChannelID(v) == layout.parent[v.ch]
Channel(it) ==
  LET v == IteratorValues(it)
  IN [id |-> v[1].ch, ver |-> Max({x.ver : x \in Range(v)}), parent |-> OptChannelID(v[3])]

\* Mutant: the end of the first iterator ends the iteration.
NextOnce(p) ==
  LET r == restore[p]
  IN /\ up /\ r.pc = "next"
     /\ \/ Len(r.data) = 1 /\ SetRestore(p, [r EXCEPT !.pc = "put"])
        \/ /\ r.data = <<>> /\ Decodes(Head(r.its))
           /\ SetRestore(p, [r EXCEPT !.its = Tail(@), !.data = <<Channel(Head(r.its))>>])
     /\ UNCHANGED registry

\* ChannelIterator.Next: an error ends the restoring of the peer.  No iterator is
\* empty, since the key "parent" stays.
NextChannel(p) ==
  LET r == restore[p]
  IN /\ up /\ r.pc = "next"
     /\ \/ r.its = <<>> /\ SetRestore(p, [r EXCEPT !.pc = "put"])
        \/ /\ r.its # <<>> /\ Decodes(Head(r.its))
           /\ SetRestore(p, [r EXCEPT !.its = Tail(@), !.data = Append(@, Channel(Head(r.its)))])
        \/ /\ r.its # <<>> /\ ~Decodes(Head(r.its))
           /\ SetRestore(p, [NoRestore EXCEPT !.pc = "failed"])
     /\ UNCHANGED registry

\* reconstructChannel needs the parent in the same collection and the account.
Reconstructible(data, ch) ==
  /\ ch.parent # None => \E x \in Range(data) : x.id = ch.parent
  /\ layout.ours[ch.id]

\* restoreChannelCollection, in any order: a registered channel stays.
restoreChannelCollection(p) ==
  LET r == restore[p]
  IN /\ up /\ r.pc = "put"
     /\ \/ \E ch \in Range(r.data) :
             /\ ch.id \notin r.put /\ Reconstructible(r.data, ch)
             /\ registry' = registry @@ (ch.id :> ch.ver)
             /\ SetRestore(p, [r EXCEPT !.put = @ \cup {ch.id}])
        \/ /\ r.put = {ch.id : ch \in Range(r.data)}
           /\ SetRestore(p, [r EXCEPT !.pc = "done"]) /\ UNCHANGED registry

\* A channel without its parent, or without its account, panics.
reconstructPanics(p) ==
  /\ up /\ restore[p].pc = "put" /\ crashes < MaxCrashes
  /\ \E ch \in Range(restore[p].data) : ~Reconstructible(restore[p].data, ch)
  /\ panicked' = TRUE /\ crashes' = crashes + 1
  /\ Die

-----------------------------------------------------------------------------

Next ==
  \/ \E c \in Channels : Open(c) \/ Fund(c) \/ FundFails(c) \/ Update(c) \/ Settle(c) \/ ApplyNext(c)
  \/ \E p \in Peers : \/ RestorePeer(p) \/ NewIterator(p) \/ NextChannel(p)
                       \/ restoreChannelCollection(p) \/ reconstructPanics(p)
  \/ Crash \/ RestoreClient
Spec == Init /\ [][Next]_vars

-----------------------------------------------------------------------------
(* Properties *)

\* What RestoreChannel would read.
RestoreChannel(c) == TableIteratorWithPrefix(db, <<"Chan">>, <<c>>)

\* A peer whose channels were restored without an error has all of them in the
\* registry that decode and are not being opened or settled: an error in the middle
\* of the iterators is not taken for their end.  A channel that was given up when its
\* funding failed stays out of it until the next restart.
NilMeansRestored ==
  \A c \in Channels :
    /\ up /\ Free(c) /\ Decodes(RestoreChannel(c))
    /\ \E p \in layout.peers[c] :
         restore[p].pc = "done" /\ TableHas(db, <<"Peer">>, peerChannelKey(p, c))
    /\ c \notin funded => "open" \notin cut
    => Registered(c)

\* A registered channel has the data of the database, and no channel comes back
\* from an iterator that was opened before it was written or removed.
RegisteredIsCurrent ==
  \A c \in DOMAIN registry :
    Free(c) => Decodes(RestoreChannel(c)) /\ registry[c] = Channel(RestoreChannel(c)).ver

\* Restoring a peer fails only after a crash between the two batches of
\* ChannelRemoved: whatever else was interrupted, all of its channels decode.
FailsOnlyAfterCutRemoval == (\E p \in Peers : restore[p].pc = "failed") => "remove" \in cut

\* Restoring panics only where a channel may be without its parent: a virtual channel
\* (its parent is a channel with another peer), the virtual channel of a hub, or a
\* sub-channel when opening or settling one was interrupted.
PanicsOnlyWithoutParent ==
  panicked => \/ cut \cap {"open", "settle"} # {}
              \/ \E c \in created : \/ ~layout.ours[c]
                                    \/ /\ layout.parent[c] # None
                                       /\ layout.peers[c] # layout.peers[layout.parent[c]]

\* Restoring a peer's channels fails, or takes the client down, in these cases only.
RestoreGoesWrongOnlyAsNamed == FailsOnlyAfterCutRemoval /\ PanicsOnlyWithoutParent
=============================================================================
