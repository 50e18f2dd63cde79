------------------------------ MODULE SortedKV ------------------------------
(***************************************************************************)
(* pkg/sortedkv: a sorted key-value store, its batches, tables and         *)
(* iterators.  A database is a function from its keys to values; a key is  *)
(* a sequence of parts and a table is a database seen through a prefix of  *)
(* keys.  An iterator is the sequence of the pairs it has yet to yield: it *)
(* is taken from the database once, as a snapshot, by both backends.       *)
(*                                                                         *)
(* A batch is the sequence of its calls.  leveldb logs them and applies    *)
(* the log at once.  memorydb collects writes and deletions and applies    *)
(* them key by key, but it dies with the process, so no restart sees half  *)
(* a batch.                                                                *)
(***************************************************************************)
EXTENDS Integers, Sequences, FiniteSets, SequencesExt, Functions, TLC

\* The keys in the order of their bytes.  Names, channel IDs and peer addresses are
\* encoded such that no key is a prefix of another one.
CONSTANT SortedKeys

NewDatabase == <<>>
\* The file holds what was last written.
LoadDatabase(d) == d
Has(d, k) == k \in DOMAIN d
PutKey(d, k, v) == (k :> v) @@ d
\* It is an error to delete a key that is not there; the database stays as it is.
DeleteFails(d, k) == ~Has(d, k)
DeleteKey(d, k) == Restrict(d, DOMAIN d \ {k})

-----------------------------------------------------------------------------
(* Batches *)

NewBatch == <<>>
BatchPut(b, k, v) == Append(b, [op |-> "put", key |-> k, value |-> v])
BatchDelete(b, k) == Append(b, [op |-> "delete", key |-> k])

\* leveldb: the calls in their order; deleting an absent key is no error here.
LevelApply(d, b) ==
  FoldLeft(LAMBDA e, x : IF x.op = "put" THEN PutKey(e, x.key, x.value) ELSE DeleteKey(e, x.key),
           d, b)

\* memorydb: the last call for a key counts,
MemBatch(b) ==
  FoldLeft(LAMBDA e, x :
             IF x.op = "put"
             THEN [writes |-> PutKey(e.writes, x.key, x.value), deletes |-> e.deletes \ {x.key}]
             ELSE [writes |-> DeleteKey(e.writes, x.key), deletes |-> e.deletes \cup {x.key}],
           [writes |-> <<>>, deletes |-> {}], b)
\* and all writes come before the deletions, which end at an absent key.
MemApplyFails(d, b) == \E k \in MemBatch(b).deletes : DeleteFails(d, k)
MemApply(d, b) ==
  LET c == MemBatch(b)
  IN Restrict(c.writes @@ d, (DOMAIN c.writes \cup DOMAIN d) \ c.deletes)

-----------------------------------------------------------------------------
(* Tables *)

pkey(prefix, k) == prefix \o k
TableHas(d, prefix, k) == Has(d, pkey(prefix, k))
\* Every key of a batch of the table gets the prefix.
TableBatch(prefix, b) == [n \in DOMAIN b |-> [b[n] EXCEPT !.key = pkey(prefix, @)]]

-----------------------------------------------------------------------------
(* Iterators *)

NewIteratorWithPrefix(d, prefix) ==
  LET keys == SelectSeq(SortedKeys, LAMBDA k : Has(d, k) /\ IsPrefix(prefix, k))
  IN [n \in DOMAIN keys |-> [key |-> keys[n], value |-> d[keys[n]]]]

\* The iterator of a table does not show the prefix of the table.
newTableIterator(it, prefix) ==
  [n \in DOMAIN it |->
     [it[n] EXCEPT !.key = SubSeq(@, Len(prefix) + 1, Len(@))]]
TableIterator(d, prefix) ==
  newTableIterator(NewIteratorWithPrefix(d, prefix), prefix)
TableIteratorWithPrefix(d, prefix, k) ==
  newTableIterator(NewIteratorWithPrefix(d, pkey(prefix, k)), prefix)

\* What an iterator yields when Next is called up to its end.
IteratorKeys(it) == [n \in DOMAIN it |-> it[n].key]
IteratorValues(it) == [n \in DOMAIN it |-> it[n].value]
=============================================================================
