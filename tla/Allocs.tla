------------------------------- MODULE Allocs -------------------------------
(***************************************************************************)
(* The arithmetic of channel/allocation.go: balances (a row per asset, a   *)
(* column per participant), sub-allocations and the comparisons the        *)
(* protocols make.  Rows and columns are numbered from 1, while the        *)
(* entries of an index map are the 0-based indices of the code.  Cloning a *)
(* value is the identity here, since nothing in a model is shared.         *)
(***************************************************************************)
EXTENDS Integers, Sequences, SequencesExt

CONSTANTS MaxNumAssets, MaxNumParts, MaxNumSubAllocations

NumParts(a) == IF a.Balances = <<>> THEN -1 ELSE Len(a.Balances[1])

SubAllocValid(l) ==
  /\ Len(l.Bals) <= MaxNumAssets
  /\ \A i \in DOMAIN l.Bals : l.Bals[i] >= 0

AllocationValid(a) ==
  /\ a.Assets # <<>> /\ a.Balances # <<>>
  /\ Len(a.Assets) <= MaxNumAssets /\ Len(a.Locked) <= MaxNumSubAllocations
  /\ Len(a.Balances) = Len(a.Assets)
  /\ Len(a.Balances[1]) \in 1..MaxNumParts
  /\ \A i \in DOMAIN a.Balances :
       /\ Len(a.Balances[i]) = Len(a.Balances[1])
       /\ \A j \in DOMAIN a.Balances[i] : a.Balances[i][j] >= 0
  /\ \A i \in DOMAIN a.Locked :
       SubAllocValid(a.Locked[i]) /\ Len(a.Locked[i].Bals) = Len(a.Assets)

-----------------------------------------------------------------------------
(* Balances *)

SameShape(b, c) ==
  Len(b) = Len(c) /\ \A i \in DOMAIN b : Len(b[i]) = Len(c[i])
operate(b, c, Op(_, _)) ==
  [i \in DOMAIN b |-> [j \in DOMAIN b[i] |-> Op(b[i][j], c[i][j])]]
Plus(b, c) == operate(b, c, LAMBDA x, y : x + y)
Minus(b, c) == operate(b, c, LAMBDA x, y : x - y)

SumRow(row) == FoldSeq(LAMBDA x, y : x + y, 0, row)
BalancesSum(b) == [i \in DOMAIN b |-> SumRow(b[i])]
AllocationSum(a) ==
  [i \in DOMAIN a.Balances |->
     SumRow(a.Balances[i])
       + SumRow([k \in DOMAIN a.Locked |-> a.Locked[k].Bals[i]])]
EqualSum(b, c) == Len(b) = Len(c) /\ BalancesSum(b) = BalancesSum(c)

SlicesEqual(a, b) == Len(a) = Len(b) /\ \A i \in DOMAIN a : a[i] = b[i]
BalancesAssertEqual(a, b) ==
  Len(a) = Len(b) /\ \A i \in DOMAIN a : SlicesEqual(a[i], b[i])
AssertGreaterOrEqual(b, c) ==
  SameShape(b, c) /\ \A i \in DOMAIN b : \A j \in DOMAIN b[i] : b[i][j] >= c[i][j]
AssetsAssertEqual(a, b) == Len(a) = Len(b) /\ \A i \in DOMAIN a : a[i] = b[i]

\* Participant p of the virtual channel is indexMap[p] in the parent; where
\* two have the same entry the later one overwrites the earlier.
transformBalances(b, numParts, indexMap) ==
  LET last(q) == {p \in DOMAIN indexMap :
                    /\ indexMap[p] + 1 = q
                    /\ \A r \in DOMAIN indexMap : indexMap[r] + 1 = q => r <= p}
  IN [a \in DOMAIN b |-> [q \in 1..numParts |->
        IF last(q) = {} THEN 0 ELSE b[a][CHOOSE p \in last(q) : TRUE]]]

-----------------------------------------------------------------------------
(* Sub-allocations *)

NewSubAlloc(id, bals, indexMap) ==
  [ID |-> id, Bals |-> bals, IndexMap |-> indexMap]

indexMapEqual(a, b) == Len(a) = Len(b) /\ \A i \in DOMAIN a : a[i] = b[i]

\* The index map of s is compared with itself.
SubAllocEqual(s, t) ==
  /\ s.ID = t.ID
  /\ SlicesEqual(s.Bals, t.Bals)
  /\ indexMapEqual(s.IndexMap, s.IndexMap)
SubAllocsAssertEqual(a, b) ==
  Len(a) = Len(b) /\ \A i \in DOMAIN a : SubAllocEqual(a[i], b[i])

HasSubAlloc(a, id) == \E i \in DOMAIN a.Locked : a.Locked[i].ID = id
SubAlloc(a, id) ==
  a.Locked[SelectInSeq(a.Locked, LAMBDA l : l.ID = id)]
AddSubAlloc(a, l) == [a EXCEPT !.Locked = Append(@, l)]
RemoveSubAlloc(a, l) ==
  [a EXCEPT !.Locked = RemoveFirstMatch(@, LAMBDA k : SubAllocEqual(l, k))]

AllocationEqual(a, b) ==
  /\ AssetsAssertEqual(a.Assets, b.Assets)
  /\ BalancesAssertEqual(a.Balances, b.Balances)
  /\ SubAllocsAssertEqual(a.Locked, b.Locked)
=============================================================================
