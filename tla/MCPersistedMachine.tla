------------------------- MODULE MCPersistedMachine -------------------------
(***************************************************************************)
(* Small instances of PersistedMachine.                                    *)
(***************************************************************************)
EXTENDS PersistedMachine

CONSTANTS
    other,          \* the peer
    MaxVersion      \* bound: the highest version anybody asks for

MCParts == {me, other}
MCInitBals == [p \in MCParts |-> 1]

Pays(k) == [p \in MCParts |-> IF p = me THEN k ELSE 2 - k]

\* Two different ways to pay per version, and a final state.
MCCandidates ==
    {[version |-> v, bals |-> Pays(k), isFinal |-> FALSE] :
        v \in 1..MaxVersion, k \in 0..1}
      \cup
    {[version |-> v, bals |-> Pays(1), isFinal |-> TRUE] : v \in 1..MaxVersion}
=============================================================================
