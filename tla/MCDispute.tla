------------------------------ MODULE MCDispute ------------------------------
(***************************************************************************)
(* Small instances of Dispute.                                             *)
(***************************************************************************)
EXTENDS Dispute

CONSTANTS
    a, b,           \* the two participants
    Total,          \* the assets in the channel
    MaxVersion      \* bound: the highest version anybody asks for

MCParts == {a, b}

\* Everything is with a: b can pay only what it received before.
MCInitBals == [p \in MCParts |-> IF p = a THEN Total ELSE 0]

Pays(k) == [p \in MCParts |-> IF p = a THEN Total - k ELSE k]

\* Of every version a state in which a has paid everything to b, and a final
\* one in which nobody has paid: two conflicting states of the same version.
MCProposals ==
    UNION {{[version |-> v, bals |-> Pays(Total), isFinal |-> FALSE],
            [version |-> v, bals |-> Pays(0), isFinal |-> TRUE]} : v \in 1..MaxVersion}
=============================================================================
