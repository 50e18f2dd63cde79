-------------------------- MODULE MCUpdateProtocol --------------------------
(***************************************************************************)
(* Small instances of UpdateProtocol.                                      *)
(***************************************************************************)
EXTENDS UpdateProtocol

CONSTANTS
    a, b,           \* the two participants
    Total,          \* the assets in the channel
    MaxVersion      \* bound: the highest version anybody asks for

MCParts == {a, b}

\* Everything is with a: b can pay only what it received before.
MCInitBals == [p \in MCParts |-> IF p = a THEN Total ELSE 0]

Pays(k) == [p \in MCParts |-> IF p = a THEN Total - k ELSE k]

\* The users ask for legal and for illegal states: wrong versions, a negative
\* balance and an allocation that creates assets.
Illegal == {Pays(Total + 1), [p \in MCParts |-> Total]}

MCProposals ==
    [version : 1..MaxVersion, bals : {Pays(k) : k \in 0..Total}, isFinal : BOOLEAN]
        \cup [version : {1}, bals : Illegal, isFinal : {FALSE}]
=============================================================================
