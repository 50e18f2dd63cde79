------------------------------ MODULE MCRelay ------------------------------
(* Two senders, a receiver for everything and one for the messages of a. *)
EXTENDS Relay

CONSTANTS a, b, all, froma, k1

MCMaxMsgs == (a :> 2) @@ (b :> 1)
MCPred == (all :> Msg) @@ (froma :> {m \in Msg : m.from = a})
MCCached == (k1 :> Msg)
=============================================================================
