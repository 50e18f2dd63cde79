------------------------- MODULE MCEndpointRegistry -------------------------
(* Two publishers on one node, so that one waits for the dial of the other, *)
(* and one on the other node, which dials at the same time.                 *)
EXTENDS EndpointRegistry, TLC

CONSTANTS p1, p2, p3
MCPublishers == {p1, p2, p3}
MCNodeOf == (p1 :> 0) @@ (p2 :> 0) @@ (p3 :> 1)
\* Only one publisher has a retry left.
MCFirstAttempt == (p1 :> 2) @@ (p2 :> 2) @@ (p3 :> 1)
=============================================================================
