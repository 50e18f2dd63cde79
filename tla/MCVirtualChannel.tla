-------------------------- MODULE MCVirtualChannel --------------------------
(* Two ends and their hub; participant 1 can pay once. *)
EXTENDS VirtualChannel

MCParentBals == <<<<1, 1>>, <<1, 1>>>>
MCVirtualBals == <<1, 1>>
Maps(a, b) == [maps |-> <<a, b>>, opts |-> <<>>]
\* Right; the hub in place of one participant only; two participants in one
\* place; a place that does not exist, which only an unequal agreement admits.
MCRequests ==
  {Maps(<<0, 1>>, <<1, 0>>), Maps(<<0, 1>>, <<0, 1>>), Maps(<<0, 1>>, <<0, 0>>),
   Maps(<<0, 1>>, <<1, 2>>),
   [maps |-> <<<<0, 1>>, <<1, 2>>>>, opts |-> [fundingAgreement |-> <<<<2, 0>>>>]]}
=============================================================================
