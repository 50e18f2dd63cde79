---------------------------- MODULE MCEthBackend ----------------------------
(* Two participants deposit ether, the second a token, too.  The context of *)
(* the first may end once, and it tries again.                              *)
EXTENDS EthBackend

MCDepositor == <<"ETH", "ERC20">>
MCAgreement == <<<<1, 1>>, <<0, 1>>>>
MCOutcome == <<<<2, 0>>, <<0, 1>>>>
MCRegistered == <<{1, 2}, {1}>>
MCMaxFunds == <<2, 1>>
MCMaxCancels == <<1, 0>>
=============================================================================
