---------------------------- MODULE MCSubChannel ----------------------------
(* The proposer finalises the sub-channel and settles it twice, the         *)
(* proposee makes one call on either channel and settles; the watchers of   *)
(* both register the parent.                                                *)
EXTENDS SubChannel

MCParentBals == <<1, 1>>
MCOptions == [nonce |-> "n"]
MCSubBals == <<0, 1>>
U(c, kind) == [op |-> "update", ch |-> c, kind |-> kind]
S(c) == [op |-> "settle", ch |-> c, kind |-> "all"]
MCCalls == <<<<{U(Sub, "final")}, {S(Sub)}, {S(Sub)}>>,
             <<{U(Parent, "pay"), U(Sub, "final"), S(Parent)}, {S(Sub)}>>>>
=============================================================================
