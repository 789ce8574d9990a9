------------------------------ MODULE MCWsHub ------------------------------
(* Instances of WsHub for TLC. *)
EXTENDS WsHubProps, TLC

CONSTANTS c1, c2, s1, s2

TwoConns   == {c1, c2}
OneSender  == {s1}
TwoSenders == {s1, s2}
NoSender   == {}

\* Nothing tells the connections apart; only used where no liveness is checked.
Symmetry == Permutations(TwoConns)
=============================================================================
