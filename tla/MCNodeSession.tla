---------------------------- MODULE MCNodeSession ----------------------------
(* Two nodes, both with automatic addresses or one with a tun_addr, and a  *)
(* server whose range may move by one host.                                *)
EXTENDS NodeSession

CONSTANTS m, n

Low == {1, 2}
High == {2, 3}
LowAndHigh == {Low, High}
Hosts == {1, 2, 3}

BothAuto == [x \in Node |-> None]
OneManual == [BothAuto EXCEPT ![m] = [addr |-> 1, cidr |-> Low]]
AnyConfig == {BothAuto, OneManual}
=============================================================================
