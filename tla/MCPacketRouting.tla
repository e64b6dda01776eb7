--------------------------- MODULE MCPacketRouting ---------------------------
(* a reaches b directly, by way of c, and by way of c and d; a and c may    *)
(* each think the other one is nearer to b.  a is not to use the relay for  *)
(* b, and everybody else may.                                               *)
EXTENDS PacketRouting

CONSTANTS a, b, c, d, lan

Both == [p2p |-> TRUE, relay |-> <<"UDP", "TCP">>]
ModeOf == [n \in Node |-> IF n = d THEN [Both EXCEPT !.relay = <<"TCP", "UDP">>] ELSE Both]
Special == [n \in Node |-> IF n = a THEN (b :> [p2p |-> TRUE, relay |-> <<>>]) ELSE <<>>]
(* a has "ips" for the network, b has it in "allowed_ips". *)
Routes == [n \in Node |-> [w \in Net |-> IF n \in {a, b} THEN b ELSE NoNode]]
Costs == (<<a, b>> :> 1) @@ (<<a, c>> :> 0) @@ (<<c, a>> :> 0)
         @@ (<<c, b>> :> 0) @@ (<<c, d>> :> 0) @@ (<<d, b>> :> 2)
Links == DOMAIN Costs
FragileLinks == {<<a, b>>, <<c, b>>}
Packets == {<<a, b>>, <<a, lan>>, <<a, Everyone>>}

ASSUME GatewaysAgree
=============================================================================
