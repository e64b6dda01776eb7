----------------------------- MODULE MCTransport -----------------------------
(* Three nodes with the default configuration; or a sender and a receiver  *)
(* with each of several others, the third node being refused.              *)
EXTENDS Transport, TLC

CONSTANTS sender, middle, receiver

None == [x \in {} |-> 0]
Default == [mode |-> [p2p |-> <<"UDP">>, relay |-> <<"UDP", "TCP">>], specify |-> None]
With(p2p, relay, specify) == [mode |-> [p2p |-> p2p, relay |-> relay], specify |-> specify]
For(x, p2p, relay) == [y \in {x} |-> [p2p |-> p2p, relay |-> relay]]

Refused == With(<<"TCP">>, <<"TCP">>, None)

Senders ==
    {Default,
     With(<<>>, <<"UDP">>, None),
     With(<<>>, <<"TCP", "UDP">>, None),
     With(<<"UDP">>, <<"TCP">>, For(receiver, <<>>, <<"UDP">>)),
     With(<<"UDP">>, <<"UDP">>, For(receiver, <<>>, <<"TCP">>))}

UdpOnly == With(<<"UDP">>, <<"UDP">>, None)
TcpReceiver == With(<<>>, <<"TCP">>, None)

MCNode == {sender, middle, receiver}

Pair(s, r) == (sender :> s) @@ (receiver :> r) @@ (middle :> Refused)

MCConfigs ==
    {[n \in MCNode |-> UdpOnly], Pair(Default, TcpReceiver)}
    \cup {Pair(c, Default) : c \in Senders}
=============================================================================
