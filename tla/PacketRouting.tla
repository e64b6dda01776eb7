---------------------------- MODULE PacketRouting ----------------------------
(***************************************************************************)
(* How a packet finds its way through one group: send_packet, send and     *)
(* find_next_hop of the nodes (src/src/node/mod.rs), the relay of the      *)
(* server (src/src/server/mod.rs), and the peers_map by which nodes learn  *)
(* what the others can reach.                                              *)
(*                                                                         *)
(* One packet is on its way at a time, maybe in several copies; what it    *)
(* leaves behind are the cached next hops.  All nodes know each other.     *)
(* The status of a link is what its end believes, and datagrams sent over  *)
(* an available link arrive, or are lost by Lose.  The cost of a link,     *)
(* latency.as_secs() / 100 + packet_loss / 5, does not change.  Packet     *)
(* hooks, the user-space NAT, flow control (see FlowControl) and datagrams *)
(* the socket refuses are left out.                                        *)
(***************************************************************************)
EXTENDS Integers, Sequences, SequencesExt, FiniteSetsExt, Functions, TLC

CONSTANTS
    Node,           \* the nodes, by their virtual addresses
    Net,            \* networks behind nodes
    Gateway,        \* node -> network -> gateway its routing table has for it: the
                    \* node itself by allowed_ips, another one by ips, or NoNode
    Mode,           \* node -> mode: [p2p, relay], see Modes
    SpecifyMode,    \* node -> some other nodes -> mode
    Forwards,       \* the nodes with allow_packet_forward
    ToKernel,       \* those with allow_packet_not_in_rules_send_to_kernel
    AutoRoute,      \* those with auto_route_selection, which have a peers_map
    Allowed,        \* {"TCP" | allow_tcp_relay} \cup {"UDP" | allow_udp_relay}
    Link,           \* the pairs of nodes the first of which may reach the second
    Cost,           \* link -> normalized latency plus normalized packet loss
    Traffic,        \* the pairs of source and destination of packets
    Fragile,        \* bound: the links that may go down and up
    Restless,       \* bound: the nodes whose connections may
    MaxChanges,     \* bound: changes of links and connections, and lost packets
    Everyone,       \* the broadcast address
    NoNode, NoEntry, NoHop, NoPacket

Proto == {"TCP", "UDP"}
(* The tasks of a node that have a cache of next hops: those that read the *)
(* TUN device and those that read the sockets, one of each kind here.      *)
Sender == {"tun", "recv"}
Hop == [next : Node, cost : Nat]

Modes == [p2p : BOOLEAN, relay : Seq(Proto)]

ASSUME RoutingAssumption ==
    /\ IsFiniteSet(Node)
    /\ Node \cap Net = {} /\ Everyone \notin Node \cup Net
    /\ NoNode \notin Node \cup {Everyone}
    /\ Link \subseteq {l \in Node \X Node : l[1] # l[2]}
    /\ Cost \in [Link -> Nat]
    /\ Gateway \in [Node -> [Net -> Node \cup {NoNode}]]
    /\ Fragile \subseteq Link /\ Restless \subseteq Node
    /\ Traffic \subseteq Node \X (Node \cup Net \cup {Everyone})
    /\ Mode \in [Node -> Modes]
    /\ \A n \in Node : \A d \in DOMAIN SpecifyMode[n] : SpecifyMode[n][d] \in Modes
    /\ Forwards \subseteq Node /\ ToKernel \subseteq Node /\ AutoRoute \subseteq Node
    /\ Allowed \subseteq Proto
    /\ MaxChanges \in Nat
    /\ NoHop \notin Hop /\ NoEntry \notin Hop \cup {NoHop}
    /\ NoPacket \notin Traffic

(* Whoever has a gateway for a network that some node offers has that node *)
(* as its gateway, or offers the network itself.                           *)
GatewaysAgree ==
    \A n, m \in Node, w \in Net :
        Gateway[m][w] = m => Gateway[n][w] \in {n, m, NoNode}

VARIABLES
    up,         \* the links whose udp_status is Available
    connected,  \* the nodes with server_is_connected
    reached,    \* the nodes whose UDP link with the server is Available
    full,       \* the nodes whose channels to and from the server are full
    uploaded,   \* node -> its peers_status at the server: the peers it reaches
    peers,      \* node -> its peers_map, the uploads it has fetched
    cache,      \* node -> sender -> destination -> its entry in next_route
    packet,     \* source and destination of the present packet
    flying,     \* its copies that are under way
    received,   \* node -> copies its TUN device has been given
    dropped,    \* a node or the server had a copy and no way to send it on
    changes     \* how many changes there have been

linkVars == <<up, connected, reached, full, changes>>
peerVars == <<uploaded, peers>>
packetVars == <<packet, flying, received, dropped>>
vars == <<linkVars, peerVars, cache, packetVars>>

(* A copy is on its way to the node or, for that node, to the server. *)
Copy == [via : {"p2p"} \cup Proto, from : Node, to : Node, atServer : BOOLEAN]

TypeOK ==
    /\ up \subseteq Link
    /\ connected \subseteq Node /\ reached \subseteq Node /\ full \subseteq Node
    /\ uploaded \in [Node -> SUBSET Node]
    /\ peers \in [Node -> [Node -> SUBSET Node]]
    /\ \A n \in Node, s \in Sender, d \in Node :
            cache[n][s][d] \in [next : Node \ {n}, cost : Nat] \cup {NoHop, NoEntry}
    /\ packet \in Traffic \cup {NoPacket}
    /\ flying \subseteq Copy
    /\ received \in [Node -> Nat]
    /\ dropped \in BOOLEAN
    /\ changes \in 0 .. MaxChanges

Init ==
    /\ up = Link /\ connected = Node /\ reached = Node /\ full = {}
    /\ uploaded = [n \in Node |-> {}]
    /\ peers = [n \in Node |-> [m \in Node |-> {}]]
    /\ cache = [n \in Node |-> [s \in Sender |-> [d \in Node |-> NoEntry]]]
    /\ packet = NoPacket
    /\ flying = {}
    /\ received = [n \in Node |-> 0]
    /\ dropped = FALSE
    /\ changes = 0

----------------------------------------------------------------------------
(* The peers_map *)

ModeFor(n, d) == IF d \in DOMAIN SpecifyMode[n] THEN SpecifyMode[n][d] ELSE Mode[n]

(* What update_peers_schedule reports. *)
Reports(n) ==
    {m \in Node : <<n, m>> \in up /\ (m \in DOMAIN SpecifyMode[n] => SpecifyMode[n][m].p2p)}

Upload(n) ==
    /\ n \in connected \cap Forwards
    /\ Mode[n].p2p
    /\ uploaded' = [uploaded EXCEPT ![n] = Reports(n)]
    /\ UNCHANGED <<linkVars, peers, cache, packetVars>>

(* Without a tunnel there is no report, and one of ten seconds ago is not  *)
(* given out any more.                                                     *)
Forget(n) ==
    /\ n \notin connected
    /\ uploaded' = [uploaded EXCEPT ![n] = {}]
    /\ UNCHANGED <<linkVars, peers, cache, packetVars>>

(* Mutant: the answer is added to the map instead of replacing it. *)
FetchMerges(n) ==
    /\ n \in connected \cap AutoRoute
    /\ peers' = [peers EXCEPT ![n] = [m \in Node |-> @[m] \cup uploaded[m]]]
    /\ UNCHANGED <<linkVars, uploaded, cache, packetVars>>

(* FetchPeers is asked for every thirty seconds. *)
Fetch(n) ==
    /\ n \in connected \cap AutoRoute
    /\ peers' = [peers EXCEPT ![n] = uploaded]
    /\ UNCHANGED <<linkVars, uploaded, cache, packetVars>>

----------------------------------------------------------------------------
(* The next hop: dijkstra of the pathfinding crate, and the cache *)

Path == {p \in UNION {[1 .. k -> Node] : k \in 2 .. Cardinality(Node)} : IsInjective(p)}

PathCost(p) == MapThenSumSet(LAMBDA i : Cost[<<p[i], p[i + 1]>>], 1 .. Len(p) - 1)

Leads(p, n, d, map) ==
    /\ p[1] = n /\ Last(p) = d
    /\ \A i \in 1 .. Len(p) - 1 : p[i + 1] \in map[p[i]]

(* Dijkstra's algorithm reaches the neighbours of its start before all     *)
(* others, and only a lower cost makes it reach a node another way.        *)
NoDetour(p, map) ==
    \A i \in 3 .. Len(p) :
        p[i] \in map[p[1]] => Cost[<<p[1], p[i]>>] > PathCost(SubSeq(p, 1, i))

(* Mutant: the route starts with the node itself. *)
NextHopsOffByOne(n, d, map) ==
    LET paths == {p \in Path : Leads(p, n, d, map)}
    IN  IF paths = {} THEN {NoHop} ELSE {[next |-> p[1], cost |-> PathCost(p)] : p \in paths}

NextHops(n, d, map) ==
    LET paths == {p \in Path : Leads(p, n, d, map)}
        least == Min({PathCost(p) : p \in paths})
    IN  IF paths = {} THEN {NoHop}
        ELSE {[next |-> p[2], cost |-> least] :
                p \in {q \in paths : PathCost(q) = least /\ NoDetour(q, map)}}

(* find_next_hop: an entry is good for sixty seconds. *)
FindNextHop(n, s, d) ==
    IF cache[n][s][d] # NoEntry THEN {cache[n][s][d]} ELSE NextHops(n, d, peers[n])

(* relay_packet_through_node! *)
ThroughNode(n, h, maxCost) == h # NoHop /\ h.cost < maxCost /\ <<n, h.next>> \in up

(* The first protocol of the list that is usable now. *)
FirstUsable(list, usable) ==
    LET able == {i \in DOMAIN list : list[i] \in usable}
    IN  IF able = {} THEN {} ELSE {list[Min(able)]}

UsableByNode(n) ==
    Allowed \ ((IF n \in full THEN {"TCP"} ELSE {}) \cup (IF n \in reached THEN {} ELSE {"UDP"}))

UsableByServer(d) ==
    (IF d \in full THEN {} ELSE {"TCP"}) \cup (IF d \in reached THEN {"UDP"} ELSE {})

RelayProto(n, d) ==
    IF Mode[d].relay = <<>> THEN {} ELSE FirstUsable(ModeFor(n, d).relay, UsableByNode(n))

SupportP2p(n, d) == ModeFor(n, d).p2p /\ Mode[d].p2p

SentDirectly(n, d) == SupportP2p(n, d) /\ <<n, d>> \in up

Datagram(n, m) == [via |-> "p2p", from |-> n, to |-> m, atServer |-> FALSE]
ToServer(n, d, np) == [via |-> np, from |-> n, to |-> d, atServer |-> TRUE]

(* send: the copy that leaves, if one does.  h is the next hop found, and  *)
(* NoHop where none is looked for.                                         *)
Sent(n, d, h) ==
    IF SentDirectly(n, d) THEN {Datagram(n, d)}
    ELSE IF ThroughNode(n, h, 2) THEN {Datagram(n, h.next)}
    ELSE IF RelayProto(n, d) # {} THEN {ToServer(n, d, np) : np \in RelayProto(n, d)}
    ELSE IF ThroughNode(n, h, 5) THEN {Datagram(n, h.next)}
    ELSE {}

Looks(n, d) == n \in AutoRoute /\ SupportP2p(n, d) /\ ~SentDirectly(n, d)

(* send_packet hands a packet for d to send: left are the copies there     *)
(* were beside it.                                                         *)
SendTo(n, s, d, left) ==
    \E h \in IF Looks(n, d) THEN FindNextHop(n, s, d) ELSE {NoHop} :
        /\ cache' = IF Looks(n, d) THEN [cache EXCEPT ![n][s][d] = h] ELSE cache
        /\ flying' = left \cup Sent(n, d, h)
        /\ dropped' = (dropped \/ Sent(n, d, h) = {})

----------------------------------------------------------------------------
(* Packets *)

(* find_route: the node that is to have the packet. *)
RouteOf(n, dst) == IF dst \in Net THEN Gateway[n][dst] ELSE dst

ToTun(n) == received' = [received EXCEPT ![n] = @ + 1]

Originate(n, dst) ==
    /\ packet = NoPacket
    /\ n \in connected
    /\ packet' = <<n, dst>>
    /\ \/ /\ dst = Everyone
          /\ flying' = UNION {Sent(n, d, NoHop) : d \in Node \ {n}}
          /\ dropped' = (\E d \in Node \ {n} : Sent(n, d, NoHop) = {})
          /\ UNCHANGED cache
       \/ /\ RouteOf(n, dst) \notin {n, NoNode, Everyone}
          /\ SendTo(n, "tun", RouteOf(n, dst), {})
    /\ UNCHANGED <<linkVars, peerVars, received>>

Arrived(f) == f \in flying /\ ~f.atServer

(* A node without the server's word drops what it is sent. *)
Deaf(f) ==
    /\ Arrived(f) /\ f.to \notin connected
    /\ RouteOf(f.to, packet[2]) # NoNode
    /\ flying' = flying \ {f} /\ dropped' = TRUE
    /\ UNCHANGED <<linkVars, peerVars, cache, packet, received>>

Deliver(f) ==
    /\ Arrived(f) /\ f.to \in connected
    /\ RouteOf(f.to, packet[2]) \in {f.to, Everyone}
    /\ ToTun(f.to)
    /\ flying' = flying \ {f}
    /\ UNCHANGED <<linkVars, peerVars, cache, packet, dropped>>

Forward(f) ==
    LET next == RouteOf(f.to, packet[2]) IN
    /\ Arrived(f) /\ f.to \in connected
    /\ next \notin {f.to, Everyone, NoNode}
    /\ IF f.to \in Forwards
       THEN SendTo(f.to, "recv", next, flying \ {f})
       ELSE flying' = flying \ {f} /\ dropped' = TRUE /\ UNCHANGED cache
    /\ UNCHANGED <<linkVars, peerVars, packet, received>>

NoRoute(f) ==
    /\ Arrived(f) /\ RouteOf(f.to, packet[2]) = NoNode
    /\ IF f.to \in ToKernel
       THEN ToTun(f.to) /\ UNCHANGED dropped
       ELSE dropped' = TRUE /\ UNCHANGED received
    /\ flying' = flying \ {f}
    /\ UNCHANGED <<linkVars, peerVars, cache, packet>>

(* Mutant: the server goes on after a protocol that has taken the packet. *)
ServerRelayNoBreak(f) ==
    LET given == IF f.to \in connected
                 THEN UsableByServer(f.to) \cap ToSet(Mode[f.to].relay) ELSE {}
    IN
    /\ f \in flying /\ f.atServer
    /\ flying' = (flying \ {f}) \cup
                    {[f EXCEPT !.via = np, !.atServer = FALSE] : np \in given}
    /\ dropped' = (dropped \/ given = {})
    /\ UNCHANGED <<linkVars, peerVars, cache, packet, received>>

(* The server hands a packet to the first protocol of the addressee that   *)
(* can take it now.                                                        *)
ServerRelay(f) ==
    LET given == IF f.to \in connected
                 THEN FirstUsable(Mode[f.to].relay, UsableByServer(f.to)) ELSE {}
    IN
    /\ f \in flying /\ f.atServer
    /\ flying' = (flying \ {f}) \cup
                    {[f EXCEPT !.via = np, !.atServer = FALSE] : np \in given}
    /\ dropped' = (dropped \/ given = {})
    /\ UNCHANGED <<linkVars, peerVars, cache, packet, received>>

(* Nothing is left of the packet: the next one may come. *)
Finish ==
    /\ packet # NoPacket /\ flying = {}
    /\ packet' = NoPacket
    /\ received' = [n \in Node |-> 0]
    /\ dropped' = FALSE
    /\ UNCHANGED <<linkVars, peerVars, cache, flying>>

(* Mutant: an entry is renewed when it is used. *)
CacheExpiresUnused(n, s, d) ==
    /\ cache[n][s][d] # NoEntry /\ packet = NoPacket
    /\ cache' = [cache EXCEPT ![n][s][d] = NoEntry]
    /\ UNCHANGED <<linkVars, peerVars, packetVars>>

CacheExpires(n, s, d) ==
    /\ cache[n][s][d] # NoEntry
    /\ cache' = [cache EXCEPT ![n][s][d] = NoEntry]
    /\ UNCHANGED <<linkVars, peerVars, packetVars>>

----------------------------------------------------------------------------
(* What happens to links, connections and packets *)

Toggled(S, e) == IF e \in S THEN S \ {e} ELSE S \cup {e}

Change == changes < MaxChanges /\ changes' = changes + 1

LinkChanges(l) ==
    /\ Change
    /\ up' = Toggled(up, l)
    /\ UNCHANGED <<connected, reached, full, peerVars, cache, packetVars>>

ConnectionChanges(n) ==
    /\ Change
    /\ \/ connected' = Toggled(connected, n) /\ UNCHANGED <<reached, full>>
       \/ reached' = Toggled(reached, n) /\ UNCHANGED <<connected, full>>
       \/ full' = Toggled(full, n) /\ UNCHANGED <<connected, reached>>
    /\ UNCHANGED <<up, peerVars, cache, packetVars>>

Lose(f) ==
    /\ Change
    /\ flying' = flying \ {f}
    /\ UNCHANGED <<up, connected, reached, full, peerVars, cache, packet, received, dropped>>

Handle(f) == Deaf(f) \/ Deliver(f) \/ Forward(f) \/ NoRoute(f) \/ ServerRelay(f)

Next ==
    \/ \E t \in Traffic : Originate(t[1], t[2])
    \/ \E f \in flying : Handle(f) \/ Lose(f)
    \/ Finish
    \/ \E n \in Node : Upload(n) \/ Forget(n) \/ Fetch(n)
    \/ \E n, d \in Node, s \in Sender : CacheExpires(n, s, d)
    \/ \E l \in Fragile : LinkChanges(l)
    \/ \E n \in Restless : ConnectionChanges(n)

(* Uploads, fetches and expiry are timers, and a packet that has arrived   *)
(* is read; nothing says that anybody sends one.                           *)
Fairness ==
    /\ WF_vars(\E f \in flying : Handle(f))
    /\ WF_vars(Finish)
    /\ \A n \in Node : WF_vars(Forget(n))
    /\ \A n \in Forwards : WF_vars(Upload(n))
    /\ \A n \in AutoRoute :
        /\ WF_vars(Fetch(n))
        /\ \A s \in Sender, d \in Node \ {n} : WF_vars(CacheExpires(n, s, d))

Spec == Init /\ [][Next]_vars /\ Fairness

----------------------------------------------------------------------------
(* Whom a packet is for: everybody else, the node, or the node its sender  *)
(* has as the gateway to the network.                                      *)
Addressees ==
    IF packet[2] = Everyone THEN Node \ {packet[1]}
    ELSE {RouteOf(packet[1], packet[2])}

(* send, send_packet and the relay of the server hand a packet on once:    *)
(* however the packet is routed, forwarded and relayed, each of those it   *)
(* is for is given it at most once, and no other node but one that hands   *)
(* unknown packets to its kernel.                                          *)
GivenOnce ==
    \A n \in Node :
        /\ received[n] <= 1
        /\ packet # NoPacket /\ received[n] > 0 => n \in Addressees \cup ToKernel

(* A forwarded packet has no hop limit, find_next_hop of each node decides *)
(* anew.  No packet travels for ever: nodes with peers_maps and next hops of *)
(* different ages may pass it in a circle, but not without end.            *)
NoPacketCirclesForEver == (packet # NoPacket) ~> (packet = NoPacket)

----------------------------------------------------------------------------
(* What the nodes and the server promise of a packet from one node to      *)
(* another, once they know how the links are.                              *)
LivePath(n, d, maxCost) ==
    \E p \in Path :
        /\ Leads(p, n, d, [m \in connected \cap Forwards |-> Reports(m)] @@
                          [m \in Node |-> {}])
        /\ PathCost(p) < maxCost

Promised(n, d) ==
    /\ {n, d} \subseteq connected
    /\ \/ SentDirectly(n, d)
       \/ Looks(n, d) /\ LivePath(n, d, 2)
       \/ IF RelayProto(n, d) # {}
          THEN FirstUsable(Mode[d].relay, UsableByServer(d)) # {}
          ELSE Looks(n, d) /\ LivePath(n, d, 5)

(* When the links stay as they are, there comes a time after which no      *)
(* packet is dropped on a way that is open: the stale next hops, reports   *)
(* and peers_maps that drop it are all replaced.                           *)
NodesGetTheirs ==
    \A t \in Traffic :
        t[2] \in Node => <>[](packet = t /\ Promised(t[1], t[2]) => ~dropped)

=============================================================================
