----------------------------- MODULE ServerLink -----------------------------
(***************************************************************************)
(* How the server decides whether a node can be reached over UDP           *)
(* (udp_handler in src/src/server/mod.rs): one node, the handle it has in  *)
(* the group, and the datagrams between them.                              *)
(*                                                                         *)
(* The node sits behind a NAT: its heartbeats come from its present public *)
(* address, and only datagrams to that address reach it.  Datagrams are    *)
(* lost, reordered and, if Duplicates, delivered twice.  They live for     *)
(* less than a round of sequence numbers, and at most InFlight are under   *)
(* way at a time: a datagram sent when the network is full is lost.        *)
(***************************************************************************)
EXTENDS HeartbeatCache, FiniteSets

CONSTANTS
    Addr,           \* public addresses the NAT may give the node
    NoAddr,         \* wan_udp_addr = None
    Unavailable,    \* UdpStatus::Unavailable; Available{a} is the address a
    InFlight,       \* bound: datagrams under way
    Sessions,       \* bound: times the node registers
    Duplicates      \* does the network deliver a datagram twice?

ASSUME LinkAssumption ==
    /\ NoAddr \notin Addr
    /\ Unavailable \notin Addr
    /\ InFlight \in Nat \ {0}
    /\ Sessions \in Nat \ {0}
    /\ Duplicates \in BOOLEAN

VARIABLES
    hc,         \* NodeHandle.udp_heartbeat_cache
    status,     \* NodeHandle.udp_status
    wan,        \* wan_udp_addr in NodeHandle.node
    list,       \* heartbeats the schedule has decided on and not sent yet
    net,        \* datagrams under way
    nodeAddr,   \* the node's present public address
    nodeUp,     \* does the node's UDP handler run?
    calm,       \* the network has become good for ever (see GoodNetwork)
    session,    \* how often the node has registered
    rounds      \* history: what became of the newest rounds, newest first

serverVars == <<hc, status, wan, list>>
nodeVars == <<nodeAddr, nodeUp>>
vars == <<hc, status, wan, list, net, nodeAddr, nodeUp, calm, session, rounds>>

(* A heartbeat of the node, and request and response of the server's one.  *)
Datagram ==
    [kind : {"NodeReq"}, addr : Addr, seq : {0}] \cup
    [kind : {"Req", "Resp"}, addr : Addr, seq : Seq32]

NodeReq(a) == [kind |-> "NodeReq", addr |-> a, seq |-> 0]
Req(a, s) == [kind |-> "Req", addr |-> a, seq |-> s]
Resp(a, s) == [kind |-> "Resp", addr |-> a, seq |-> s]

(* A round of this session is lost if no reply is accepted before the next *)
(* one begins.                                                             *)
Unasked == "none"

TypeOK ==
    /\ hc \in Cache
    /\ status \in Addr \cup {Unavailable}
    /\ wan \in Addr \cup {NoAddr}
    /\ list \subseteq [addr : Addr, seq : Seq32]
    /\ net \subseteq Datagram /\ Cardinality(net) <= InFlight
    /\ nodeAddr \in Addr
    /\ nodeUp \in BOOLEAN
    /\ calm \in BOOLEAN
    /\ session \in 1 .. Sessions
    /\ rounds \in [1 .. LossLimit -> {Unasked, "lost", "answered"}]

NoRounds == [i \in 1 .. LossLimit |-> Unasked]

Init ==
    /\ hc = NewCache
    /\ status = Unavailable
    /\ wan = NoAddr
    /\ list = {}
    /\ net = {}
    /\ nodeAddr \in Addr
    /\ nodeUp = TRUE
    /\ calm = FALSE
    /\ session = 1
    /\ rounds = NoRounds

(* The network takes datagram d, or loses it. *)
Send(d, rest) ==
    \/ net' = rest \cup {d} /\ Cardinality(net') <= InFlight
    \/ net' = rest /\ (calm => Cardinality(rest \cup {d}) > InFlight)

(* Datagram d is received; the network may keep another copy of it. *)
Left(d) == IF Duplicates /\ ~calm THEN {net, net \ {d}} ELSE {net \ {d}}

(* In a good network replies come back within the heartbeat interval. *)
RoundOver == list = {} /\ \A d \in net : d.kind # "NodeReq" => d.seq # hc.seq

----------------------------------------------------------------------------
(* One round of heartbeat_schedule under mapping.read(); a node whose      *)
(* public address is unknown is skipped.                                   *)
Heartbeat ==
    /\ wan # NoAddr
    /\ list = {}
    /\ calm => RoundOver
    /\ LET checked == Check(hc)
           pinged == Ping(checked)
       IN
       /\ hc' = pinged
       /\ status' = IF status # Unavailable /\ Overdue(checked) THEN Unavailable ELSE status
       /\ list' = {[addr |-> wan, seq |-> pinged.seq]}
       /\ net' = {d \in net : d.kind = "NodeReq" \/ d.seq # pinged.seq}
    /\ rounds' = [i \in 1 .. LossLimit |-> IF i > 1 THEN rounds[i - 1] ELSE "lost"]
    /\ UNCHANGED <<wan, nodeVars, calm, session>>

(* After the lock, the heartbeats of the round are sent; the address is    *)
(* the one read under the lock.                                            *)
SendHeartbeat ==
    \E p \in list :
        /\ list' = list \ {p}
        /\ Send(Req(p.addr, p.seq), net)
        /\ UNCHANGED <<hc, status, wan, nodeVars, calm, session, rounds>>

(* recv_handler, a request of the node: its public address is recorded.    *)
(* The answer goes to the node and does not come back.                     *)
ReceiveRequest(a) ==
    /\ NodeReq(a) \in net
    /\ net' \in Left(NodeReq(a))
    /\ wan' = a
    /\ UNCHANGED <<hc, status, list, nodeVars, calm, session, rounds>>

(* recv_handler, a response: it must carry the newest sequence number.     *)
ReceiveResponse ==
    \E d \in net : \E left \in Left(d) :
        /\ d.kind = "Resp"
        /\ net' = left
        /\ IF IsReply(hc, d.seq)
           THEN /\ hc' = Reply(hc)
                /\ status' = IF status = Unavailable /\ Steady(hc')
                             THEN d.addr ELSE status
                /\ rounds' = [rounds EXCEPT ![1] = "answered"]
           ELSE UNCHANGED <<hc, status, rounds>>
        /\ UNCHANGED <<wan, list, nodeVars, calm, session>>

(* Mutant: the new handle takes over the status of the former one. *)
RejoinKeepsStatus ==
    /\ session < Sessions
    /\ session' = session + 1
    /\ hc' = NewCache
    /\ wan' = NoAddr
    /\ rounds' = NoRounds
    /\ list' = {p \in list : p.seq # 0}
    /\ net' = {d \in net : d.kind = "NodeReq" \/ d.seq # 0}
    /\ UNCHANGED <<status, nodeVars, calm>>

(* The node registers anew after its connection was dropped: join makes a  *)
(* new handle.  Datagrams of the former session may still be under way,    *)
(* but none that is numbered 0: that takes a session of SeqMod rounds.     *)
Rejoin ==
    /\ session < Sessions
    /\ session' = session + 1
    /\ hc' = NewCache
    /\ status' = Unavailable
    /\ wan' = NoAddr
    /\ rounds' = NoRounds
    /\ list' = {p \in list : p.seq # 0}
    /\ net' = {d \in net : d.kind = "NodeReq" \/ d.seq # 0}
    /\ UNCHANGED <<nodeVars, calm>>

(* The node's own heartbeat to the server. *)
NodeHeartbeat ==
    /\ nodeUp
    /\ Send(NodeReq(nodeAddr), net)
    /\ UNCHANGED <<serverVars, nodeVars, calm, session, rounds>>

(* The node answers a request that reaches it, from its present address. *)
NodeAnswers ==
    \E d \in net : \E left \in Left(d) :
        /\ d.kind = "Req"
        /\ IF nodeUp /\ d.addr = nodeAddr
           THEN Send(Resp(nodeAddr, d.seq), left)
           ELSE net' = left
        /\ UNCHANGED <<serverVars, nodeVars, calm, session, rounds>>

Lose ==
    /\ ~calm
    /\ \E d \in net : net' = net \ {d}
    /\ UNCHANGED <<serverVars, nodeVars, calm, session, rounds>>

(* The NAT forgets the node's mapping and makes another one. *)
Rebind ==
    /\ ~calm
    /\ nodeAddr' \in Addr \ {nodeAddr}
    /\ UNCHANGED <<serverVars, net, nodeUp, calm, session, rounds>>

(* The node's UDP stops working, or works again. *)
NodeFlips ==
    /\ nodeUp' = ~nodeUp
    /\ UNCHANGED <<serverVars, net, nodeAddr, calm, session, rounds>>

(* From here on nothing is lost or slow, and nothing moves. *)
GoodNetwork ==
    /\ ~calm
    /\ calm' = TRUE
    /\ UNCHANGED <<serverVars, net, nodeVars, session, rounds>>

Next ==
    \/ Heartbeat \/ SendHeartbeat \/ ReceiveResponse \/ Rejoin
    \/ \E a \in Addr : ReceiveRequest(a)
    \/ NodeHeartbeat \/ NodeAnswers
    \/ Lose \/ Rebind \/ NodeFlips \/ GoodNetwork

Spec == Init /\ [][Next]_vars

(* The two tasks of the server run for ever, as do the node's.  Nothing    *)
(* else has to happen: datagrams may be lost, the network may stay bad.    *)
Fairness ==
    /\ WF_vars(Heartbeat) /\ WF_vars(SendHeartbeat)
    /\ WF_vars(ReceiveResponse) /\ \A a \in Addr : WF_vars(ReceiveRequest(a))
    /\ SF_vars(NodeHeartbeat) /\ WF_vars(NodeAnswers)

FairSpec == Spec /\ Fairness

----------------------------------------------------------------------------
(* Safety *)

(* A relay over UDP is tried only for a node with a known public address   *)
(* that has been pinged in this session and has not missed LossLimit pings *)
(* in a row: also what makes send_count a safe divisor.                    *)
AvailableIsAlive ==
    status # Unavailable => wan # NoAddr /\ hc.sent /\ ~Overdue(hc)

(* Within a session the node is given up only after LossLimit rounds in    *)
(* which no reply was accepted (udp_heartbeat_continuous_loss).            *)
DownAfterLostRounds ==
    [][status # Unavailable /\ status' = Unavailable /\ session' = session =>
        \A i \in 1 .. LossLimit : rounds[i] = "lost"]_vars

----------------------------------------------------------------------------
(* Liveness *)

(* A node whose UDP is gone for good ends up unavailable, so that relaying *)
(* falls back to TCP, however many late or doubled replies still arrive.   *)
DeadNodeDetected == <>[](~nodeUp) => <>[](status = Unavailable)

(* Once the network is good, a node that runs becomes and stays available. *)
GoodLinkRecovers == <>[](calm /\ nodeUp) => <>[](status # Unavailable)

(* What the documentation promises of relaying (UDP first, TCP instead):   *)
(* once the network is good and nothing moves, a node to which datagrams   *)
(* are relayed gets them.                                                  *)
UdpRelayReachesNode ==
    <>[](calm /\ nodeUp) => <>[](status \in {nodeAddr, Unavailable})
=============================================================================
