------------------------------ MODULE PeerLink ------------------------------
(***************************************************************************)
(* How a node decides whether it can reach another node directly           *)
(* (udp_handler in src/src/node/mod.rs): the entry of one peer in          *)
(* node_list, the heartbeat task, the receiving tasks, and the datagrams   *)
(* between the two nodes.                                                  *)
(*                                                                         *)
(* The entry's counters, status and peer address are shared between the    *)
(* old and the new list when a node map arrives, so one copy stands for    *)
(* all.  The network is the one of ServerLink: it loses and reorders, a    *)
(* datagram lives for less than a round of sequence numbers, and at most   *)
(* InFlight are under way.  The peer answers every ping that reaches it    *)
(* and keeps nothing of it, so a ping and its response are one datagram    *)
(* that is under way as long as both.                                      *)
(***************************************************************************)
EXTENDS HeartbeatCache, FiniteSets

CONSTANTS
    Lan, Wan,       \* lan_udp_addr of the peer, and its public address
    Other,          \* further addresses its datagrams may come from
    Virtuals,       \* sets of addresses the routing table may send into the tunnel
    NoAddr,         \* None
    Unavailable,    \* UdpStatus::Unavailable; Available{a} is the address a
    Receiver,       \* the tasks running recv_handler (two in the code), numbered
    InFlight        \* bound: datagrams under way

Addr == {Lan, Wan} \cup Other

ASSUME PeerAssumption ==
    /\ NoAddr \notin Addr
    /\ Unavailable \notin Addr
    /\ Virtuals \subseteq SUBSET Addr
    /\ Receiver \subseteq Nat
    /\ InFlight \in Nat \ {0}

VARIABLES
    connected,  \* Interface.server_is_connected
    listed,     \* is the peer in node_list?
    wan,        \* wan_udp_addr of the peer in the newest node map
    hc,         \* ExtendedNode.hc
    status,     \* ExtendedNode.udp_status
    peerAddr,   \* ExtendedNode.peer_addr
    task,       \* where heartbeat_schedule is in its round for the peer
    loaded,     \* the status it loaded before taking the lock, until used
    targets,    \* the addresses it still has to send the round's ping to
    storing,    \* receiver -> the address it is about to make Available
    net,        \* responses under way, or the pings they answer
    virtual,    \* the addresses the routing table sends into the tunnel
    reach,      \* the addresses at which the peer can be reached now
    rounds      \* history: what became of the newest rounds, newest first

entryVars == <<hc, status, peerAddr>>
taskVars == <<task, loaded, targets>>
mapVars == <<connected, listed, wan>>
worldVars == <<virtual, reach>>
vars == <<connected, listed, wan, hc, status, peerAddr, task, loaded, targets,
          storing, net, virtual, reach, rounds>>

Resp(a, s) == [addr |-> a, seq |-> s]
Datagram == [addr : Addr, seq : Seq32]

Unasked == "unasked"
NoRounds == [i \in 1 .. LossLimit |-> Unasked]

TypeOK ==
    /\ connected \in BOOLEAN /\ listed \in BOOLEAN
    /\ wan \in {Wan, NoAddr}
    /\ hc \in Cache
    /\ status \in Addr \cup {Unavailable}
    /\ peerAddr \in Addr \cup {NoAddr}
    /\ task \in {"sleep", "lock", "send"}
    /\ loaded \in Addr \cup {Unavailable}
    /\ targets \subseteq Addr
    /\ storing \in [Receiver -> Addr \cup {NoAddr}]
    /\ net \subseteq Datagram /\ Cardinality(net) <= InFlight
    /\ virtual \in Virtuals
    /\ reach \subseteq Addr
    /\ rounds \in [1 .. LossLimit -> {Unasked, "lost", "answered"}]

(* Mutant: the status of a former entry survives in a new one. *)
FreshEntryKeepsStatus ==
    /\ hc' = NewCache
    /\ peerAddr' = NoAddr
    /\ rounds' = NoRounds
    /\ UNCHANGED status

(* A node new to the list has an entry of its own. *)
FreshEntry ==
    /\ hc' = NewCache
    /\ status' = Unavailable
    /\ peerAddr' = NoAddr
    /\ rounds' = NoRounds

Init ==
    /\ connected = TRUE
    /\ listed = TRUE
    /\ wan = NoAddr
    /\ hc = NewCache
    /\ status = Unavailable
    /\ peerAddr = NoAddr
    /\ task = "sleep"
    /\ loaded = Unavailable
    /\ targets = {}
    /\ storing = [r \in Receiver |-> NoAddr]
    /\ net = {}
    /\ virtual \in Virtuals
    /\ reach \in SUBSET Addr
    /\ rounds = NoRounds

(* A ping to address a, answered if the peer is reached there. *)
SendPing(a) ==
    LET answered == net \cup {Resp(a, hc.seq)} IN
    net' = IF a \in reach /\ Cardinality(answered) <= InFlight THEN answered ELSE net

----------------------------------------------------------------------------
(* heartbeat_schedule, one round for the peer.  The status is loaded...    *)
HeartbeatLoad ==
    /\ connected /\ listed
    /\ task = "sleep"
    /\ loaded' = status
    /\ task' = "lock"
    /\ UNCHANGED <<mapVars, entryVars, targets, storing, net, worldVars, rounds>>

(* Mutant: only the public address is tried. *)
TargetsWanOnly(over) == IF loaded # Unavailable /\ ~over THEN {loaded} ELSE {wan}

(* The ping goes to the address in use, or to all the addresses known that *)
(* are not reached through the tunnel itself (through_virtual_gateway).    *)
Targets(over) ==
    IF loaded # Unavailable /\ ~over
    THEN {loaded}
    ELSE ({Lan, wan, peerAddr} \ {NoAddr}) \ virtual

(* A peer that has missed too many pings is given up. *)
CheckedStatus(over) == IF over /\ loaded # Unavailable THEN Unavailable ELSE status

(* ... then, under the lock of the counters, the last ping is checked and  *)
(* the next one is made, unless the peer's public address is unknown.      *)
HeartbeatCheck ==
    LET checked == Check(hc)
        over == Overdue(checked)
    IN
    /\ task = "lock"
    /\ status' = CheckedStatus(over)
    /\ \/ /\ wan = NoAddr
          /\ hc' = checked
          /\ task' = "sleep"
          /\ UNCHANGED <<targets, net, rounds>>
       \/ /\ wan # NoAddr
          /\ hc' = Ping(checked)
          /\ targets' = Targets(over)
          /\ task' = IF targets' = {} THEN "sleep" ELSE "send"
          /\ net' = {d \in net : d.seq # hc'.seq}
          /\ rounds' = [i \in 1 .. LossLimit |-> IF i > 1 THEN rounds[i - 1] ELSE "lost"]
    /\ loaded' = Unavailable
    /\ UNCHANGED <<mapVars, peerAddr, storing, worldVars>>

HeartbeatSend ==
    /\ task = "send"
    /\ \E a \in targets :
        /\ targets' = targets \ {a}
        /\ SendPing(a)
        /\ task' = IF targets' = {} THEN "sleep" ELSE "send"
    /\ UNCHANGED <<mapVars, entryVars, loaded, storing, worldVars, rounds>>

(* recv_handler, a request of the peer: where it came from is remembered,  *)
(* late or not.  The answer to it is the peer's concern.                   *)
ReceiveRequest(a) ==
    /\ listed
    /\ peerAddr' = a
    /\ UNCHANGED <<mapVars, hc, status, taskVars, storing, net, worldVars, rounds>>

(* recv_handler, a response, under the lock of the counters.  If the peer  *)
(* becomes available, the lock is dropped first...  Idle tasks are alike,  *)
(* so the first of them may as well be the one that gets the datagram.     *)
ReceiveResponse(r) ==
    /\ storing[r] = NoAddr
    /\ \A q \in Receiver : q < r => storing[q] # NoAddr
    /\ \E d \in net :
        /\ net' = net \ {d}
        /\ IF listed /\ IsReply(hc, d.seq)
           THEN /\ hc' = Reply(hc)
                /\ rounds' = [rounds EXCEPT ![1] = "answered"]
                /\ storing' = IF status = Unavailable /\ Steady(hc') /\ d.addr \notin virtual
                              THEN [storing EXCEPT ![r] = d.addr]
                              ELSE storing
           ELSE UNCHANGED <<hc, rounds, storing>>
    /\ UNCHANGED <<mapVars, status, peerAddr, taskVars, worldVars>>

(* ... and the status is stored after it. *)
StoreAvailable(r) ==
    /\ storing[r] # NoAddr
    /\ status' = storing[r]
    /\ storing' = [storing EXCEPT ![r] = NoAddr]
    /\ UNCHANGED <<mapVars, hc, peerAddr, taskVars, net, worldVars, rounds>>

(* A node map with the peer in it.  A peer the list has keeps its entry;   *)
(* its public address is unknown from a new registration until the server  *)
(* has had a heartbeat of it.                                              *)
NodeMapWith(w) ==
    /\ connected
    /\ w # wan \/ ~listed
    /\ listed' = TRUE
    /\ wan' = w
    /\ IF listed THEN UNCHANGED <<entryVars, rounds>> ELSE FreshEntry
    /\ UNCHANGED <<connected, taskVars, storing, net, worldVars>>

(* A node map without it.  A task in the middle of something goes on with  *)
(* the dropped entry, where nobody sees it.                                *)
NodeMapWithout ==
    /\ connected /\ listed
    /\ listed' = FALSE
    /\ wan' = NoAddr
    /\ FreshEntry
    /\ task' = "sleep" /\ loaded' = Unavailable /\ targets' = {}
    /\ storing' = [r \in Receiver |-> NoAddr]
    /\ net' = {d \in net : d.seq # 0}
    /\ UNCHANGED <<connected, worldVars>>

(* tcp_handler loses or regains the server; without it no heartbeats run.  *)
ServerConnection ==
    /\ connected' = ~connected
    /\ UNCHANGED <<listed, wan, entryVars, taskVars, storing, net, worldVars, rounds>>

----------------------------------------------------------------------------
(* The peer and the network. *)

Lose ==
    /\ \E d \in net : net' = net \ {d}
    /\ UNCHANGED <<mapVars, entryVars, taskVars, storing, worldVars, rounds>>

(* The peer moves, starts or stops, or a NAT on the way changes. *)
Move ==
    /\ reach' \in (SUBSET Addr) \ {reach}
    /\ UNCHANGED <<mapVars, entryVars, taskVars, storing, net, virtual, rounds>>

Settled ==
    \/ HeartbeatLoad \/ HeartbeatCheck \/ HeartbeatSend
    \/ \E r \in Receiver : ReceiveResponse(r) \/ StoreAvailable(r)

Unsettled ==
    \/ \E a \in Addr : ReceiveRequest(a)
    \/ \E w \in {Wan, NoAddr} : NodeMapWith(w)
    \/ NodeMapWithout \/ ServerConnection \/ Lose \/ Move

Next == Settled \/ Unsettled

Spec == Init /\ [][Next]_vars

(* The tasks of both nodes run on.  The heartbeat task waits for the       *)
(* server, so its turn only comes again and again.                         *)
Fairness ==
    /\ SF_vars(HeartbeatLoad) /\ WF_vars(HeartbeatCheck \/ HeartbeatSend)
    /\ WF_vars(\E r \in Receiver : ReceiveResponse(r))
    /\ \A r \in Receiver : WF_vars(StoreAvailable(r))

FairSpec == Spec /\ Fairness

----------------------------------------------------------------------------
(* Safety *)

(* The status that makes update_peers_schedule divide by send_count is     *)
(* never Available in an entry that has not been pinged.                   *)
AvailableWasPinged == status # Unavailable => listed /\ hc.sent

(* The peer is given up only after LossLimit rounds without a reply, even  *)
(* though the status is loaded before the lock and stored after another.   *)
DownAfterLostRounds ==
    [][status # Unavailable /\ status' = Unavailable /\ listed' =>
        \A i \in 1 .. LossLimit : rounds[i] = "lost"]_vars

----------------------------------------------------------------------------
(* Liveness *)

(* Network and peer have settled for ever, and a ping is answered before   *)
(* the next round begins.                                                  *)
Calm == <>[][Settled /\ (HeartbeatLoad => net = {})]_vars

(* The address in use comes to be one the peer is reached at, if it can be *)
(* reached at an address that is known, and stays so.                      *)
DirectPathIsFound ==
    Calm /\ <>[](connected /\ listed /\ wan # NoAddr /\ (reach \cap {Lan, Wan}) \ virtual # {})
        => <>[](status \in reach)

(* A peer that cannot be reached any more ends up unavailable, so that     *)
(* packets are relayed - if its public address is known.                   *)
DeadPeerDetected ==
    <>[](connected /\ listed /\ wan # NoAddr /\ reach = {}) => <>[](status = Unavailable)
=============================================================================
