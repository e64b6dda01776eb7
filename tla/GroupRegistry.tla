---------------------------- MODULE GroupRegistry ----------------------------
(***************************************************************************)
(* The coordinator side of one group of the server                         *)
(* (src/src/server/mod.rs): tunnels (one task per TCP connection) register *)
(* a virtual address, are listed in `mapping`, watch the published node    *)
(* map and give everything back when they are dropped, while the UDP task  *)
(* of the group records the public address each node's heartbeats come     *)
(* from.                                                                   *)
(*                                                                         *)
(* The tunnels run on a multi-threaded runtime: every lock of the code     *)
(* (the nonce set, the address pool, `mapping`, the flow pool) is taken in *)
(* a step of its own.  A tunnel can be aborted only where the code awaits. *)
(* Heartbeats, relaying and peer reports of an established tunnel are not  *)
(* here: they do not touch the state of this module.                       *)
(***************************************************************************)
EXTENDS Integers, FiniteSets

CONSTANTS
    Tunnel,             \* slots for TCP connections, reused when closed
    Addr,               \* the virtual addresses a node may ask for
    Network, Broadcast, \* first and last address of the group's address_range
    Nonce,              \* register_nonce values
    Wan,                \* public UDP addresses
    UdpTask,            \* the task running recv_handler of udp_handler
    NoTunnel, NoAddr, NoNonce, NoWan, NoNode, Free

ASSUME AddrAssumption ==
    /\ Addr \subseteq Nat
    /\ Network \in Nat /\ Broadcast \in Nat
    /\ NoAddr \notin Addr

ASSUME TunnelAssumption ==
    /\ NoTunnel \notin Tunnel
    /\ UdpTask \notin Tunnel
    /\ Free \notin Tunnel \cup {UdpTask}

ASSUME NullAssumption ==
    /\ NoNonce \notin Nonce
    /\ NoWan \notin Wan
    /\ NoNode \notin [tunnel : Tunnel, wan : Wan \cup {NoWan}]

VARIABLES
    pc,         \* tunnel -> where its task is
    msg,        \* tunnel -> the Register message `init` is handling
    register,   \* tunnel -> Tunnel.register, the address it has allocated
    reply,      \* tunnel -> the last answer `init` wrote to the node
    nonces,     \* NoncePool.set
    used,       \* AddressPoolInner.used
    mapping,    \* GroupHandle.mapping: address -> the tunnel of the handle
    wan,        \* tunnel -> wan_udp_addr in the node of its handle
    lock,       \* who is inside a section of the `mapping` lock that syncs
    flow,       \* the addresses in FlowControl.pool
    published,  \* the node map in GroupHandle.watch
    unseen,     \* the tunnels whose watch_rx has a version it has not seen
    sending,    \* tunnel -> send_handler is between changed() and borrow()
    sent        \* tunnel -> the last node map written to its node

vars == <<pc, msg, register, reply, nonces, used, mapping, wan, lock, flow,
          published, unseen, sending, sent>>

addressVars == <<register, used>>
directoryVars == <<mapping, wan, lock, published>>
watchVars == <<unseen, sending, sent>>

----------------------------------------------------------------------------
NoMsg == [addr |-> NoAddr, nonce |-> NoNonce]
Message == [addr : Addr, nonce : Nonce]

NodeEntry == [tunnel : Tunnel, wan : Wan \cup {NoWan}]
NodeMap == [Addr -> NodeEntry \cup {NoNode}]
EmptyMap == [a \in Addr |-> NoNode]

AllocateError == {"IpNotBelongNetworkRange", "IpSameAsNetworkAddress",
                  "IpSameAsBroadcastAddress", "IpAlreadyInUse"}

Answer(kind, a) == [kind |-> kind, addr |-> a]
ReplyKind == {"None", "IdleAddr", "Ok", "Timeout", "NonceRepeat"} \cup AllocateError

Dropping == {"drop_mapping", "drop_sync", "drop_flow", "drop_release"}
Holding == {"join", "join_sync", "join_flow", "respond", "run"} \cup Dropping
Location == {"closed", "init", "nonce", "allocate"} \cup Holding

(* The tunnel t owns the pool's entry of address a. *)
Holds(t, a) == pc[t] \in Holding /\ register[t] = a

(* The locations at which the tunnel is listed in `mapping`. *)
Mapped == {"join_sync", "join_flow", "respond", "run", "drop_mapping"}

(* GroupHandle::sync turns `mapping` into the map of node records. *)
NodeList(mp, w) ==
    [a \in Addr |-> IF mp[a] = NoTunnel
                    THEN NoNode
                    ELSE [tunnel |-> mp[a], wan |-> w[mp[a]]]]

IdleAddrs == {a \in Addr : Network < a /\ a < Broadcast /\ a \notin used}

(* Mutant: allocate forgets that the address may be in use. *)
AllocateAnyHost(a) == IF Network < a /\ a < Broadcast THEN "Ok" ELSE "IpNotBelongNetworkRange"

(* What AddressPool::allocate answers, in the order of its checks. *)
AllocateResult(a) ==
    CASE ~(Network <= a /\ a <= Broadcast) -> "IpNotBelongNetworkRange"
      [] a = Network                       -> "IpSameAsNetworkAddress"
      [] a # Network /\ a = Broadcast      -> "IpSameAsBroadcastAddress"
      [] Network < a /\ a < Broadcast /\ a \in used    -> "IpAlreadyInUse"
      [] Network < a /\ a < Broadcast /\ a \notin used -> "Ok"

TypeOK ==
    /\ pc \in [Tunnel -> Location]
    /\ msg \in [Tunnel -> Message \cup {NoMsg}]
    /\ register \in [Tunnel -> Addr \cup {NoAddr}]
    /\ reply \in [Tunnel -> [kind : ReplyKind, addr : Addr \cup {NoAddr}]]
    /\ nonces \subseteq Nonce
    /\ used \subseteq Addr
    /\ mapping \in [Addr -> Tunnel \cup {NoTunnel}]
    /\ wan \in [Tunnel -> Wan \cup {NoWan}]
    /\ lock \in Tunnel \cup {UdpTask, Free}
    /\ flow \subseteq Addr
    /\ published \in NodeMap
    /\ unseen \subseteq Tunnel
    /\ sending \in [Tunnel -> BOOLEAN]
    /\ sent \in [Tunnel -> NodeMap]

----------------------------------------------------------------------------
Init ==
    /\ pc = [t \in Tunnel |-> "closed"]
    /\ msg = [t \in Tunnel |-> NoMsg]
    /\ register = [t \in Tunnel |-> NoAddr]
    /\ reply = [t \in Tunnel |-> Answer("None", NoAddr)]
    /\ nonces = {}
    /\ used = {}
    /\ mapping = [a \in Addr |-> NoTunnel]
    /\ wan = [t \in Tunnel |-> NoWan]
    /\ lock = Free
    /\ flow = {}
    /\ published = EmptyMap
    /\ unseen = {}
    /\ sending = [t \in Tunnel |-> FALSE]
    /\ sent = [t \in Tunnel |-> EmptyMap]

Goto(t, l) == pc' = [pc EXCEPT ![t] = l]

(* The tunnel answers an error and ends; it has nothing to give back. *)
Refuse(t, kind) ==
    /\ reply' = [reply EXCEPT ![t] = Answer(kind, NoAddr)]
    /\ msg' = [msg EXCEPT ![t] = NoMsg]
    /\ Goto(t, "closed")

(* tcp_handler accepts a connection and spawns the tunnel's task. *)
Accept(t) ==
    /\ pc[t] = "closed"
    /\ Goto(t, "init")
    /\ reply' = [reply EXCEPT ![t] = Answer("None", NoAddr)]
    /\ UNCHANGED <<msg, addressVars, nonces, flow, directoryVars, watchVars>>

(* GetIdleVirtualAddr: the first unused host, which is not reserved. *)
GetIdleVirtualAddr(t) ==
    /\ pc[t] = "init"
    /\ \/ /\ IdleAddrs = {}
          /\ reply' = [reply EXCEPT ![t] = Answer("IdleAddr", NoAddr)]
       \/ \E a \in IdleAddrs :
          /\ \A b \in IdleAddrs : a <= b
          /\ reply' = [reply EXCEPT ![t] = Answer("IdleAddr", a)]
    /\ UNCHANGED <<pc, msg, addressVars, nonces, flow, directoryVars, watchVars>>

(* A Register message arrives; its clock is within 300 s of ours or not. *)
ReadRegister(t, m, inWindow) ==
    /\ pc[t] = "init"
    /\ IF inWindow
       THEN /\ msg' = [msg EXCEPT ![t] = m]
            /\ Goto(t, "nonce")
            /\ UNCHANGED reply
       ELSE Refuse(t, "Timeout")
    /\ UNCHANGED <<addressVars, nonces, flow, directoryVars, watchVars>>

(* Mutant: a repeated nonce is ignored, and the node waits for an answer. *)
CheckNonceIgnores(t) ==
    /\ pc[t] = "nonce"
    /\ IF msg[t].nonce \in nonces
       THEN Goto(t, "init") /\ UNCHANGED nonces
       ELSE nonces' = nonces \cup {msg[t].nonce} /\ Goto(t, "allocate")
    /\ UNCHANGED <<msg, reply, addressVars, flow, directoryVars, watchVars>>

(* The check and the insertion under the lock of the nonce set. *)
CheckNonce(t) ==
    /\ pc[t] = "nonce"
    /\ IF msg[t].nonce \in nonces
       THEN Refuse(t, "NonceRepeat") /\ UNCHANGED nonces
       ELSE /\ nonces' = nonces \cup {msg[t].nonce}
            /\ Goto(t, "allocate")
            /\ UNCHANGED <<msg, reply>>
    /\ UNCHANGED <<addressVars, flow, directoryVars, watchVars>>

(* The task spawned for an accepted nonce forgets it after 600 s. *)
ForgetNonce(n) ==
    /\ n \in nonces
    /\ nonces' = nonces \ {n}
    /\ UNCHANGED <<pc, msg, reply, addressVars, flow, directoryVars, watchVars>>

(* Mutant: the allocated address is not kept in Tunnel.register. *)
AllocateUnkept(t) ==
    /\ pc[t] = "allocate"
    /\ AllocateResult(msg[t].addr) = "Ok"
    /\ used' = used \cup {msg[t].addr}
    /\ Goto(t, "join")
    /\ UNCHANGED <<msg, register, reply, nonces, flow, directoryVars, watchVars>>

(* AddressPool::allocate, and Tunnel.register set when it succeeds. *)
Allocate(t) ==
    LET a == msg[t].addr IN
    /\ pc[t] = "allocate"
    /\ IF AllocateResult(a) = "Ok"
       THEN /\ used' = used \cup {a}
            /\ register' = [register EXCEPT ![t] = a]
            /\ msg' = [msg EXCEPT ![t] = NoMsg]
            /\ Goto(t, "join")
            /\ UNCHANGED reply
       ELSE Refuse(t, AllocateResult(a)) /\ UNCHANGED addressVars
    /\ UNCHANGED <<nonces, flow, directoryVars, watchVars>>

(* GroupHandle::join, under mapping.write(): a new handle is inserted... *)
JoinInsert(t) ==
    /\ pc[t] = "join"
    /\ lock = Free
    /\ lock' = t
    /\ mapping' = [mapping EXCEPT ![register[t]] = t]
    /\ wan' = [wan EXCEPT ![t] = NoWan]
    /\ Goto(t, "join_sync")
    /\ UNCHANGED <<msg, reply, addressVars, nonces, flow, published, watchVars>>

(* Mutant: the map is replaced without telling the receivers. *)
SyncSilently ==
    /\ published' = NodeList(mapping, wan)
    /\ lock' = Free
    /\ UNCHANGED <<mapping, wan, watchVars>>

(* The body of GroupHandle::sync: every receiver gets an unseen version. *)
Sync ==
    /\ published' = NodeList(mapping, wan)
    /\ unseen' = Tunnel
    /\ lock' = Free
    /\ UNCHANGED <<mapping, wan, sending, sent>>

(* ... and the new node list is published before the lock is released. *)
JoinSync(t) ==
    /\ pc[t] = "join_sync"
    /\ Sync
    /\ Goto(t, "join_flow")
    /\ UNCHANGED <<msg, reply, addressVars, nonces, flow>>

(* Mutant: the receiver is made by subscribe(), for which the version at   *)
(* hand counts as seen.                                                    *)
JoinSubscribes(t) ==
    /\ pc[t] = "join_flow"
    /\ flow' = flow \cup {register[t]}
    /\ unseen' = unseen \ {t}
    /\ Goto(t, "respond")
    /\ UNCHANGED <<msg, reply, addressVars, nonces, directoryVars, sending, sent>>

(* The end of join, outside the lock: flow_control.add_address and the     *)
(* bridge.  The receiver is cloned from one that never looks at the watch, *)
(* so it starts with an unseen version.                                    *)
JoinFlow(t) ==
    /\ pc[t] = "join_flow"
    /\ flow' = flow \cup {register[t]}
    /\ unseen' = unseen \cup {t}
    /\ Goto(t, "respond")
    /\ UNCHANGED <<msg, reply, addressVars, nonces, directoryVars, sending, sent>>

(* RegisterRes(Ok) is written and exec starts its three tasks. *)
Respond(t) ==
    /\ pc[t] = "respond"
    /\ reply' = [reply EXCEPT ![t] = Answer("Ok", register[t])]
    /\ Goto(t, "run")
    /\ UNCHANGED <<msg, addressVars, nonces, flow, directoryVars, watchVars>>

(* The exec future ends at an await: the connection is closed or broken, a *)
(* message is invalid, the TCP heartbeats are lost, or the group is told   *)
(* to stop.  Drop has work to do only if the tunnel has registered.        *)
Disconnect(t) ==
    /\ pc[t] \in {"init", "respond", "run"}
    /\ Goto(t, IF pc[t] = "init" THEN "closed" ELSE "drop_mapping")
    /\ sending' = [sending EXCEPT ![t] = FALSE]
    /\ sent' = [sent EXCEPT ![t] = EmptyMap]
    /\ UNCHANGED <<msg, reply, addressVars, nonces, flow, directoryVars, unseen>>

(* send_handler: watch_rx.changed() returns and marks the version seen... *)
WatchChanged(t) ==
    /\ pc[t] = "run"
    /\ t \in unseen
    /\ ~sending[t]
    /\ unseen' = unseen \ {t}
    /\ sending' = [sending EXCEPT ![t] = TRUE]
    /\ UNCHANGED <<pc, msg, reply, addressVars, nonces, flow, directoryVars, sent>>

(* ... and the map borrowed afterwards, maybe a newer one, is written. *)
SendNodeMap(t) ==
    /\ pc[t] = "run"
    /\ sending[t]
    /\ sent' = [sent EXCEPT ![t] = published]
    /\ sending' = [sending EXCEPT ![t] = FALSE]
    /\ UNCHANGED <<pc, msg, reply, addressVars, nonces, flow, directoryVars, unseen>>

(* Mutant: Drop removes the handle and does not publish that. *)
DropUnsynced(t) ==
    /\ pc[t] = "drop_mapping"
    /\ lock = Free
    /\ mapping' = [mapping EXCEPT ![register[t]] = NoTunnel]
    /\ Goto(t, "drop_flow")
    /\ UNCHANGED <<msg, reply, addressVars, nonces, flow, wan, lock, published, watchVars>>

(* Drop for Tunnel, under mapping.write(): whatever handle is listed under *)
(* the tunnel's address is removed, and the list is synced if one was.     *)
DropRemove(t) ==
    /\ pc[t] = "drop_mapping"
    /\ lock = Free
    /\ IF mapping[register[t]] # NoTunnel
       THEN /\ mapping' = [mapping EXCEPT ![register[t]] = NoTunnel]
            /\ lock' = t
            /\ Goto(t, "drop_sync")
       ELSE /\ Goto(t, "drop_flow")
            /\ UNCHANGED <<mapping, lock>>
    /\ UNCHANGED <<msg, reply, addressVars, nonces, flow, wan, published, watchVars>>

DropSync(t) ==
    /\ pc[t] = "drop_sync"
    /\ Sync
    /\ Goto(t, "drop_flow")
    /\ UNCHANGED <<msg, reply, addressVars, nonces, flow>>

(* Mutant: the address is given back before the entry of the flow pool. *)
DropReleasesFirst(t) ==
    /\ pc[t] = "drop_flow"
    /\ used' = used \ {register[t]}
    /\ flow' = flow \ {register[t]}
    /\ Goto(t, "drop_release")
    /\ UNCHANGED <<msg, register, reply, nonces, directoryVars, watchVars>>

(* Then flow_control.remove_address... *)
DropFlow(t) ==
    /\ pc[t] = "drop_flow"
    /\ flow' = flow \ {register[t]}
    /\ Goto(t, "drop_release")
    /\ UNCHANGED <<msg, reply, addressVars, nonces, directoryVars, watchVars>>

(* ... and last the address goes back to the pool; the task is gone. *)
DropRelease(t) ==
    /\ pc[t] = "drop_release"
    /\ used' = used \ {register[t]}
    /\ register' = [register EXCEPT ![t] = NoAddr]
    /\ unseen' = unseen \ {t}
    /\ Goto(t, "closed")
    /\ UNCHANGED <<msg, reply, nonces, flow, directoryVars, sending, sent>>

(* udp_handler, a heartbeat request in the name of address a from public   *)
(* address w: a known node that has moved gets a new record, and the list  *)
(* is synced, all under mapping.read().                                    *)
UdpStoreWan(a, w) ==
    /\ lock = Free
    /\ mapping[a] # NoTunnel
    /\ wan[mapping[a]] # w
    /\ wan' = [wan EXCEPT ![mapping[a]] = w]
    /\ lock' = UdpTask
    /\ UNCHANGED <<pc, msg, reply, addressVars, nonces, flow, mapping, published, watchVars>>

(* Mutant: the guard of `mapping` is never dropped. *)
UdpSyncKeepsLock ==
    /\ lock = UdpTask
    /\ published' = NodeList(mapping, wan)
    /\ unseen' = Tunnel
    /\ UNCHANGED <<pc, msg, reply, addressVars, nonces, flow, mapping, wan, lock, sending, sent>>

UdpSync ==
    /\ lock = UdpTask
    /\ Sync
    /\ UNCHANGED <<pc, msg, reply, addressVars, nonces, flow>>

Locking(t) == JoinInsert(t) \/ DropRemove(t)

Running(t) ==
    \/ CheckNonce(t) \/ Allocate(t) \/ JoinSync(t) \/ JoinFlow(t) \/ Respond(t)
    \/ WatchChanged(t) \/ SendNodeMap(t)
    \/ DropSync(t) \/ DropFlow(t) \/ DropRelease(t)

Environment(t) ==
    \/ Accept(t) \/ GetIdleVirtualAddr(t) \/ Disconnect(t)
    \/ \E m \in Message, inWindow \in BOOLEAN : ReadRegister(t, m, inWindow)

Next ==
    \/ \E t \in Tunnel : Locking(t) \/ Running(t) \/ Environment(t)
    \/ \E n \in Nonce : ForgetNonce(n)
    \/ \E a \in Addr, w \in Wan : UdpStoreWan(a, w)
    \/ UdpSync

Spec == Init /\ [][Next]_vars

(* Tasks are scheduled for ever; the runtime's threads that wait for the   *)
(* `mapping` lock get it in the end (parking_lot hands locks over fairly). *)
Fairness ==
    /\ WF_vars(UdpSync)
    /\ \A t \in Tunnel : SF_vars(Locking(t)) /\ WF_vars(Running(t))

FairSpec == Spec /\ Fairness

----------------------------------------------------------------------------
(* Safety *)

(* Every address in the pool is owned by exactly one live tunnel, so no    *)
(* address leaks and no two nodes share one (allocate / Drop).             *)
OneOwner ==
    \A a \in Addr :
        /\ a \in used <=> \E t \in Tunnel : Holds(t, a)
        /\ \A s, t \in Tunnel : Holds(s, a) /\ Holds(t, a) => s = t

(* The relay's directory lists a tunnel exactly while it is between the    *)
(* insertion of join and the removal of Drop, under its own address.       *)
MappingIsOwned ==
    \A a \in Addr, t \in Tunnel :
        mapping[a] = t <=> pc[t] \in Mapped /\ register[t] = a

(* Outside the sections of the lock the published node map is the mapping  *)
(* with the newest public addresses: no join, drop or move is missed.      *)
PublishedIsMapping ==
    lock = Free => published = NodeList(mapping, wan)

(* A node that has been told Ok is found by the relay and its traffic is   *)
(* accounted, not rejected for want of a flow entry, until it is dropped;  *)
(* and no flow entry survives its owner.                                   *)
RegisteredIsServed ==
    /\ \A t \in Tunnel : pc[t] \in {"respond", "run"} =>
        mapping[register[t]] = t /\ register[t] \in flow
    /\ flow \subseteq used

(* A receiver that waits for the watch has written the newest map: no      *)
(* update is lost between changed() and borrow().                          *)
NoLostUpdate ==
    \A t \in Tunnel :
        pc[t] = "run" /\ t \notin unseen /\ ~sending[t] => sent[t] = published

(* Action properties *)

(* A handle leaves the directory only through the Drop of its own tunnel   *)
(* and is never overwritten by the join of another one.                    *)
OnlyOwnerUnlists ==
    [][\A a \in Addr, t \in Tunnel :
        mapping[a] = t /\ mapping'[a] # t => pc[t] = "drop_mapping"]_vars

(* An address changes hands only after the whole cluster-visible state of  *)
(* the former owner is gone: unlisted, unpublished and not accounted.      *)
ReleasedLast ==
    [][\A a \in Addr : a \in used /\ a \notin used' =>
        /\ mapping[a] = NoTunnel
        /\ a \notin flow
        /\ lock = Free => published[a] = NoNode]_vars

(* The steps implement the abstract promise: the pairs are the tunnels'    *)
(* allocations, the directory is `mapping`.                                *)
Lease == INSTANCE AddressLease WITH
    Client <- Tunnel, Address <- Addr, Nobody <- NoTunnel,
    lease <- {p \in Tunnel \X Addr : Holds(p[1], p[2])},
    directory <- mapping

ImplementsLease == Lease!Spec

----------------------------------------------------------------------------
(* Liveness *)

(* Every established tunnel is brought up to date again and again, however *)
(* fast the group changes (watch coalesces updates).                       *)
NodesConverge ==
    \A t \in Tunnel : []<>(pc[t] = "run" => sent[t] = published)

(* A tunnel that starts to drop gives its address back. *)
DropCompletes ==
    \A t \in Tunnel : pc[t] \in Dropping ~> pc[t] = "closed"

(* A registration is answered, or its connection ends. *)
RegisterAnswered ==
    \A t \in Tunnel : pc[t] = "nonce" ~>
        (reply[t].kind \notin {"None", "IdleAddr"} \/ pc[t] = "closed")
=============================================================================
