----------------------------- MODULE NodeSession -----------------------------
(***************************************************************************)
(* How nodes get, keep and lose their virtual address: `register` and the  *)
(* loop of tcp_handler (src/src/node/mod.rs) of every node, against the    *)
(* tunnels of the group (src/src/server/mod.rs).                           *)
(*                                                                         *)
(* The server's side is the one GroupRegistry has in detail: a request is  *)
(* served in one step, and a tunnel gives its address back in one step     *)
(* when it is dropped.  Either end of a TCP connection may find it broken  *)
(* long before the other one does.  The server may be restarted, with      *)
(* another address range.  Clocks agree and no register_nonce is drawn     *)
(* twice, so a registration is refused only for its address.               *)
(*                                                                         *)
(* What a session does to the host (routes, NAT, the hosts file) and what  *)
(* its tasks carry is left out.                                            *)
(***************************************************************************)
EXTENDS Integers, FiniteSets

CONSTANTS
    Node,
    Conn,           \* numbers of TCP connections, used again when both ends are
                    \* closed
    Address,        \* virtual addresses
    Ranges,         \* the address ranges the server may be given: sets of hosts
    InitialRange,   \* the first of them
    Configs,        \* node -> its tun_addr, or None: the configurations to start in
    MaxRestarts,    \* bound: restarts of the server
    Staller,        \* bound: the nodes whose send_handler may be left behind
    None, NoConn, NoMsg

ASSUME SessionAssumption ==
    /\ Address \subseteq Nat
    /\ Ranges \subseteq SUBSET Address
    /\ InitialRange \in Ranges
    /\ MaxRestarts \in Nat
    /\ Staller \subseteq Node
    /\ Conn \subseteq Nat
    /\ NoConn \notin Conn

(* An address with the range it belongs to. *)
Binding == {b \in [addr : Address, cidr : Ranges] : b.addr \in b.cidr}

ASSUME ConfigAssumption ==
    /\ None \notin Binding
    /\ Configs \subseteq [Node -> Binding \cup {None}]

VARIABLES
    config,     \* node -> group.tun_addr of its configuration
    pc,         \* node -> where its tcp_handler is
    conn,       \* node -> its connection
    tun,        \* node -> tun_addr: what it registers with, None for Auto(None)
    asked,      \* node -> the address and range it is registering with
    iface,      \* node -> Interface.addr and cidr, and what its TUN device has
    stuck,      \* node -> the send_handler of a former session still writes,
                \* and holds the lock of the channel from the TUN device
    wire,       \* connection -> the message under way on it
    tunnel,     \* connection -> the server's tunnel of it
    lease,      \* address -> the connection whose tunnel has allocated it
    range,      \* the group's address_range
    restarts    \* how often the server was restarted

nodeVars == <<config, pc, conn, tun, asked, iface, stuck>>
serverVars == <<tunnel, lease, range, restarts>>
vars == <<nodeVars, wire, serverVars>>

GetIdle == [type |-> "GetIdleVirtualAddr"]
IdleRes(b) == [type |-> "GetIdleVirtualAddrRes", idle |-> b]
Register(a) == [type |-> "Register", addr |-> a]
RegisterOk(r) == [type |-> "RegisterOk", cidr |-> r]
RegisterErr(e) == [type |-> "RegisterErr", error |-> e]

Error == {"IpNotBelongNetworkRange", "IpAlreadyInUse"}
Reply == {IdleRes(b) : b \in Binding \cup {None}}
         \cup {RegisterOk(r) : r \in Ranges} \cup {RegisterErr(e) : e \in Error}
Msg == {GetIdle} \cup {Register(a) : a \in Address} \cup Reply

IsAuto(n) == config[n] = None

TypeOK ==
    /\ config \in Configs
    /\ pc \in [Node -> {"sleep", "hint", "register", "run", "stopped"}]
    /\ conn \in [Node -> Conn \cup {NoConn}]
    /\ tun \in [Node -> Binding \cup {None}]
    /\ asked \in [Node -> Binding \cup {None}]
    /\ iface \in [Node -> Binding \cup {None}]
    /\ stuck \in [Node -> BOOLEAN]
    /\ wire \in [Conn -> Msg \cup {NoMsg}]
    /\ tunnel \in [Conn -> {"closed", "init", "joined"}]
    /\ lease \in [Address -> Conn \cup {NoConn}]
    /\ range \in Ranges
    /\ restarts \in 0 .. MaxRestarts

Init ==
    /\ config \in Configs
    /\ pc = [n \in Node |-> "stopped"]
    /\ conn = [n \in Node |-> NoConn]
    /\ tun = config
    /\ asked = [n \in Node |-> None]
    /\ iface = [n \in Node |-> None]
    /\ stuck = [n \in Node |-> FALSE]
    /\ wire = [c \in Conn |-> NoMsg]
    /\ tunnel = [c \in Conn |-> "closed"]
    /\ lease = [a \in Address |-> NoConn]
    /\ range = InitialRange
    /\ restarts = 0

----------------------------------------------------------------------------
(* The node *)

NodeEnd == {conn[n] : n \in Node}
Unused == {c \in Conn \ NodeEnd : tunnel[c] = "closed"}
Goto(n, l) == pc' = [pc EXCEPT ![n] = l]
Write(c, m) == wire' = [wire EXCEPT ![c] = m]

(* The session is over, and its end of the connection closed: what the     *)
(* server writes to it is lost, a request it was sent may still be served. *)
Leave(n, l) ==
    /\ Goto(n, l)
    /\ conn' = [conn EXCEPT ![n] = NoConn]
    /\ asked' = [asked EXCEPT ![n] = None]
    /\ wire' = [c \in Conn |-> IF c = conn[n] /\ wire[c] \in Reply THEN NoMsg ELSE wire[c]]

Close(n) == Leave(n, "sleep")

(* The reconnect interval is over: `register` connects, and registers the  *)
(* address it has or asks for an idle one first.                           *)
Connect(n) ==
    \E c \in Unused :
        /\ pc[n] = "sleep"
        /\ \A d \in Unused : c <= d
        /\ conn' = [conn EXCEPT ![n] = c]
        /\ asked' = [asked EXCEPT ![n] = tun[n]]
        /\ tunnel' = [tunnel EXCEPT ![c] = "init"]
        /\ IF tun[n] = None
           THEN Goto(n, "hint") /\ Write(c, GetIdle)
           ELSE Goto(n, "register") /\ Write(c, Register(tun[n].addr))
        /\ UNCHANGED <<config, tun, iface, stuck, lease, range, restarts>>

(* The idle address is a hint: nobody keeps it for the node. *)
ReceiveHint(n) ==
    /\ pc[n] = "hint"
    /\ \E b \in Binding \cup {None} :
        /\ wire[conn[n]] = IdleRes(b)
        /\ IF b = None
           THEN Close(n)
           ELSE /\ asked' = [asked EXCEPT ![n] = b]
                /\ Write(conn[n], Register(b.addr))
                /\ Goto(n, "register")
                /\ UNCHANGED conn
    /\ UNCHANGED <<config, tun, iface, stuck, serverVars>>

(* Mutant: an address somebody else has is not given up. *)
RefusalKeepsAddress(n) ==
    /\ pc[n] = "register"
    /\ \E e \in Error : wire[conn[n]] = RegisterErr(e)
    /\ Close(n)
    /\ UNCHANGED <<config, tun, iface, stuck, serverVars>>

(* The registration is refused: an automatic address somebody else has is  *)
(* given up, any other one is tried again.                                 *)
ReceiveRefusal(n) ==
    /\ pc[n] = "register"
    /\ \E e \in Error :
        /\ wire[conn[n]] = RegisterErr(e)
        /\ tun' = IF e = "IpAlreadyInUse" /\ IsAuto(n)
                  THEN [tun EXCEPT ![n] = None]
                  ELSE tun
        /\ Close(n)
    /\ UNCHANGED <<config, iface, stuck, serverVars>>

(* It is accepted in another range than the node has thought of. *)
ReceiveOtherRange(n) ==
    /\ pc[n] = "register"
    /\ \E r \in Ranges :
        /\ wire[conn[n]] = RegisterOk(r)
        /\ asked[n].cidr # r
    /\ tun' = IF IsAuto(n) THEN [tun EXCEPT ![n] = None] ELSE tun
    /\ Close(n)
    /\ UNCHANGED <<config, iface, stuck, serverVars>>

(* Mutant: only the first automatic address is put on the device. *)
ReceiveOkOnce(n) ==
    /\ pc[n] = "register"
    /\ wire[conn[n]] = RegisterOk(asked[n].cidr)
    /\ tun' = [tun EXCEPT ![n] = asked[n]]
    /\ iface' = IF iface[n] = None THEN [iface EXCEPT ![n] = asked[n]] ELSE iface
    /\ Goto(n, "run")
    /\ Write(conn[n], NoMsg)
    /\ UNCHANGED <<config, conn, asked, stuck, serverVars>>

(* It is accepted.  A new automatic address is put on the device and into  *)
(* the interface before the node counts as connected.                      *)
ReceiveOk(n) ==
    /\ pc[n] = "register"
    /\ wire[conn[n]] = RegisterOk(asked[n].cidr)
    /\ tun' = [tun EXCEPT ![n] = asked[n]]
    /\ iface' = IF tun[n] = None THEN [iface EXCEPT ![n] = asked[n]] ELSE iface
    /\ Goto(n, "run")
    /\ Write(conn[n], NoMsg)
    /\ UNCHANGED <<config, conn, asked, stuck, serverVars>>

(* The process ends, and with it its device and all it knew: because the   *)
(* device or the routes could not be set up for a new session, or at any   *)
(* time for another reason.                                                *)
Crash(n) ==
    /\ pc[n] # "stopped"
    /\ Leave(n, "stopped")
    /\ tun' = [tun EXCEPT ![n] = config[n]]
    /\ iface' = [iface EXCEPT ![n] = None]
    /\ stuck' = [stuck EXCEPT ![n] = FALSE]
    /\ UNCHANGED <<config, serverVars>>

(* A node with a tun_addr has it on its device before it connects. *)
Start(n) ==
    /\ pc[n] = "stopped"
    /\ Goto(n, "sleep")
    /\ iface' = [iface EXCEPT ![n] = config[n]]
    /\ UNCHANGED <<config, conn, tun, asked, stuck, wire, serverVars>>

(* The node finds that the server has closed the connection, or that the   *)
(* TCP heartbeats are not answered, as happens when nothing is sent        *)
(* because the lock of the channel is not free.                            *)
Unserved(n) ==
    \/ pc[n] \in {"hint", "register"} /\ tunnel[conn[n]] = "closed" /\ wire[conn[n]] \notin Reply
    \/ pc[n] = "run" /\ (stuck[n] \/ tunnel[conn[n]] = "closed")

SessionEnds(n) ==
    /\ Unserved(n)
    /\ Close(n)
    /\ UNCHANGED <<config, tun, iface, stuck, serverVars>>

(* The connection breaks for the node, or there is no answer within ten    *)
(* seconds.  The send_handler may be left behind in the middle of a write. *)
NodeLosesServer(n) ==
    /\ pc[n] \in {"hint", "register", "run"}
    /\ ~Unserved(n)
    /\ Close(n)
    /\ \/ UNCHANGED stuck
       \/ pc[n] = "run" /\ n \in Staller /\ stuck' = [stuck EXCEPT ![n] = TRUE]
    /\ UNCHANGED <<config, tun, iface, serverVars>>

(* The write left behind fails at last, and the lock is given up. *)
WriteFails(n) ==
    /\ stuck[n]
    /\ stuck' = [stuck EXCEPT ![n] = FALSE]
    /\ UNCHANGED <<config, pc, conn, tun, asked, iface, wire, serverVars>>

----------------------------------------------------------------------------
(* The server *)

Answer(c, m) == Write(c, IF c \in NodeEnd THEN m ELSE NoMsg)

(* What was sent to a tunnel that is closed is lost. *)
Shut(closing) ==
    /\ tunnel' = [c \in Conn |-> IF c \in closing THEN "closed" ELSE tunnel[c]]
    /\ wire' = [c \in Conn |-> IF c \in closing /\ wire[c] \notin Reply THEN NoMsg ELSE wire[c]]

(* Mutant: an idle address of any range is offered. *)
IdleAnywhere == {a \in Address : lease[a] = NoConn}

Idle == {a \in range : lease[a] = NoConn}

ServeHint(c) ==
    /\ tunnel[c] = "init"
    /\ wire[c] = GetIdle
    /\ \/ Idle = {} /\ Answer(c, IdleRes(None))
       \/ \E a \in Idle :
            /\ \A b \in Idle : a <= b
            /\ Answer(c, IdleRes([addr |-> a, cidr |-> range]))
    /\ UNCHANGED <<nodeVars, serverVars>>

Refuse(c, e) ==
    /\ Answer(c, RegisterErr(e))
    /\ tunnel' = [tunnel EXCEPT ![c] = "closed"]
    /\ UNCHANGED lease

ServeRegister(c) ==
    \E a \in Address :
        /\ tunnel[c] = "init"
        /\ wire[c] = Register(a)
        /\ \/ a \notin range /\ Refuse(c, "IpNotBelongNetworkRange")
           \/ a \in range /\ lease[a] # NoConn /\ Refuse(c, "IpAlreadyInUse")
           \/ /\ a \in range /\ lease[a] = NoConn
              /\ lease' = [lease EXCEPT ![a] = c]
              /\ tunnel' = [tunnel EXCEPT ![c] = "joined"]
              /\ Answer(c, RegisterOk(range))
        /\ UNCHANGED <<nodeVars, range, restarts>>

(* The tunnel finds its connection closed by the node, or silent.  Drop    *)
(* gives the address back (the mutant forgets to).                         *)
Abandoned(c) == \A n \in Node : conn[n] = c => pc[n] = "run" /\ stuck[n]

DropKeepsLease(c) ==
    /\ tunnel[c] # "closed"
    /\ Shut({c})
    /\ UNCHANGED <<nodeVars, lease, range, restarts>>

Drop(c) ==
    /\ tunnel[c] # "closed"
    /\ Shut({c})
    /\ lease' = [a \in Address |-> IF lease[a] = c THEN NoConn ELSE lease[a]]
    /\ UNCHANGED <<nodeVars, range, restarts>>

DropTunnel(c) == Abandoned(c) /\ Drop(c)

(* The connection breaks for the server. *)
ServerLosesNode(c) == ~Abandoned(c) /\ Drop(c)

(* Restarted, the server knows of nobody, and may have another range. *)
Restart ==
    /\ restarts < MaxRestarts
    /\ restarts' = restarts + 1
    /\ range' \in Ranges
    /\ Shut(Conn)
    /\ lease' = [a \in Address |-> NoConn]
    /\ UNCHANGED nodeVars

SessionStep(n) ==
    \/ ReceiveHint(n) \/ ReceiveRefusal(n) \/ ReceiveOtherRange(n) \/ ReceiveOk(n)
    \/ SessionEnds(n)

NodeStep(n) == Connect(n) \/ SessionStep(n) \/ WriteFails(n) \/ Start(n)

ServerStep(c) == ServeHint(c) \/ ServeRegister(c) \/ DropTunnel(c)

Trouble ==
    \/ \E n \in Node : Crash(n) \/ NodeLosesServer(n)
    \/ \E c \in Conn : ServerLosesNode(c)
    \/ Restart

Regular == (\E n \in Node : NodeStep(n)) \/ (\E c \in Conn : ServerStep(c))

Next == Regular \/ Trouble

Spec == Init /\ [][Next]_vars

(* Tasks run on, messages arrive or the connection breaks, and a write to  *)
(* a dead connection fails when TCP gives up.  Two nodes may want the last  *)
(* number of a connection at a time.                                       *)
Fairness ==
    /\ \A n \in Node :
        /\ SF_vars(Connect(n)) /\ WF_vars(SessionStep(n)) /\ WF_vars(WriteFails(n))
    /\ \A c \in Conn : WF_vars(ServerStep(c))

FairSpec == Spec /\ Fairness

----------------------------------------------------------------------------
(* Safety *)

(* While both ends of a session are up, the address and range on the       *)
(* node's device are those the server has allocated to this very           *)
(* connection: whatever was refused, answered late or restarted before.    *)
ServedUnderOwnAddress ==
    \A n \in Node :
        pc[n] = "run" /\ tunnel[conn[n]] = "joined" =>
            lease[iface[n].addr] = conn[n] /\ iface[n].cidr = range

----------------------------------------------------------------------------
(* Liveness *)

TroubleEnds == <>[][Regular]_vars

(* Once all is well for ever, an address is allocated for good only to a    *)
(* node that is there: registrations whose answer came too late and half-  *)
(* open connections give theirs back.                                      *)
LeasesAreUsed ==
    TroubleEnds =>
        <>[](\A a \in Address : lease[a] # NoConn =>
                \E n \in Node : conn[n] = lease[a] /\ pc[n] = "run")

(* Once all is well for ever, a node with an automatic address joins and   *)
(* stays, whoever else had or wants its address, unless the server now has *)
(* a range without it.                                                     *)
OutOfRange(n) == tun[n] # None /\ tun[n].addr \notin range

NodesRejoin ==
    TroubleEnds =>
        <>[](\A n \in Node : IsAuto(n) => pc[n] \in {"run", "stopped"} \/ OutOfRange(n))

(* What the documentation says of a node without tun_addr: its address is  *)
(* from the pool.  So it joins whatever range the pool has got.            *)
AutoAddressFromPool ==
    TroubleEnds => <>[](\A n \in Node : IsAuto(n) => pc[n] \in {"run", "stopped"})
=============================================================================
