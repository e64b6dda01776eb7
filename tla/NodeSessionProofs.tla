--------------------------- MODULE NodeSessionProofs ---------------------------
(***************************************************************************)
(* A node that is served has the address it is served under, for any       *)
(* nodes, connections, addresses, ranges, configurations and restarts.     *)
(***************************************************************************)
EXTENDS NodeSession, TLAPS

Connected == {"hint", "register", "run"}

TypeInv ==
    /\ DOMAIN pc = Node /\ DOMAIN conn = Node /\ DOMAIN tun = Node
    /\ DOMAIN asked = Node /\ DOMAIN iface = Node
    /\ DOMAIN wire = Conn /\ DOMAIN tunnel = Conn /\ DOMAIN lease = Address
    /\ \A n \in Node :
          /\ pc[n] \in Connected \cup {"sleep", "stopped"}
          /\ IF pc[n] \in Connected THEN conn[n] \in Conn ELSE conn[n] = NoConn
          /\ pc[n] \in {"register", "run"} => asked[n] \in Binding
          /\ config[n] \in Binding \cup {None} /\ tun[n] \in Binding \cup {None}

(* A connection has one node at its end. *)
OneEnd == \A n, m \in Node : pc[n] \in Connected /\ conn[n] = conn[m] => n = m

(* An address that a node registers again is the one on its device.        *)
DeviceFollows ==
    \A n \in Node :
        /\ pc[n] = "hint" => tun[n] = None
        /\ pc[n] = "stopped" => tun[n] = config[n]
        /\ pc[n] # "stopped" /\ tun[n] # None => iface[n] = tun[n]
        /\ pc[n] \in {"register", "run"} /\ tun[n] # None => asked[n] = tun[n]
        /\ pc[n] = "run" => tun[n] # None

(* The connection of a node carries, and its tunnel has done, what fits to *)
(* where the node is.                                                      *)
Granted(n) == lease[asked[n].addr] = conn[n]

HintFits(n) ==
    /\ tunnel[conn[n]] # "joined"
    /\ tunnel[conn[n]] = "init" => \A a \in Address : wire[conn[n]] # Register(a)

RegisterFits(n) ==
    /\ tunnel[conn[n]] = "init" => wire[conn[n]] = Register(asked[n].addr)
    /\ tunnel[conn[n]] = "joined" => wire[conn[n]] = RegisterOk(range) /\ Granted(n)

RunFits(n) ==
    /\ tunnel[conn[n]] # "init"
    /\ tunnel[conn[n]] = "joined" => asked[n].cidr = range /\ Granted(n)

Fits(n) ==
    /\ pc[n] = "hint" => HintFits(n)
    /\ pc[n] = "register" => RegisterFits(n)
    /\ pc[n] = "run" => RunFits(n)

IInv == TypeInv /\ OneEnd /\ DeviceFollows /\ \A n \in Node : Fits(n)

----------------------------------------------------------------------------
(* Messages of different kinds are different. *)
LEMMA Messages ==
    ASSUME NEW a, NEW b, NEW r
    PROVE  /\ Register(a) # GetIdle /\ Register(a) # IdleRes(b)
           /\ Register(a) # RegisterOk(r) /\ Register(a) # RegisterErr(b)
           /\ Register(a) = Register(b) => a = b
           /\ RegisterOk(a) = RegisterOk(b) => a = b
  BY DEF Register, GetIdle, IdleRes, RegisterOk, RegisterErr

LEMMA InitIInv == Init => IInv
  BY ConfigAssumption
  DEF Init, IInv, TypeInv, OneEnd, DeviceFollows, Fits, Connected

(* Steps of a node on its own connection leave the others alone. *)
LEMMA OthersFit ==
    ASSUME IInv, NEW n \in Node, NEW m \in Node, m # n,
           pc[m] \in Connected => conn[n] # conn[m] /\ conn'[n] # conn[m],
           UNCHANGED <<lease, range>>,
           pc'[m] = pc[m], conn'[m] = conn[m], asked'[m] = asked[m],
           pc[m] \in Connected =>
              wire'[conn[m]] = wire[conn[m]] /\ tunnel'[conn[m]] = tunnel[conn[m]]
    PROVE  Fits(m)'
  BY DEF IInv, Fits, HintFits, RegisterFits, RunFits, Granted, Connected

(* A session ends: the node keeps its address, gives it up or forgets it.  *)
LEMMA LeaveKeeps ==
    ASSUME IInv, NEW n \in Node, NEW l \in {"sleep", "stopped"}, Leave(n, l),
           pc[n] # "stopped", UNCHANGED <<config, tunnel, lease, range>>,
           DOMAIN tun' = Node, \A m \in Node \ {n} : tun'[m] = tun[m],
           \/ l = "stopped" /\ tun'[n] = config[n]
           \/ l = "sleep" /\ tun'[n] \in {None, tun[n]},
           DOMAIN iface' = Node,
           \A m \in Node : m # n \/ l = "sleep" => iface'[m] = iface[m]
    PROVE  IInv'
  <1> USE DEF Connected
  <1>1. /\ pc' = [pc EXCEPT ![n] = l] /\ conn' = [conn EXCEPT ![n] = NoConn]
        /\ asked' = [asked EXCEPT ![n] = None]
        /\ DOMAIN wire' = Conn
        /\ \A c \in Conn : c # conn[n] => wire'[c] = wire[c]
    BY DEF Leave, Goto
  <1>2. TypeInv'
    BY <1>1 DEF IInv, TypeInv
  <1>3. OneEnd'
    BY <1>1, SessionAssumption DEF IInv, TypeInv, OneEnd
  <1>4. DeviceFollows'
    BY <1>1 DEF IInv, TypeInv, DeviceFollows
  <1>5. ASSUME NEW m \in Node, m # n PROVE Fits(m)'
    <2>1. pc[m] \in Connected => conn[m] \in Conn /\ conn[m] # conn[n] /\ conn[m] # NoConn
      BY <1>5, SessionAssumption DEF IInv, TypeInv, OneEnd
    <2>2. QED
      BY <1>1, <1>5, <2>1, OthersFit DEF IInv, TypeInv
  <1>6. Fits(n)'
    BY <1>1 DEF Fits, IInv, TypeInv
  <1>7. QED
    BY <1>2, <1>3, <1>4, <1>5, <1>6 DEF IInv

LEMMA ConnectKeeps ==
    ASSUME IInv, NEW n \in Node, Connect(n)
    PROVE  IInv'
  <1> USE DEF Connected
  <1>1. PICK c \in Unused :
          /\ pc[n] = "sleep"
          /\ conn' = [conn EXCEPT ![n] = c]
          /\ asked' = [asked EXCEPT ![n] = tun[n]]
          /\ tunnel' = [tunnel EXCEPT ![c] = "init"]
          /\ IF tun[n] = None
             THEN Goto(n, "hint") /\ Write(c, GetIdle)
             ELSE Goto(n, "register") /\ Write(c, Register(tun[n].addr))
          /\ UNCHANGED <<config, tun, iface, lease, range>>
    BY DEF Connect
  <1>2. c \in Conn /\ \A m \in Node : conn[m] # c
    BY DEF Unused, NodeEnd
  <1>3. TypeInv'
    BY <1>1, <1>2 DEF IInv, TypeInv, Goto, Write
  <1>4. OneEnd'
    BY <1>1, <1>2 DEF IInv, TypeInv, OneEnd, Goto
  <1>5. DeviceFollows'
    BY <1>1 DEF IInv, TypeInv, DeviceFollows, Goto
  <1>6. ASSUME NEW m \in Node, m # n PROVE Fits(m)'
    <2>1. pc[m] \in Connected => conn[m] \in Conn /\ conn[m] # c /\ conn[m] # conn[n]
      BY <1>1, <1>2, <1>6, SessionAssumption DEF IInv, TypeInv
    <2>2. QED
      BY <1>1, <1>2, <1>6, <2>1, OthersFit DEF IInv, TypeInv, Goto, Write
  <1>7. Fits(n)'
    <2>1. CASE tun[n] = None
      BY <1>1, <1>2, <2>1, Messages DEF IInv, TypeInv, Goto, Write, Fits, HintFits
    <2>2. CASE tun[n] # None
      BY <1>1, <1>2, <2>2 DEF IInv, TypeInv, Goto, Write, Fits, RegisterFits
    <2>3. QED
      BY <2>1, <2>2
  <1>8. QED
    BY <1>3, <1>4, <1>5, <1>6, <1>7 DEF IInv

LEMMA HintKeeps ==
    ASSUME IInv, NEW n \in Node, ReceiveHint(n)
    PROVE  IInv'
  <1> USE DEF Connected
  <1>1. /\ pc[n] = "hint" /\ UNCHANGED <<config, tun, iface, tunnel, lease, range>>
        /\ \/ Close(n)
           \/ \E b \in Binding : /\ asked' = [asked EXCEPT ![n] = b]
                                 /\ Write(conn[n], Register(b.addr))
                                 /\ Goto(n, "register")
                                 /\ UNCHANGED conn
    BY ConfigAssumption DEF ReceiveHint, serverVars
  <1>2. CASE Close(n)
    BY <1>1, <1>2, LeaveKeeps DEF Close, IInv, TypeInv
  <1>3. ASSUME NEW b \in Binding, asked' = [asked EXCEPT ![n] = b],
               Write(conn[n], Register(b.addr)), Goto(n, "register"), UNCHANGED conn
        PROVE  IInv'
    <2>1. conn[n] \in Conn /\ tun[n] = None
      BY <1>1 DEF IInv, TypeInv, DeviceFollows
    <2>2. TypeInv' /\ OneEnd'
      BY <1>1, <1>3, <2>1 DEF IInv, TypeInv, OneEnd, Goto, Write
    <2>3. DeviceFollows'
      BY <1>1, <1>3, <2>1 DEF IInv, TypeInv, DeviceFollows, Goto
    <2>4. ASSUME NEW m \in Node, m # n PROVE Fits(m)'
      <3>1. pc[m] \in Connected => conn[m] \in Conn /\ conn[m] # conn[n]
        BY <2>4 DEF IInv, TypeInv, OneEnd
      <3>2. QED
        BY <1>1, <1>3, <2>1, <2>4, <3>1, OthersFit DEF IInv, TypeInv, Goto, Write
    <2>5. Fits(n)'
      BY <1>1, <1>3, <2>1 DEF IInv, TypeInv, Fits, HintFits, RegisterFits, Goto, Write
    <2>6. QED
      BY <2>2, <2>3, <2>4, <2>5 DEF IInv
  <1>4. QED
    BY <1>1, <1>2, <1>3

LEMMA OkKeeps ==
    ASSUME IInv, NEW n \in Node, ReceiveOk(n)
    PROVE  IInv'
  <1> USE DEF Connected
  <1>1. /\ pc[n] = "register" /\ wire[conn[n]] = RegisterOk(asked[n].cidr)
        /\ tun' = [tun EXCEPT ![n] = asked[n]]
        /\ iface' = IF tun[n] = None THEN [iface EXCEPT ![n] = asked[n]] ELSE iface
        /\ pc' = [pc EXCEPT ![n] = "run"]
        /\ wire' = [wire EXCEPT ![conn[n]] = NoMsg]
        /\ UNCHANGED <<config, conn, asked, tunnel, lease, range>>
    BY DEF ReceiveOk, Goto, Write, serverVars
  <1>2. conn[n] \in Conn /\ asked[n] \in Binding /\ asked[n] # None
    BY <1>1, ConfigAssumption DEF IInv, TypeInv
  <1>3. TypeInv' /\ OneEnd'
    BY <1>1, <1>2 DEF IInv, TypeInv, OneEnd
  <1>4. DeviceFollows'
    BY <1>1, <1>2 DEF IInv, TypeInv, DeviceFollows
  <1>5. ASSUME NEW m \in Node, m # n PROVE Fits(m)'
    <2>1. pc[m] \in Connected => conn[m] \in Conn /\ conn[m] # conn[n]
      BY <1>5 DEF IInv, TypeInv, OneEnd
    <2>2. QED
      BY <1>1, <1>2, <1>5, <2>1, OthersFit DEF IInv, TypeInv
  <1>6. RunFits(n)'
    <2>1. tunnel[conn[n]] # "init"
      BY <1>1, Messages DEF IInv, Fits, RegisterFits
    <2>2. ASSUME tunnel[conn[n]] = "joined" PROVE asked[n].cidr = range /\ Granted(n)
      BY <1>1, <2>2, Messages DEF IInv, Fits, RegisterFits
    <2>3. QED
      BY <1>1, <2>1, <2>2 DEF RunFits, Granted
  <1>7. Fits(n)'
    BY <1>1, <1>6 DEF IInv, TypeInv, Fits
  <1>8. QED
    BY <1>3, <1>4, <1>5, <1>7 DEF IInv

(* What the server does leaves the nodes as they are. *)
LEMMA ServerKeeps ==
    ASSUME IInv, UNCHANGED nodeVars,
           DOMAIN wire' = Conn, DOMAIN tunnel' = Conn, DOMAIN lease' = Address,
           \A n \in Node : pc[n] \in Connected => Fits(n)'
    PROVE  IInv'
  <1>1. TypeInv' /\ OneEnd' /\ DeviceFollows'
    BY DEF IInv, TypeInv, OneEnd, DeviceFollows, nodeVars
  <1>2. \A n \in Node : pc[n] \notin Connected => Fits(n)'
    BY DEF Fits, Connected, nodeVars
  <1>3. QED
    BY <1>1, <1>2 DEF IInv

LEMMA ServeHintKeeps ==
    ASSUME IInv, NEW c \in Conn, ServeHint(c)
    PROVE  IInv'
  <1>1. /\ tunnel[c] = "init" /\ wire[c] = GetIdle
        /\ UNCHANGED nodeVars /\ UNCHANGED <<tunnel, lease, range>>
        /\ \E w : Answer(c, IdleRes(w))
    BY DEF ServeHint, serverVars
  <1>2. DOMAIN wire' = Conn /\ \A d \in Conn : d # c => wire'[d] = wire[d]
    BY <1>1 DEF Answer, Write, IInv, TypeInv
  <1>3. ASSUME NEW n \in Node, pc[n] \in Connected PROVE Fits(n)'
    <2>1. conn[n] \in Conn
      BY <1>3 DEF IInv, TypeInv
    <2>2. CASE conn[n] # c
      BY <1>1, <1>2, <1>3, <2>1, <2>2
      DEF IInv, Fits, HintFits, RegisterFits, RunFits, Granted, nodeVars
    <2>3. CASE conn[n] = c
      <3>1. PICK w : wire'[c] = IdleRes(w)
        BY <1>1, <1>3, <2>3 DEF Answer, Write, NodeEnd, IInv, TypeInv
      <3>2. pc[n] = "hint"
        <4>1. pc[n] # "register"
          BY <1>1, <2>3, Messages DEF IInv, Fits, RegisterFits
        <4>2. pc[n] # "run"
          BY <1>1, <2>3 DEF IInv, Fits, RunFits
        <4>3. QED
          BY <1>3, <4>1, <4>2 DEF Connected
      <3>3. QED
        BY <1>1, <2>3, <3>1, <3>2, Messages DEF IInv, Fits, HintFits, nodeVars
    <2>4. QED
      BY <2>2, <2>3
  <1>4. QED
    BY <1>1, <1>2, <1>3, ServerKeeps DEF IInv, TypeInv

LEMMA ServeRegisterKeeps ==
    ASSUME IInv, NEW c \in Conn, ServeRegister(c)
    PROVE  IInv'
  <1>1. PICK a \in Address :
          /\ tunnel[c] = "init" /\ wire[c] = Register(a)
          /\ \/ \E e : Refuse(c, e)
             \/ /\ lease[a] = NoConn
                /\ lease' = [lease EXCEPT ![a] = c]
                /\ tunnel' = [tunnel EXCEPT ![c] = "joined"]
                /\ Answer(c, RegisterOk(range))
          /\ UNCHANGED nodeVars /\ UNCHANGED range
    BY DEF ServeRegister
  <1>2. /\ DOMAIN wire' = Conn /\ DOMAIN tunnel' = Conn /\ DOMAIN lease' = Address
        /\ \A d \in Conn : d # c => wire'[d] = wire[d] /\ tunnel'[d] = tunnel[d]
        /\ \A b \in Address : lease[b] # NoConn => lease'[b] = lease[b]
    BY <1>1 DEF Answer, Write, Refuse, IInv, TypeInv
  <1>3. ASSUME NEW n \in Node, pc[n] \in Connected PROVE Fits(n)'
    <2>1. conn[n] \in Conn /\ conn[n] # NoConn
      BY <1>3, SessionAssumption DEF IInv, TypeInv
    <2>2. pc[n] \in {"register", "run"} => asked[n].addr \in Address
      BY DEF IInv, TypeInv, Binding
    <2>3. CASE conn[n] # c
      BY <1>1, <1>2, <1>3, <2>1, <2>2, <2>3
      DEF IInv, Fits, HintFits, RegisterFits, RunFits, Granted, nodeVars
    <2>4. CASE conn[n] = c
      <3>1. pc[n] = "register" /\ asked[n].addr = a
        <4>1. pc[n] # "hint"
          BY <1>1, <2>4 DEF IInv, Fits, HintFits
        <4>2. pc[n] # "run"
          BY <1>1, <2>4 DEF IInv, Fits, RunFits
        <4>3. pc[n] = "register"
          BY <1>3, <4>1, <4>2 DEF Connected
        <4>4. Register(a) = Register(asked[n].addr)
          BY <1>1, <2>4, <4>3 DEF IInv, Fits, RegisterFits
        <4>5. QED
          BY <4>3, <4>4, Messages
      <3>2. CASE \E e : Refuse(c, e)
        BY <1>1, <2>4, <3>1, <3>2
        DEF Refuse, Fits, RegisterFits, nodeVars, IInv, TypeInv
      <3>3. CASE /\ lease' = [lease EXCEPT ![a] = c]
                 /\ tunnel' = [tunnel EXCEPT ![c] = "joined"]
                 /\ Answer(c, RegisterOk(range))
        <4>1. wire'[c] = RegisterOk(range)
          BY <2>4, <3>3 DEF Answer, Write, NodeEnd, IInv, TypeInv
        <4>2. lease'[a] = c /\ tunnel'[c] = "joined"
          BY <3>3 DEF IInv, TypeInv
        <4>3. QED
          BY <1>1, <2>4, <3>1, <4>1, <4>2 DEF Fits, RegisterFits, Granted, nodeVars
      <3>4. QED
        BY <1>1, <3>2, <3>3
    <2>5. QED
      BY <2>3, <2>4
  <1>4. QED
    BY <1>1, <1>2, <1>3, ServerKeeps

(* Tunnels are closed, and what they have leased is given back. *)
LEMMA ShutKeeps ==
    ASSUME IInv, NEW closing \in SUBSET Conn, Shut(closing), UNCHANGED nodeVars,
           DOMAIN lease' = Address,
           closing = Conn \/ UNCHANGED range,
           \A a \in Address : lease[a] \in Conn \ closing => lease'[a] = lease[a]
    PROVE  IInv'
  <1>1. /\ DOMAIN wire' = Conn /\ DOMAIN tunnel' = Conn
        /\ \A c \in closing : tunnel'[c] = "closed"
        /\ \A c \in Conn \ closing : tunnel'[c] = tunnel[c] /\ wire'[c] = wire[c]
    BY DEF Shut
  <1>2. ASSUME NEW n \in Node, pc[n] \in Connected PROVE Fits(n)'
    <2>1. conn[n] \in Conn
      BY <1>2 DEF IInv, TypeInv
    <2>2. CASE conn[n] \in closing
      BY <1>1, <2>2 DEF Fits, HintFits, RegisterFits, RunFits, nodeVars
    <2>3. CASE conn[n] \notin closing
      <3>1. UNCHANGED range /\ wire'[conn[n]] = wire[conn[n]]
            /\ tunnel'[conn[n]] = tunnel[conn[n]]
        BY <1>1, <2>1, <2>3
      <3>2. pc[n] \in {"register", "run"} /\ Granted(n) => Granted(n)'
        BY <2>1, <2>3 DEF Granted, nodeVars, IInv, TypeInv, Binding
      <3>3. QED
        BY <1>2, <3>1, <3>2
        DEF IInv, Fits, HintFits, RegisterFits, RunFits, nodeVars
    <2>4. QED
      BY <2>2, <2>3
  <1>3. QED
    BY <1>1, <1>2, ServerKeeps

LEMMA DropKeeps ==
    ASSUME IInv, NEW c \in Conn, Drop(c)
    PROVE  IInv'
  BY ShutKeeps DEF Drop

LEMMA StepIInv == IInv /\ [Next]_vars => IInv'
  <1> SUFFICES ASSUME IInv, [Next]_vars PROVE IInv'
    OBVIOUS
  <1>1. ASSUME NEW n \in Node, tun' = [tun EXCEPT ![n] = None],
               Close(n), pc[n] # "stopped", UNCHANGED <<config, iface, serverVars>>
        PROVE  IInv'
    BY <1>1, LeaveKeeps DEF Close, serverVars, IInv, TypeInv
  <1>2. ASSUME NEW n \in Node, UNCHANGED tun, Close(n), pc[n] # "stopped",
               UNCHANGED <<config, iface, serverVars>>
        PROVE  IInv'
    BY <1>2, LeaveKeeps DEF Close, serverVars, IInv, TypeInv
  <1>3. ASSUME NEW n \in Node, ReceiveRefusal(n) \/ ReceiveOtherRange(n) PROVE IInv'
    <2>1. /\ pc[n] = "register" /\ Close(n) /\ UNCHANGED <<config, iface, serverVars>>
          /\ tun' = [tun EXCEPT ![n] = None] \/ UNCHANGED tun
      BY <1>3 DEF ReceiveRefusal, ReceiveOtherRange
    <2>2. QED
      BY <1>1, <1>2, <2>1
  <1>4. ASSUME NEW n \in Node, SessionEnds(n) \/ NodeLosesServer(n) PROVE IInv'
    BY <1>2, <1>4 DEF SessionEnds, NodeLosesServer, Unserved
  <1>5. ASSUME NEW n \in Node, Crash(n) PROVE IInv'
    BY <1>5, LeaveKeeps DEF Crash, serverVars, IInv, TypeInv
  <1>6. ASSUME NEW n \in Node, Start(n) PROVE IInv'
    <2>1. /\ pc[n] = "stopped" /\ pc' = [pc EXCEPT ![n] = "sleep"]
          /\ iface' = [iface EXCEPT ![n] = config[n]]
          /\ UNCHANGED <<config, conn, tun, asked, wire, tunnel, lease, range>>
      BY <1>6 DEF Start, Goto, serverVars
    <2>2. TypeInv' /\ OneEnd' /\ DeviceFollows'
      BY <2>1 DEF IInv, TypeInv, OneEnd, DeviceFollows, Connected
    <2>3. \A m \in Node : Fits(m)'
      BY <2>1 DEF IInv, TypeInv, Fits, HintFits, RegisterFits, RunFits, Granted
    <2>4. QED
      BY <2>2, <2>3 DEF IInv
  <1>7. CASE UNCHANGED <<config, pc, conn, tun, asked, iface, wire, tunnel, lease, range>>
    BY <1>7
    DEF IInv, TypeInv, OneEnd, DeviceFollows, Fits, HintFits, RegisterFits, RunFits, Granted
  <1>8. ASSUME NEW n \in Node, WriteFails(n) PROVE IInv'
    BY <1>7, <1>8 DEF WriteFails, serverVars
  <1>9. ASSUME Restart PROVE IInv'
    BY <1>9, ShutKeeps DEF Restart
  <1>10. ASSUME NEW c \in Conn, DropTunnel(c) \/ ServerLosesNode(c) PROVE IInv'
    BY <1>10, DropKeeps DEF DropTunnel, ServerLosesNode
  <1>11. CASE UNCHANGED vars
    BY <1>7, <1>11 DEF vars, nodeVars, serverVars
  <1>12. QED
    BY <1>3, <1>4, <1>5, <1>6, <1>8, <1>9, <1>10, <1>11,
       ConnectKeeps, HintKeeps, OkKeeps, ServeHintKeeps, ServeRegisterKeeps
    DEF Next, Regular, Trouble, NodeStep, SessionStep, ServerStep

(* While both ends of a session are up, the address and range on the       *)
(* node's device are those the server has allocated to its connection.     *)
THEOREM ServedAsRegistered == Spec => []ServedUnderOwnAddress
  <1>1. IInv => ServedUnderOwnAddress
    BY DEF IInv, DeviceFollows, Fits, RunFits, Granted, ServedUnderOwnAddress
  <1>2. QED
    BY <1>1, InitIInv, StepIInv, PTL DEF Spec

----------------------------------------------------------------------------
(* What is on a connection, and who has an address. *)
ConnTyped ==
    /\ wire \in [Conn -> Msg \cup {NoMsg}]
    /\ tunnel \in [Conn -> {"closed", "init", "joined"}]
    /\ lease \in [Address -> Conn \cup {NoConn}]
    /\ range \in Ranges
    /\ restarts \in 0 .. MaxRestarts

NodeTyped ==
    /\ config \in Configs
    /\ pc \in [Node -> {"sleep", "hint", "register", "run", "stopped"}]
    /\ conn \in [Node -> Conn \cup {NoConn}]
    /\ tun \in [Node -> Binding \cup {None}]
    /\ asked \in [Node -> Binding \cup {None}]
    /\ iface \in [Node -> Binding \cup {None}]
    /\ stuck \in [Node -> BOOLEAN]

LEMMA MsgIs ==
    /\ GetIdle \in Msg
    /\ \A a \in Address : Register(a) \in Msg
    /\ \A b \in Binding \cup {None} : IdleRes(b) \in Msg
    /\ \A r \in Ranges : RegisterOk(r) \in Msg
    /\ \A e \in Error : RegisterErr(e) \in Msg
  BY DEF Msg, Reply

LEMMA WriteIsTyped ==
    ASSUME wire \in [Conn -> Msg \cup {NoMsg}], NEW c, NEW m \in Msg \cup {NoMsg}, Write(c, m)
    PROVE  wire' \in [Conn -> Msg \cup {NoMsg}]
  BY DEF Write

LEMMA LeaveIsTyped ==
    ASSUME ConnTyped, NodeTyped, NEW n \in Node, NEW l \in {"sleep", "stopped"}, Leave(n, l),
           UNCHANGED serverVars, config' = config,
           tun' = tun \/ tun' = [tun EXCEPT ![n] = None]
               \/ tun' = [tun EXCEPT ![n] = config[n]],
           iface' = iface \/ iface' = [iface EXCEPT ![n] = None],
           stuck' = stuck \/ \E b \in BOOLEAN : stuck' = [stuck EXCEPT ![n] = b]
    PROVE  ConnTyped' /\ NodeTyped'
  <1>1. ConnTyped'
    BY DEF ConnTyped, Leave, serverVars
  <1>2. config[n] \in Binding \cup {None}
    BY ConfigAssumption DEF NodeTyped
  <1>3. /\ tun' \in [Node -> Binding \cup {None}]
        /\ iface' \in [Node -> Binding \cup {None}]
        /\ stuck' \in [Node -> BOOLEAN]
    BY <1>2 DEF NodeTyped
  <1>4. NodeTyped'
    BY <1>3 DEF NodeTyped, Leave, Goto
  <1>5. QED
    BY <1>1, <1>4

LEMMA InitTypes == Init => ConnTyped /\ NodeTyped
  BY ConfigAssumption, SessionAssumption DEF Init, ConnTyped, NodeTyped

LEMMA ConnectTypes ==
    ASSUME ConnTyped, NodeTyped, NEW n \in Node, Connect(n)
    PROVE  ConnTyped' /\ NodeTyped'
  <1>1. PICK c \in Unused :
          /\ conn' = [conn EXCEPT ![n] = c]
          /\ asked' = [asked EXCEPT ![n] = tun[n]]
          /\ tunnel' = [tunnel EXCEPT ![c] = "init"]
          /\ IF tun[n] = None
             THEN Goto(n, "hint") /\ Write(c, GetIdle)
             ELSE Goto(n, "register") /\ Write(c, Register(tun[n].addr))
          /\ UNCHANGED <<config, tun, iface, stuck, lease, range, restarts>>
    BY DEF Connect
  <1>2. c \in Conn /\ tun[n] \in Binding \cup {None}
    BY DEF Unused, NodeTyped
  <1>3. tun[n] # None => tun[n].addr \in Address
    BY <1>2 DEF Binding
  <1>4. wire' \in [Conn -> Msg \cup {NoMsg}]
    BY <1>1, <1>3, MsgIs, WriteIsTyped DEF ConnTyped
  <1>5. ConnTyped'
    BY <1>1, <1>4 DEF ConnTyped
  <1>6. NodeTyped'
    BY <1>1, <1>2 DEF NodeTyped, Goto
  <1>7. QED
    BY <1>5, <1>6

LEMMA SessionTypes ==
    ASSUME ConnTyped, NodeTyped, IInv, NEW n \in Node, SessionStep(n)
    PROVE  ConnTyped' /\ NodeTyped'
  <1>1. CASE Close(n) /\ UNCHANGED <<config, iface, stuck, serverVars>>
                /\ (tun' = tun \/ tun' = [tun EXCEPT ![n] = None])
    BY <1>1, LeaveIsTyped DEF Close
  <1>2. ASSUME NEW b \in Binding, asked' = [asked EXCEPT ![n] = b],
               Write(conn[n], Register(b.addr)), Goto(n, "register"),
               UNCHANGED <<conn, config, tun, iface, stuck, serverVars>>
        PROVE  ConnTyped' /\ NodeTyped'
    <2>1. b.addr \in Address
      BY DEF Binding
    <2>2. wire' \in [Conn -> Msg \cup {NoMsg}]
      BY <1>2, <2>1, MsgIs, WriteIsTyped DEF ConnTyped
    <2>3. QED
      BY <1>2, <2>2 DEF ConnTyped, NodeTyped, Goto, serverVars
  <1>3. CASE ReceiveHint(n)
    BY <1>1, <1>2, <1>3, ConfigAssumption DEF ReceiveHint
  <1>4. CASE ReceiveRefusal(n) \/ ReceiveOtherRange(n) \/ SessionEnds(n)
    BY <1>1, <1>4 DEF ReceiveRefusal, ReceiveOtherRange, SessionEnds
  <1>5. CASE ReceiveOk(n)
    <2>1. wire' \in [Conn -> Msg \cup {NoMsg}]
      BY <1>5, WriteIsTyped DEF ReceiveOk, ConnTyped
    <2>2. asked[n] \in Binding \cup {None}
      BY DEF NodeTyped
    <2>3. QED
      BY <1>5, <2>1, <2>2 DEF ReceiveOk, ConnTyped, NodeTyped, Goto, serverVars
  <1>6. QED
    BY <1>3, <1>4, <1>5 DEF SessionStep

LEMMA ServerTypes ==
    ASSUME ConnTyped, NEW c \in Conn, ServerStep(c) \/ ServerLosesNode(c)
    PROVE  ConnTyped' /\ UNCHANGED nodeVars
  <1>1. CASE ServeHint(c)
    <2>1. PICK b \in Binding \cup {None} : Answer(c, IdleRes(b))
      <3>1. range \subseteq Address
        BY SessionAssumption DEF ConnTyped
      <3>2. ASSUME NEW a \in Idle PROVE [addr |-> a, cidr |-> range] \in Binding
        BY <3>1 DEF Idle, Binding, ConnTyped
      <3>3. QED
        BY <1>1, <3>2 DEF ServeHint
    <2>2. wire' \in [Conn -> Msg \cup {NoMsg}]
      BY <2>1, MsgIs, WriteIsTyped DEF Answer, ConnTyped
    <2>3. QED
      BY <1>1, <2>2 DEF ServeHint, ConnTyped, serverVars
  <1>2. CASE ServeRegister(c)
    <2>1. PICK a \in Address :
            /\ \/ \E e \in Error : Refuse(c, e)
               \/ /\ lease' = [lease EXCEPT ![a] = c]
                  /\ tunnel' = [tunnel EXCEPT ![c] = "joined"]
                  /\ Answer(c, RegisterOk(range))
            /\ UNCHANGED <<nodeVars, range, restarts>>
      BY <1>2 DEF ServeRegister, Error
    <2>2. \E m \in Msg : Answer(c, m)
      BY <2>1, MsgIs DEF Refuse, ConnTyped
    <2>3. wire' \in [Conn -> Msg \cup {NoMsg}]
      BY <2>2, WriteIsTyped DEF Answer, ConnTyped
    <2>4. /\ tunnel' \in [Conn -> {"closed", "init", "joined"}]
          /\ lease' \in [Address -> Conn \cup {NoConn}]
      BY <2>1 DEF Refuse, ConnTyped
    <2>5. QED
      BY <2>1, <2>3, <2>4 DEF ConnTyped
  <1>3. CASE Drop(c)
    BY <1>3 DEF Drop, Shut, ConnTyped
  <1>4. QED
    BY <1>1, <1>2, <1>3 DEF ServerStep, DropTunnel, ServerLosesNode

LEMMA StepTypes == IInv /\ ConnTyped /\ NodeTyped /\ [Next]_vars => ConnTyped' /\ NodeTyped'
  <1> SUFFICES ASSUME IInv, ConnTyped, NodeTyped, [Next]_vars PROVE ConnTyped' /\ NodeTyped'
    OBVIOUS
  <1>1. ASSUME UNCHANGED nodeVars PROVE NodeTyped'
    BY <1>1 DEF nodeVars, NodeTyped
  <1>2. ASSUME NEW n \in Node, NodeStep(n) PROVE ConnTyped' /\ NodeTyped'
    <2>1. CASE WriteFails(n) \/ Start(n)
      <3>1. config[n] \in Binding \cup {None}
        BY ConfigAssumption DEF NodeTyped
      <3>2. QED
        BY <2>1, <3>1 DEF WriteFails, Start, Goto, ConnTyped, NodeTyped, serverVars
    <2>2. QED
      BY <1>2, <2>1, ConnectTypes, SessionTypes DEF NodeStep
  <1>3. ASSUME NEW c \in Conn, ServerStep(c) \/ ServerLosesNode(c)
        PROVE  ConnTyped' /\ NodeTyped'
    BY <1>1, <1>3, ServerTypes
  <1>4. ASSUME NEW n \in Node, Crash(n) PROVE ConnTyped' /\ NodeTyped'
    BY <1>4, LeaveIsTyped DEF Crash
  <1>5. ASSUME NEW n \in Node, NodeLosesServer(n) PROVE ConnTyped' /\ NodeTyped'
    BY <1>5, LeaveIsTyped DEF NodeLosesServer, Close
  <1>6. CASE Restart
    <2>1. restarts' \in 0 .. MaxRestarts
      BY <1>6, SessionAssumption DEF Restart, ConnTyped
    <2>2. ConnTyped'
      BY <1>6, <2>1 DEF Restart, Shut, ConnTyped
    <2>3. QED
      BY <1>1, <1>6, <2>2 DEF Restart
  <1>7. CASE UNCHANGED vars
    BY <1>1, <1>7 DEF vars, serverVars, ConnTyped
  <1>8. QED
    BY <1>2, <1>3, <1>4, <1>5, <1>6, <1>7 DEF Next, Regular, Trouble

(* Only messages of the protocol are on the connections, and addresses are *)
(* leased to connections: whatever breaks, crashes or restarts when.       *)
THEOREM SessionIsTyped == Spec => []TypeOK
  <1>1. ConnTyped /\ NodeTyped => TypeOK
    BY DEF ConnTyped, NodeTyped, TypeOK
  <1>2. Init => IInv /\ ConnTyped /\ NodeTyped
    BY InitIInv, InitTypes
  <1>3. IInv /\ ConnTyped /\ NodeTyped /\ [Next]_vars => (IInv /\ ConnTyped /\ NodeTyped)'
    BY StepIInv, StepTypes
  <1>4. QED
    BY <1>1, <1>2, <1>3, PTL DEF Spec
================================================================================
