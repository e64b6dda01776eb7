--------------------------- MODULE ServerLinkProofs ---------------------------
(***************************************************************************)
(* The status that the server keeps of a node's UDP follows the replies,   *)
(* for any limits, sequence numbers, addresses and numbers of datagrams.   *)
(***************************************************************************)
EXTENDS ServerLink, FiniteSetTheorems, TLAPS

TypeInv ==
    /\ hc \in Cache
    /\ wan \in Addr \cup {NoAddr}
    /\ rounds \in [1 .. LossLimit -> {Unasked, "lost", "answered"}]
    /\ session \in Nat

(* What a datagram under way, or about to be sent, carries a number of.    *)
Carries(s) == (\E d \in net : d.kind # "NodeReq" /\ d.seq = s) \/ (\E p \in list : p.seq = s)

(* A handle that has not been pinged is as new, and nothing that is under  *)
(* way is taken for a reply to it.                                         *)
NewIsUnasked ==
    /\ ~hc.sent => hc = NewCache /\ ~Carries(0)
    /\ hc.sent => wan # NoAddr

(* The counter of lost rounds and the history: what it counts was lost     *)
(* before the present round, which is lost as yet, or it is zero.          *)
LossIsCounted ==
    \/ hc.loss = 0 /\ (~hc.is_send \/ hc.is_reply)
    \/ /\ hc.is_send /\ ~hc.is_reply
       /\ \A i \in 1 .. hc.loss + 1 : i <= LossLimit => rounds[i] = "lost"

IInv == TypeInv /\ NewIsUnasked /\ LossIsCounted /\ AvailableIsAlive

----------------------------------------------------------------------------
(* The operations on the counters *)
LEMMA UpToIs ==
    ASSUME NEW limit \in Nat \ {0}, NEW n \in 0 .. limit
    PROVE  /\ UpTo(n + 1, limit) \in 0 .. limit /\ UpTo(n + 1, limit) <= n + 1
           /\ UpTo(n + 1, limit) = n + 1 \/ UpTo(n + 1, limit) = limit
  BY DEF UpTo

LEMMA CheckIs ==
    ASSUME NEW c \in Cache
    PROVE  /\ Check(c) \in Cache /\ Check(c).sent = c.sent
           /\ c.is_send /\ ~c.is_reply =>
                /\ Check(c).loss <= c.loss + 1
                /\ Check(c).loss = c.loss + 1 \/ Check(c).loss = LossLimit
           /\ ~(c.is_send /\ ~c.is_reply) => Check(c).loss = c.loss
  <1>1. c.loss \in 0 .. LossLimit /\ c.recv \in 0 .. RecvLimit
    BY DEF Cache
  <1> DEFINE more == UpTo(c.loss + 1, LossLimit)
  <1>2. more \in 0 .. LossLimit /\ more <= c.loss + 1 /\ (more = c.loss + 1 \/ more = LossLimit)
    BY <1>1, HeartbeatAssumption, UpToIs
  <1>3. Check(c) = IF c.is_send /\ ~c.is_reply
                   THEN [c EXCEPT !.is_send = FALSE, !.recv = 0, !.loss = more]
                   ELSE [c EXCEPT !.is_send = FALSE]
    BY DEF Check
  <1> HIDE DEF more
  <1>4. 0 \in 0 .. RecvLimit
    BY HeartbeatAssumption
  <1>5. QED
    BY <1>2, <1>3, <1>4 DEF Cache

LEMMA PingIs ==
    ASSUME NEW c \in Cache
    PROVE  /\ Ping(c) \in Cache /\ Ping(c).sent /\ Ping(c).loss = c.loss
           /\ Ping(c).is_send /\ ~Ping(c).is_reply
  <1>1. (c.seq + 1) % SeqMod \in Seq32
    BY HeartbeatAssumption DEF Cache, Seq32
  <1>2. QED
    BY <1>1 DEF Ping, Cache

LEMMA ReplyIs ==
    ASSUME NEW c \in Cache
    PROVE  /\ Reply(c) \in Cache /\ Reply(c).sent = c.sent /\ Reply(c).loss = 0
           /\ Reply(c).is_reply /\ Reply(c).seq = c.seq
  <1>1. UpTo(c.recv + 1, RecvLimit) \in 0 .. RecvLimit /\ 0 \in 0 .. LossLimit
    BY HeartbeatAssumption, UpToIs DEF Cache
  <1>2. QED
    BY <1>1 DEF Reply, Cache

LEMMA NewIs == NewCache \in Cache /\ NewCache.seq = 0 /\ ~NewCache.sent
               /\ NewCache.loss = 0 /\ ~NewCache.is_send
  BY HeartbeatAssumption DEF NewCache, Cache, Seq32

LEMMA InitIInv == Init => IInv
  BY NewIs, HeartbeatAssumption
  DEF Init, IInv, TypeInv, NewIsUnasked, Carries, LossIsCounted, AvailableIsAlive,
      NoRounds

(* Who is given up has lost as many rounds as the limit says. *)
LEMMA GivenUpIsLost ==
    ASSUME IInv, Overdue(Check(hc))
    PROVE  \A i \in 1 .. LossLimit : rounds[i] = "lost"
  <1>1. hc \in Cache /\ Check(hc).loss >= LossLimit /\ LossLimit \in Nat \ {0}
    BY HeartbeatAssumption DEF IInv, TypeInv, Overdue
  <1>2. hc.loss \in Nat
    BY <1>1 DEF Cache
  <1>3. hc.is_send /\ ~hc.is_reply
    BY <1>1, CheckIs DEF IInv, LossIsCounted
  <1>4. hc.loss + 1 >= LossLimit
    BY <1>1, <1>2, <1>3, CheckIs
  <1>5. \A i \in 1 .. hc.loss + 1 : i <= LossLimit => rounds[i] = "lost"
    BY <1>3 DEF IInv, LossIsCounted
  <1>6. QED
    BY <1>1, <1>2, <1>4, <1>5, HeartbeatAssumption

(* A step that leaves the handle and its history alone, and sends nothing  *)
(* with a number that nothing had.                                         *)
LEMMA HandleKeeps ==
    ASSUME IInv, UNCHANGED <<hc, status, rounds, session>>,
           wan' = wan \/ wan' \in Addr,
           \A s : Carries(s)' => Carries(s)
    PROVE  IInv'
  BY LinkAssumption
  DEF IInv, TypeInv, NewIsUnasked, LossIsCounted, AvailableIsAlive

LEMMA HeartbeatKeeps == IInv /\ Heartbeat => IInv'
  <1> SUFFICES ASSUME IInv, Heartbeat PROVE IInv'
    OBVIOUS
  <1> DEFINE checked == Check(hc)
  <1>1. hc \in Cache /\ checked \in Cache /\ hc' = Ping(checked)
    BY CheckIs DEF IInv, TypeInv, Heartbeat
  <1>2. /\ hc' \in Cache /\ hc'.sent /\ hc'.loss = checked.loss
        /\ hc'.is_send /\ ~hc'.is_reply
    BY <1>1, PingIs
  <1>3. /\ wan # NoAddr /\ wan' = wan
        /\ status' = IF status # Unavailable /\ Overdue(checked) THEN Unavailable ELSE status
        /\ rounds' = [i \in 1 .. LossLimit |-> IF i > 1 THEN rounds[i - 1] ELSE "lost"]
    BY DEF Heartbeat
  <1> HIDE DEF checked
  <1>4. TypeInv'
    <2>1. \A i \in 1 .. LossLimit : i > 1 => i - 1 \in 1 .. LossLimit
      BY HeartbeatAssumption
    <2>2. QED
      BY <1>2, <1>3, <2>1 DEF IInv, TypeInv, Heartbeat
  <1>5. NewIsUnasked'
    BY <1>2, <1>3 DEF NewIsUnasked
  <1>6. AvailableIsAlive'
    BY <1>2, <1>3 DEF IInv, AvailableIsAlive, Overdue
  <1>7. LossIsCounted'
    <2> SUFFICES ASSUME NEW i \in 1 .. hc'.loss + 1, i <= LossLimit PROVE rounds'[i] = "lost"
      BY <1>2 DEF LossIsCounted
    <2>1. hc.loss \in Nat /\ checked.loss \in Nat
      BY <1>1 DEF Cache
    <2>2. i \in 1 .. LossLimit /\ i - 1 <= checked.loss
      BY <1>2, <2>1, HeartbeatAssumption
    <2>3. CASE i = 1
      BY <1>3, <2>2, <2>3
    <2>4. CASE i > 1
      <3>1. rounds'[i] = rounds[i - 1] /\ i - 1 \in 1 .. checked.loss /\ i - 1 <= LossLimit
        BY <1>3, <2>1, <2>2, <2>4, HeartbeatAssumption
      <3>2. hc.is_send /\ ~hc.is_reply
        BY <1>1, <2>1, <3>1, CheckIs DEF IInv, LossIsCounted, checked
      <3>3. checked.loss <= hc.loss + 1
        BY <1>1, <3>2, CheckIs DEF checked
      <3>4. i - 1 \in 1 .. hc.loss + 1
        BY <2>1, <3>1, <3>3
      <3>5. QED
        BY <3>1, <3>2, <3>4 DEF IInv, LossIsCounted
    <2>5. QED
      BY <2>2, <2>3, <2>4
  <1>8. QED
    BY <1>4, <1>5, <1>6, <1>7 DEF IInv

LEMMA ResponseKeeps == IInv /\ ReceiveResponse => IInv'
  <1> SUFFICES ASSUME IInv, NEW d \in net, NEW left \in Left(d), d.kind = "Resp",
                      net' = left, UNCHANGED <<wan, list, session>>,
                      IF IsReply(hc, d.seq)
                      THEN /\ hc' = Reply(hc)
                           /\ status' = IF status = Unavailable /\ Steady(hc')
                                        THEN d.addr ELSE status
                           /\ rounds' = [rounds EXCEPT ![1] = "answered"]
                      ELSE UNCHANGED <<hc, status, rounds>>
               PROVE  IInv'
    BY DEF ReceiveResponse
  <1>1. net' \subseteq net
    BY DEF Left
  <1>2. \A s : Carries(s)' => Carries(s)
    BY <1>1 DEF Carries
  <1>3. CASE ~IsReply(hc, d.seq)
    BY <1>2, <1>3, HandleKeeps
  <1>4. CASE IsReply(hc, d.seq)
    <2>1. Carries(hc.seq) /\ hc \in Cache
      BY <1>4 DEF Carries, IsReply, IInv, TypeInv
    <2>2. hc.sent /\ wan # NoAddr
      BY <2>1, NewIs DEF IInv, NewIsUnasked
    <2>3. hc' \in Cache /\ hc'.sent /\ hc'.loss = 0 /\ hc'.is_reply
      BY <1>4, <2>1, <2>2, ReplyIs
    <2>4. rounds' \in [1 .. LossLimit -> {Unasked, "lost", "answered"}]
      <3>1. 1 \in 1 .. LossLimit
        BY HeartbeatAssumption
      <3>2. QED
        BY <1>4, <3>1 DEF IInv, TypeInv
    <2>5. TypeInv' /\ NewIsUnasked' /\ LossIsCounted'
      BY <2>2, <2>3, <2>4 DEF IInv, TypeInv, NewIsUnasked, LossIsCounted
    <2>6. AvailableIsAlive'
      BY <2>2, <2>3, HeartbeatAssumption DEF AvailableIsAlive, Overdue
    <2>7. QED
      BY <2>5, <2>6 DEF IInv
  <1>5. QED
    BY <1>3, <1>4

LEMMA RejoinKeeps == IInv /\ Rejoin => IInv'
  <1> SUFFICES ASSUME IInv, Rejoin PROVE IInv'
    OBVIOUS
  <1>1. /\ hc' = NewCache /\ status' = Unavailable /\ wan' = NoAddr /\ rounds' = NoRounds
        /\ ~Carries(0)' /\ session' \in Nat
    BY DEF Rejoin, Carries, IInv, TypeInv
  <1>2. rounds' \in [1 .. LossLimit -> {Unasked, "lost", "answered"}]
    BY <1>1 DEF NoRounds
  <1>3. QED
    BY <1>1, <1>2, NewIs
    DEF IInv, TypeInv, NewIsUnasked, LossIsCounted, AvailableIsAlive

LEMMA StepIInv == IInv /\ [Next]_vars => IInv'
  <1> SUFFICES ASSUME IInv, [Next]_vars PROVE IInv'
    OBVIOUS
  <1> USE DEF Carries
  <1>1. ASSUME SendHeartbeat PROVE IInv'
    BY <1>1, HandleKeeps DEF SendHeartbeat, Send, Req
  <1>2. ASSUME NEW a \in Addr, ReceiveRequest(a) PROVE IInv'
    BY <1>2, HandleKeeps DEF ReceiveRequest, Left
  <1>3. ASSUME NodeHeartbeat PROVE IInv'
    BY <1>3, HandleKeeps DEF NodeHeartbeat, Send, NodeReq, serverVars
  <1>4. ASSUME NodeAnswers PROVE IInv'
    BY <1>4, HandleKeeps DEF NodeAnswers, Send, Resp, Left, serverVars
  <1>5. ASSUME Lose \/ Rebind \/ NodeFlips \/ GoodNetwork \/ UNCHANGED vars PROVE IInv'
    BY <1>5, HandleKeeps DEF Lose, Rebind, NodeFlips, GoodNetwork, serverVars, vars
  <1>6. QED
    BY <1>1, <1>2, <1>3, <1>4, <1>5, HeartbeatKeeps, ResponseKeeps, RejoinKeeps DEF Next

(* A node is Available only at a server that knows its address and has     *)
(* pinged it in this session, and not with LossLimit pings lost in a row.  *)
THEOREM AvailableAlive == Spec => []AvailableIsAlive
  <1>1. IInv => AvailableIsAlive
    BY DEF IInv
  <1>2. QED
    BY <1>1, InitIInv, StepIInv, PTL DEF Spec

(* Within a session a node is given up only after LossLimit rounds without *)
(* a reply, whatever was lost, late or doubled.                            *)
LEMMA GivingUp ==
    ASSUME IInv, [Next]_vars, status # Unavailable, status' = Unavailable, session' = session
    PROVE  \A i \in 1 .. LossLimit : rounds[i] = "lost"
  <1>1. CASE Heartbeat
    BY <1>1, GivenUpIsLost DEF Heartbeat
  <1>2. CASE ~Heartbeat
    <2>1. status' = status \/ Rejoin
      <3>1. ReceiveResponse => status' = status
        BY DEF ReceiveResponse
      <3>2. QED
        BY <1>2, <3>1 DEF Next, vars, SendHeartbeat, ReceiveRequest, NodeHeartbeat,
           NodeAnswers, Lose, Rebind, NodeFlips, GoodNetwork, serverVars
    <2>2. QED
      BY <2>1 DEF Rejoin, IInv, TypeInv
  <1>3. QED
    BY <1>1, <1>2

THEOREM GivenUpAfterLoss == Spec => DownAfterLostRounds
  <1>1. IInv /\ [Next]_vars =>
          [status # Unavailable /\ status' = Unavailable /\ session' = session =>
              \A i \in 1 .. LossLimit : rounds[i] = "lost"]_vars
    BY GivingUp
  <1>2. QED
    BY <1>1, InitIInv, StepIInv, PTL DEF Spec, DownAfterLostRounds

----------------------------------------------------------------------------
(* The network never holds more than it may. *)
NetIsBounded ==
    /\ net \subseteq Datagram
    /\ IsFiniteSet(net) /\ Cardinality(net) <= InFlight

RestTyped ==
    /\ status \in Addr \cup {Unavailable}
    /\ list \subseteq [addr : Addr, seq : Seq32]
    /\ nodeAddr \in Addr /\ nodeUp \in BOOLEAN /\ calm \in BOOLEAN
    /\ session \in 1 .. Sessions

TypeIInv == IInv /\ NetIsBounded /\ RestTyped

LEMMA FewerAreBounded ==
    ASSUME NetIsBounded, net' \subseteq net
    PROVE  NetIsBounded'
  <1>1. IsFiniteSet(net') /\ Cardinality(net') <= Cardinality(net)
        /\ Cardinality(net) \in Nat /\ Cardinality(net') \in Nat
    BY FS_Subset, FS_CardinalityType DEF NetIsBounded
  <1>2. QED
    BY <1>1, LinkAssumption DEF NetIsBounded

LEMMA SendIsBounded ==
    ASSUME NetIsBounded, NEW d \in Datagram, NEW rest, rest \subseteq net, Send(d, rest)
    PROVE  NetIsBounded'
  <1>1. CASE net' = rest
    BY <1>1, FewerAreBounded
  <1>2. CASE net' = rest \cup {d} /\ Cardinality(net') <= InFlight
    <2>1. IsFiniteSet(rest)
      BY FS_Subset DEF NetIsBounded
    <2>2. IsFiniteSet(net')
      BY <1>2, <2>1, FS_AddElement
    <2>3. QED
      BY <1>2, <2>2 DEF NetIsBounded
  <1>3. QED
    BY <1>1, <1>2 DEF Send

LEMMA DatagramsAre ==
    ASSUME NEW a \in Addr, NEW s \in Seq32
    PROVE  NodeReq(a) \in Datagram /\ Req(a, s) \in Datagram /\ Resp(a, s) \in Datagram
  BY DEF NodeReq, Req, Resp, Datagram

LEMMA LeftIsLess ==
    ASSUME NEW d, NEW left \in Left(d)
    PROVE  left \subseteq net
  BY DEF Left

LEMMA InitTypes == Init => TypeIInv
  <1>1. Init => NetIsBounded
    BY FS_EmptySet, LinkAssumption DEF Init, NetIsBounded
  <1>2. 1 \in 1 .. Sessions
    BY LinkAssumption
  <1>3. Init => RestTyped
    BY <1>2 DEF Init, RestTyped
  <1>4. QED
    BY <1>1, <1>3, InitIInv DEF TypeIInv

LEMMA StepTypes == TypeIInv /\ [Next]_vars => TypeIInv'
  <1> SUFFICES ASSUME TypeIInv, [Next]_vars PROVE NetIsBounded' /\ RestTyped'
    BY StepIInv DEF TypeIInv
  <1>1. hc \in Cache /\ wan \in Addr \cup {NoAddr} /\ NetIsBounded /\ RestTyped
    BY DEF TypeIInv, IInv, TypeInv
  <1>2. CASE Heartbeat
    <2>1. hc' \in Cache /\ hc'.seq \in Seq32
      BY <1>1, <1>2, CheckIs, PingIs DEF Heartbeat, Cache
    <2>2. hc' = Ping(Check(hc)) /\ wan \in Addr
      BY <1>1, <1>2 DEF Heartbeat
    <2>3. list' = {[addr |-> wan, seq |-> hc'.seq]} /\ net' \subseteq net
          /\ status' \in {status, Unavailable} /\ UNCHANGED <<nodeAddr, nodeUp, calm, session>>
      BY <1>2, <2>2 DEF Heartbeat, nodeVars
    <2>4. RestTyped'
      BY <1>1, <2>1, <2>2, <2>3 DEF RestTyped
    <2>5. QED
      BY <1>1, <2>3, <2>4, FewerAreBounded
  <1>3. CASE SendHeartbeat
    <2>1. PICK p \in list : /\ list' = list \ {p} /\ Send(Req(p.addr, p.seq), net)
                            /\ UNCHANGED <<status, nodeVars, calm, session>>
      BY <1>3 DEF SendHeartbeat
    <2>2. Req(p.addr, p.seq) \in Datagram
      BY <1>1, DatagramsAre DEF RestTyped
    <2>3. RestTyped'
      BY <1>1, <2>1 DEF RestTyped, nodeVars
    <2>4. QED
      BY <1>1, <2>1, <2>2, <2>3, SendIsBounded
  <1>4. ASSUME NEW a \in Addr, ReceiveRequest(a) PROVE NetIsBounded' /\ RestTyped'
    <2>1. net' \subseteq net /\ RestTyped'
      BY <1>1, <1>4, LeftIsLess DEF ReceiveRequest, RestTyped, nodeVars
    <2>2. QED
      BY <1>1, <2>1, FewerAreBounded
  <1>5. CASE ReceiveResponse
    <2>1. PICK d \in net : \E left \in Left(d) :
              /\ d.kind = "Resp" /\ net' = left
              /\ status' \in {status, d.addr}
              /\ UNCHANGED <<list, nodeVars, calm, session>>
      BY <1>5 DEF ReceiveResponse
    <2>2. d.addr \in Addr /\ net' \subseteq net
      BY <1>1, <2>1, LeftIsLess DEF NetIsBounded, Datagram
    <2>3. RestTyped'
      BY <1>1, <2>1, <2>2 DEF RestTyped, nodeVars
    <2>4. QED
      BY <1>1, <2>2, <2>3, FewerAreBounded
  <1>6. CASE Rejoin
    <2>1. session' \in 1 .. Sessions
      BY <1>1, <1>6, LinkAssumption DEF Rejoin, RestTyped
    <2>2. /\ net' \subseteq net /\ list' \subseteq list /\ status' = Unavailable
          /\ UNCHANGED <<nodeAddr, nodeUp, calm>>
      BY <1>6 DEF Rejoin, nodeVars
    <2>3. RestTyped'
      BY <1>1, <2>1, <2>2 DEF RestTyped
    <2>4. QED
      BY <1>1, <2>2, <2>3, FewerAreBounded
  <1>7. CASE NodeHeartbeat
    <2>1. Send(NodeReq(nodeAddr), net) /\ RestTyped'
      BY <1>1, <1>7 DEF NodeHeartbeat, RestTyped, serverVars, nodeVars
    <2>2. NodeReq(nodeAddr) \in Datagram
      BY <1>1 DEF RestTyped, NodeReq, Datagram
    <2>3. QED
      BY <1>1, <2>1, <2>2, SendIsBounded
  <1>8. CASE NodeAnswers
    <2>1. PICK d \in net : \E left \in Left(d) :
              /\ d.kind = "Req"
              /\ Send(Resp(nodeAddr, d.seq), left) \/ net' = left
              /\ UNCHANGED <<serverVars, nodeVars, calm, session>>
      BY <1>8 DEF NodeAnswers
    <2>2. PICK left \in Left(d) : Send(Resp(nodeAddr, d.seq), left) \/ net' = left
      BY <2>1
    <2>3. left \subseteq net
      BY LeftIsLess
    <2>4. Resp(nodeAddr, d.seq) \in Datagram
      BY <1>1, <2>1, DatagramsAre DEF NetIsBounded, RestTyped, Datagram
    <2>5. NetIsBounded'
      BY <1>1, <2>2, <2>3, <2>4, SendIsBounded, FewerAreBounded
    <2>6. RestTyped'
      BY <1>1, <2>1 DEF RestTyped, serverVars, nodeVars
    <2>7. QED
      BY <2>5, <2>6
  <1>9. CASE Lose \/ Rebind \/ NodeFlips \/ GoodNetwork \/ UNCHANGED vars
    <2>1. net' \subseteq net
      BY <1>9 DEF Lose, Rebind, NodeFlips, GoodNetwork, vars
    <2>2. RestTyped'
      BY <1>1, <1>9
      DEF Lose, Rebind, NodeFlips, GoodNetwork, vars, serverVars, nodeVars, RestTyped
    <2>3. QED
      BY <1>1, <2>1, <2>2, FewerAreBounded
  <1>10. QED
    BY <1>2, <1>3, <1>4, <1>5, <1>6, <1>7, <1>8, <1>9 DEF Next

(* The counters of a handle stay within their limits, whatever arrives and *)
(* however often a node registers; the network keeps to its bound.         *)
THEOREM LinkIsTyped == Spec => []TypeOK
  <1>1. TypeIInv => TypeOK
    BY DEF TypeIInv, IInv, TypeInv, NetIsBounded, RestTyped, TypeOK
  <1>2. QED
    BY <1>1, InitTypes, StepTypes, PTL DEF Spec
=============================================================================
