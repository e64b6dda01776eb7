---------------------------- MODULE PeerLinkProofs ----------------------------
(***************************************************************************)
(* The status that a node keeps of a peer follows the replies, although    *)
(* one task loads it before it takes the lock of the counters and another  *)
(* stores it after: for any number of receiving tasks, any limits,         *)
(* sequence numbers, addresses and number of datagrams.                    *)
(***************************************************************************)
EXTENDS PeerLink, FiniteSetTheorems, TLAPS

TypeInv ==
    /\ hc \in Cache
    /\ status \in Addr \cup {Unavailable}
    /\ DOMAIN storing = Receiver
    /\ \A r \in Receiver : storing[r] \in Addr \cup {NoAddr}
    /\ rounds \in [1 .. LossLimit -> {Unasked, "lost", "answered"}]
    /\ \A d \in net : d.addr \in Addr
    /\ targets \subseteq Addr
    /\ loaded \in Addr \cup {Unavailable}
    /\ wan \in Addr \cup {NoAddr} /\ peerAddr \in Addr \cup {NoAddr}

(* An entry that is not in the list is new, and so is one that was never   *)
(* pinged; nobody is about to make either of them available.               *)
NewIsIdle ==
    /\ ~listed => ~hc.sent /\ task = "sleep"
    /\ ~hc.sent =>
          /\ hc = NewCache /\ status = Unavailable /\ task # "send"
          /\ \A r \in Receiver : storing[r] = NoAddr
          /\ \A d \in net : d.seq # 0

(* The counter of lost rounds and the history: what it counts was lost     *)
(* before the present round, which is lost as yet, or over.                *)
LossIsCounted ==
    \/ hc.loss = 0 /\ (~hc.is_send \/ hc.is_reply)
    \/ /\ hc.is_send /\ ~hc.is_reply
       /\ \A i \in 1 .. LossLimit : i <= hc.loss + 1 => rounds[i] = "lost"
    \/ /\ ~hc.is_send
       /\ \A i \in 1 .. LossLimit : i <= hc.loss => rounds[i] = "lost"

IInv == TypeInv /\ NewIsIdle /\ LossIsCounted

----------------------------------------------------------------------------
(* The operations on the counters *)
LEMMA UpToIs ==
    ASSUME NEW limit \in Nat \ {0}, NEW n \in 0 .. limit
    PROVE  /\ UpTo(n + 1, limit) \in 0 .. limit /\ UpTo(n + 1, limit) <= n + 1
           /\ UpTo(n + 1, limit) = n + 1 \/ UpTo(n + 1, limit) = limit
  BY DEF UpTo

LEMMA CheckIs ==
    ASSUME NEW c \in Cache
    PROVE  /\ Check(c) \in Cache /\ Check(c).sent = c.sent
           /\ ~Check(c).is_send
           /\ c.is_send /\ ~c.is_reply =>
                /\ Check(c).loss <= c.loss + 1
                /\ Check(c).loss = c.loss + 1 \/ Check(c).loss = LossLimit
           /\ ~(c.is_send /\ ~c.is_reply) => Check(c).loss = c.loss
  <1>1. c.loss \in 0 .. LossLimit /\ c.recv \in 0 .. RecvLimit
    BY DEF Cache
  <1> DEFINE more == UpTo(c.loss + 1, LossLimit)
  <1>2. more \in 0 .. LossLimit /\ more <= c.loss + 1 /\ (more = c.loss + 1 \/ more = LossLimit)
    BY <1>1, HeartbeatAssumption, UpToIs
  <1>3. Check(c) = IF c.is_send /\ ~c.is_reply
                   THEN [c EXCEPT !.is_send = FALSE, !.recv = 0, !.loss = more]
                   ELSE [c EXCEPT !.is_send = FALSE]
    BY DEF Check
  <1> HIDE DEF more
  <1>4. 0 \in 0 .. RecvLimit
    BY HeartbeatAssumption
  <1>5. QED
    BY <1>2, <1>3, <1>4 DEF Cache

LEMMA PingIs ==
    ASSUME NEW c \in Cache
    PROVE  /\ Ping(c) \in Cache /\ Ping(c).sent /\ Ping(c).loss = c.loss
           /\ Ping(c).is_send /\ ~Ping(c).is_reply
  <1>1. (c.seq + 1) % SeqMod \in Seq32
    BY HeartbeatAssumption DEF Cache, Seq32
  <1>2. QED
    BY <1>1 DEF Ping, Cache

LEMMA ReplyIs ==
    ASSUME NEW c \in Cache
    PROVE  /\ Reply(c) \in Cache /\ Reply(c).sent = c.sent /\ Reply(c).loss = 0
           /\ Reply(c).is_reply /\ Reply(c).seq = c.seq
  <1>1. UpTo(c.recv + 1, RecvLimit) \in 0 .. RecvLimit /\ 0 \in 0 .. LossLimit
    BY HeartbeatAssumption, UpToIs DEF Cache
  <1>2. QED
    BY <1>1 DEF Reply, Cache

LEMMA NewIs == NewCache \in Cache /\ NewCache.seq = 0 /\ ~NewCache.sent
               /\ NewCache.loss = 0 /\ ~NewCache.is_send
  BY HeartbeatAssumption DEF NewCache, Cache, Seq32

LEMMA NewIsUnchecked == Check(NewCache) = NewCache
  <1>1. ~NewCache.is_send
    BY DEF NewCache
  <1>2. Check(NewCache) = [NewCache EXCEPT !.is_send = FALSE]
    BY <1>1 DEF Check
  <1>3. QED
    BY <1>2 DEF NewCache

LEMMA InitIInv == Init => IInv
  BY NewIs
  DEF Init, IInv, TypeInv, NewIsIdle, LossIsCounted, NoRounds, Unasked

(* Who is given up has lost as many rounds as the limit says. *)
LEMMA GivenUpIsLost ==
    ASSUME IInv, Overdue(Check(hc))
    PROVE  \A i \in 1 .. LossLimit : rounds[i] = "lost"
  <1>1. hc \in Cache /\ Check(hc).loss >= LossLimit /\ LossLimit \in Nat \ {0}
    BY HeartbeatAssumption DEF IInv, TypeInv, Overdue
  <1>2. hc.loss \in Nat
    BY <1>1 DEF Cache
  <1>3. CASE hc.is_send /\ ~hc.is_reply
    <2>1. hc.loss + 1 >= LossLimit
      BY <1>1, <1>2, <1>3, CheckIs
    <2>2. \A i \in 1 .. LossLimit : i <= hc.loss + 1 => rounds[i] = "lost"
      BY <1>3 DEF IInv, LossIsCounted
    <2>3. QED
      BY <1>1, <1>2, <2>1, <2>2
  <1>4. CASE ~(hc.is_send /\ ~hc.is_reply)
    <2>1. hc.loss >= LossLimit
      BY <1>1, <1>4, CheckIs
    <2>2. \A i \in 1 .. LossLimit : i <= hc.loss => rounds[i] = "lost"
      BY <1>1, <1>4, <2>1 DEF IInv, LossIsCounted
    <2>3. QED
      BY <1>1, <1>2, <2>1, <2>2
  <1>5. QED
    BY <1>3, <1>4

LEMMA CheckKeeps == IInv /\ HeartbeatCheck => IInv'
  <1> SUFFICES ASSUME IInv, HeartbeatCheck PROVE IInv'
    OBVIOUS
  <1> DEFINE checked == Check(hc)
  <1>1. hc \in Cache /\ checked \in Cache /\ checked.sent = hc.sent /\ ~checked.is_send
    BY CheckIs DEF IInv, TypeInv
  <1>2. /\ task = "lock" /\ listed /\ UNCHANGED <<listed, wan, peerAddr, storing>>
        /\ status' \in {status, Unavailable} /\ loaded' = Unavailable
    BY DEF HeartbeatCheck, CheckedStatus, mapVars, IInv, NewIsIdle
  <1>3. checked.loss \in Nat /\ hc.loss \in Nat /\ LossLimit \in Nat \ {0}
    BY <1>1, HeartbeatAssumption DEF Cache
  (* After the check, the rounds that are counted are the newest ones. *)
  <1>4. \A i \in 1 .. LossLimit : i <= checked.loss => rounds[i] = "lost"
    <2>1. CASE hc.is_send /\ ~hc.is_reply
      <3>1. checked.loss <= hc.loss + 1
        BY <1>1, <2>1, CheckIs
      <3>2. \A i \in 1 .. LossLimit : i <= hc.loss + 1 => rounds[i] = "lost"
        BY <2>1 DEF IInv, LossIsCounted
      <3> HIDE DEF checked
      <3>3. QED
        BY <1>3, <3>1, <3>2
    <2>2. CASE ~(hc.is_send /\ ~hc.is_reply)
      <3>1. checked.loss = hc.loss
        BY <1>1, <2>2, CheckIs
      <3>2. hc.loss = 0 \/ \A i \in 1 .. LossLimit : i <= hc.loss => rounds[i] = "lost"
        BY <2>2 DEF IInv, LossIsCounted
      <3> HIDE DEF checked
      <3>3. QED
        BY <1>3, <3>1, <3>2
    <2>3. QED
      BY <2>1, <2>2
  <1>5. CASE wan = NoAddr
    <2>1. hc' = checked /\ task' = "sleep" /\ UNCHANGED <<targets, net, rounds>>
      BY <1>5 DEF HeartbeatCheck
    <2>2. ~hc.sent => checked = NewCache
      BY NewIsUnchecked DEF IInv, NewIsIdle
    <2> HIDE DEF checked
    <2>3. TypeInv'
      BY <1>1, <1>2, <2>1 DEF IInv, TypeInv
    <2>4. NewIsIdle'
      BY <1>1, <1>2, <2>1, <2>2 DEF IInv, NewIsIdle
    <2>5. LossIsCounted'
      BY <1>1, <1>4, <2>1 DEF LossIsCounted
    <2>6. QED
      BY <2>3, <2>4, <2>5 DEF IInv
  <1>6. CASE wan # NoAddr
    <2>1. /\ hc' = Ping(checked) /\ targets' = Targets(Overdue(checked))
          /\ net' \subseteq net
          /\ rounds' = [i \in 1 .. LossLimit |-> IF i > 1 THEN rounds[i - 1] ELSE "lost"]
      BY <1>6 DEF HeartbeatCheck
    <2>2. /\ hc' \in Cache /\ hc'.sent /\ hc'.loss = checked.loss
          /\ hc'.is_send /\ ~hc'.is_reply
      BY <1>1, <2>1, PingIs
    <2>3. targets' \subseteq Addr
      BY <2>1 DEF Targets, IInv, TypeInv, Addr
    <2> HIDE DEF checked
    <2>4. rounds' \in [1 .. LossLimit -> {Unasked, "lost", "answered"}]
      <3>1. \A i \in 1 .. LossLimit : i > 1 => i - 1 \in 1 .. LossLimit
        BY <1>3
      <3>2. QED
        BY <2>1, <3>1 DEF IInv, TypeInv
    <2>5. TypeInv'
      BY <1>2, <2>1, <2>2, <2>3, <2>4 DEF IInv, TypeInv
    <2>6. NewIsIdle'
      BY <1>2, <2>2 DEF NewIsIdle
    <2>7. \A i \in 1 .. LossLimit : i <= hc'.loss + 1 => rounds'[i] = "lost"
      <3>1. ASSUME NEW i \in 1 .. LossLimit, i <= checked.loss + 1 PROVE rounds'[i] = "lost"
        <4>1. CASE i = 1
          BY <2>1, <4>1
        <4>2. CASE i # 1
          <5>1. i - 1 \in 1 .. LossLimit /\ i - 1 <= checked.loss
            BY <1>3, <3>1, <4>2
          <5>2. rounds'[i] = rounds[i - 1]
            BY <2>1, <3>1, <4>2
          <5>3. QED
            BY <1>4, <5>1, <5>2
        <4>3. QED
          BY <4>1, <4>2
      <3>2. QED
        BY <2>2, <3>1
    <2>8. LossIsCounted'
      BY <2>2, <2>7 DEF LossIsCounted
    <2>9. QED
      BY <2>5, <2>6, <2>8 DEF IInv
  <1>7. QED
    BY <1>5, <1>6

(* A step that leaves the entry's counters alone. *)
LEMMA CountersKeep ==
    ASSUME IInv, UNCHANGED <<hc, rounds>>, TypeInv', NewIsIdle'
    PROVE  IInv'
  BY DEF IInv, LossIsCounted

LEMMA ResponseKeeps ==
    ASSUME IInv, NEW r \in Receiver, ReceiveResponse(r)
    PROVE  IInv'
  <1>1. PICK d \in net :
        /\ net' = net \ {d}
        /\ IF listed /\ IsReply(hc, d.seq)
           THEN /\ hc' = Reply(hc)
                /\ rounds' = [rounds EXCEPT ![1] = "answered"]
                /\ storing' = IF status = Unavailable /\ Steady(hc') /\ d.addr \notin virtual
                              THEN [storing EXCEPT ![r] = d.addr]
                              ELSE storing
           ELSE UNCHANGED <<hc, rounds, storing>>
    BY DEF ReceiveResponse
  <1>2. UNCHANGED <<mapVars, status, peerAddr, taskVars>>
    BY DEF ReceiveResponse
  <1> USE DEF mapVars, taskVars
  <1>3. CASE ~(listed /\ IsReply(hc, d.seq))
    BY <1>1, <1>2, <1>3 DEF IInv, TypeInv, NewIsIdle, LossIsCounted
  <1>4. CASE listed /\ IsReply(hc, d.seq)
    <2>1. hc.sent /\ hc \in Cache
      BY <1>4, NewIs DEF IInv, TypeInv, NewIsIdle, IsReply
    <2>2. hc' \in Cache /\ hc'.sent /\ hc'.loss = 0 /\ hc'.is_reply
      BY <1>1, <1>4, <2>1, ReplyIs
    <2>3. TypeInv'
      <3>1. /\ DOMAIN storing' = Receiver
            /\ \A q \in Receiver : storing'[q] \in Addr \cup {NoAddr}
        BY <1>1, <1>4 DEF IInv, TypeInv
      <3>2. rounds' \in [1 .. LossLimit -> {Unasked, "lost", "answered"}]
        BY <1>1, <1>4 DEF IInv, TypeInv
      <3>3. QED
        BY <1>1, <1>2, <2>2, <3>1, <3>2 DEF IInv, TypeInv
    <2>4. NewIsIdle'
      BY <1>2, <1>4, <2>2 DEF NewIsIdle
    <2>5. LossIsCounted'
      BY <2>2 DEF LossIsCounted
    <2>6. QED
      BY <2>3, <2>4, <2>5 DEF IInv
  <1>5. QED
    BY <1>3, <1>4

LEMMA FreshKeeps ==
    ASSUME IInv, FreshEntry, wan' \in Addr \cup {NoAddr},
           \A d \in net' : d \in net /\ d.seq # 0,
           task' # "send", ~listed' => task' = "sleep",
           DOMAIN storing' = Receiver, \A r \in Receiver : storing'[r] = NoAddr,
           targets' \subseteq targets, loaded' \in {loaded, Unavailable}
    PROVE  IInv'
  <1>1. /\ hc' = NewCache /\ status' = Unavailable /\ peerAddr' = NoAddr
        /\ rounds' = NoRounds
    BY DEF FreshEntry
  <1>2. TypeInv'
    BY <1>1, NewIs DEF IInv, TypeInv, NoRounds
  <1>3. QED
    BY <1>1, <1>2, NewIs DEF IInv, NewIsIdle, LossIsCounted

LEMMA StepIInv == IInv /\ [Next]_vars => IInv'
  <1> SUFFICES ASSUME IInv, [Next]_vars PROVE IInv'
    OBVIOUS
  <1> USE DEF mapVars, entryVars, taskVars
  <1>1. ASSUME HeartbeatLoad PROVE IInv'
    BY <1>1, CountersKeep DEF HeartbeatLoad, IInv, TypeInv, NewIsIdle
  <1>2. ASSUME HeartbeatSend PROVE IInv'
    <2>1. PICK a \in targets :
            /\ task = "send" /\ targets' = targets \ {a} /\ SendPing(a)
            /\ task' \in {"sleep", "send"}
            /\ UNCHANGED <<mapVars, entryVars, loaded, storing, rounds>>
      BY <1>2 DEF HeartbeatSend
    <2>2. hc.sent /\ listed
      BY <2>1 DEF IInv, NewIsIdle
    <2>3. \A d \in net' : d.addr \in Addr
      BY <2>1 DEF SendPing, Resp, IInv, TypeInv
    <2>4. TypeInv'
      BY <2>1, <2>3 DEF IInv, TypeInv
    <2>5. NewIsIdle'
      BY <2>1, <2>2 DEF NewIsIdle
    <2>6. QED
      BY <2>1, <2>4, <2>5, CountersKeep
  <1>3. ASSUME NEW a \in Addr, ReceiveRequest(a) PROVE IInv'
    BY <1>3, CountersKeep DEF ReceiveRequest, IInv, TypeInv, NewIsIdle
  <1>4. ASSUME NEW r \in Receiver, StoreAvailable(r) PROVE IInv'
    BY <1>4, CountersKeep DEF StoreAvailable, IInv, TypeInv, NewIsIdle
  <1>5. ASSUME NEW w \in {Wan, NoAddr}, NodeMapWith(w) PROVE IInv'
    <2>1. CASE listed
      <3>1. /\ listed' /\ wan' \in Addr \cup {NoAddr}
            /\ UNCHANGED <<hc, status, peerAddr, rounds, task, loaded, targets, storing, net>>
        BY <1>5, <2>1 DEF NodeMapWith, Addr
      <3>2. TypeInv' /\ NewIsIdle'
        BY <2>1, <3>1 DEF IInv, TypeInv, NewIsIdle
      <3>3. QED
        BY <3>1, <3>2, CountersKeep
    <2>2. CASE ~listed
      BY <1>5, <2>2, FreshKeeps DEF NodeMapWith, Addr, IInv, TypeInv, NewIsIdle
    <2>3. QED
      BY <2>1, <2>2
  <1>6. ASSUME NodeMapWithout PROVE IInv'
    BY <1>6, FreshKeeps DEF NodeMapWithout
  <1>7. ASSUME ServerConnection \/ Lose \/ Move \/ UNCHANGED vars PROVE IInv'
    BY <1>7, CountersKeep DEF ServerConnection, Lose, Move, vars, IInv, TypeInv, NewIsIdle
  <1>8. QED
    BY <1>1, <1>2, <1>3, <1>4, <1>5, <1>6, <1>7, CheckKeeps, ResponseKeeps
    DEF Next, Settled, Unsettled

(* An entry that is Available is in the list and has been pinged, whatever *)
(* a task that was about to store a status was overtaken by: the loss rate *)
(* can be computed.                                                        *)
THEOREM PingedBeforeAvailable == Spec => []AvailableWasPinged
  <1>1. IInv => AvailableWasPinged
    BY DEF IInv, NewIsIdle, AvailableWasPinged
  <1>2. QED
    BY <1>1, InitIInv, StepIInv, PTL DEF Spec

LEMMA GivingUp ==
    ASSUME IInv, [Next]_vars, status # Unavailable, status' = Unavailable, listed'
    PROVE  \A i \in 1 .. LossLimit : rounds[i] = "lost"
  <1>1. CASE HeartbeatCheck
    BY <1>1, GivenUpIsLost DEF HeartbeatCheck, CheckedStatus
  <1>2. CASE ~HeartbeatCheck
    <2>1. listed
      BY DEF IInv, NewIsIdle
    <2>2. ~NodeMapWithout
      BY DEF NodeMapWithout
    <2>3. \A r \in Receiver : ~StoreAvailable(r)
      BY PeerAssumption DEF StoreAvailable, IInv, TypeInv
    <2>4. UNCHANGED status
      BY <1>2, <2>1, <2>2, <2>3
      DEF Next, Settled, Unsettled, vars, entryVars, HeartbeatLoad, HeartbeatSend,
          ReceiveRequest, ReceiveResponse, NodeMapWith, ServerConnection, Lose, Move
    <2>5. QED
      BY <2>4
  <1>3. QED
    BY <1>1, <1>2

(* A peer is given up only after LossLimit rounds without a reply, though  *)
(* the status is loaded before the counters are locked.                    *)
THEOREM GivenUpAfterLoss == Spec => DownAfterLostRounds
  <1>1. IInv /\ [Next]_vars =>
          [status # Unavailable /\ status' = Unavailable /\ listed' =>
              \A i \in 1 .. LossLimit : rounds[i] = "lost"]_vars
    BY GivingUp
  <1>2. QED
    BY <1>1, InitIInv, StepIInv, PTL DEF Spec, DownAfterLostRounds

----------------------------------------------------------------------------
NetIsBounded ==
    /\ net \subseteq Datagram
    /\ IsFiniteSet(net) /\ Cardinality(net) <= InFlight

RestTyped ==
    /\ connected \in BOOLEAN /\ listed \in BOOLEAN
    /\ wan \in {Wan, NoAddr}
    /\ task \in {"sleep", "lock", "send"}
    /\ virtual \in Virtuals /\ reach \subseteq Addr
    /\ storing \in [Receiver -> Addr \cup {NoAddr}]

TypeIInv == IInv /\ NetIsBounded /\ RestTyped

LEMMA FewerAreBounded ==
    ASSUME NetIsBounded, net' \subseteq net
    PROVE  NetIsBounded'
  <1>1. IsFiniteSet(net') /\ Cardinality(net') <= Cardinality(net)
        /\ Cardinality(net) \in Nat /\ Cardinality(net') \in Nat
    BY FS_Subset, FS_CardinalityType DEF NetIsBounded
  <1>2. QED
    BY <1>1, PeerAssumption DEF NetIsBounded

LEMMA PingIsBounded ==
    ASSUME NetIsBounded, hc \in Cache, NEW a \in Addr, SendPing(a)
    PROVE  NetIsBounded'
  <1> DEFINE answered == net \cup {Resp(a, hc.seq)}
  <1>1. answered \subseteq Datagram
    BY DEF NetIsBounded, Datagram, Resp, Cache
  <1>2. IsFiniteSet(answered)
    BY FS_AddElement DEF NetIsBounded
  <1>3. net' = net \/ (net' = answered /\ Cardinality(answered) <= InFlight)
    BY DEF SendPing
  <1> HIDE DEF answered
  <1>4. QED
    BY <1>1, <1>2, <1>3 DEF NetIsBounded

LEMMA InitTypes == Init => TypeIInv
  <1>1. Init => NetIsBounded
    BY FS_EmptySet, PeerAssumption DEF Init, NetIsBounded
  <1>2. Init => RestTyped
    BY DEF Init, RestTyped
  <1>3. QED
    BY <1>1, <1>2, InitIInv DEF TypeIInv

LEMMA StepTypes == TypeIInv /\ [Next]_vars => TypeIInv'
  <1> SUFFICES ASSUME TypeIInv, [Next]_vars PROVE NetIsBounded' /\ RestTyped'
    BY StepIInv DEF TypeIInv
  <1> USE DEF mapVars, entryVars, taskVars, worldVars
  <1>1. hc \in Cache /\ targets \subseteq Addr /\ NetIsBounded /\ RestTyped
    BY DEF TypeIInv, IInv, TypeInv
  <1>2. RestTyped'
    <2>1. CASE Settled
      <3>1. /\ UNCHANGED <<mapVars, worldVars>>
            /\ task' \in {task, "sleep", "lock", "send"}
        BY <2>1 DEF Settled, HeartbeatLoad, HeartbeatCheck, HeartbeatSend,
                    ReceiveResponse, StoreAvailable
      <3>2. \/ storing' = storing
            \/ \E r \in Receiver, a \in Addr \cup {NoAddr} :
                    storing' = [storing EXCEPT ![r] = a]
        <4>1. \A d \in net : d.addr \in Addr
          BY <1>1 DEF NetIsBounded, Datagram
        <4>2. QED
          BY <2>1, <4>1 DEF Settled, HeartbeatLoad, HeartbeatCheck, HeartbeatSend,
                            ReceiveResponse, StoreAvailable
      <3>3. QED
        BY <1>1, <3>1, <3>2 DEF RestTyped
    <2>2. CASE Unsettled \/ UNCHANGED vars
      BY <1>1, <2>2
      DEF RestTyped, Unsettled, vars, ReceiveRequest, NodeMapWith, NodeMapWithout,
          ServerConnection, Lose, Move
    <2>3. QED
      BY <2>1, <2>2 DEF Next
  <1>3. NetIsBounded'
    <2>1. CASE HeartbeatSend
      BY <1>1, <2>1, PingIsBounded DEF HeartbeatSend
    <2>2. CASE ~HeartbeatSend
      <3>1. net' \subseteq net
        BY <2>2
        DEF Next, Settled, Unsettled, vars, HeartbeatLoad, HeartbeatCheck, ReceiveRequest,
            ReceiveResponse, StoreAvailable, NodeMapWith, NodeMapWithout,
            ServerConnection, Lose, Move
      <3>2. QED
        BY <1>1, <3>1, FewerAreBounded
    <2>3. QED
      BY <2>1, <2>2
  <1>4. QED
    BY <1>2, <1>3

(* The counters of an entry stay within their limits and every address     *)
(* that is used is one of the peer's, whatever arrives when.               *)
THEOREM LinkIsTyped == Spec => []TypeOK
  <1>1. TypeIInv => TypeOK
    BY DEF TypeIInv, IInv, TypeInv, NetIsBounded, RestTyped, TypeOK
  <1>2. QED
    BY <1>1, InitTypes, StepTypes, PTL DEF Spec
===============================================================================
