---------------------------- MODULE TransportProofs ----------------------------
(***************************************************************************)
(* Theorems about Transport for any nodes, configurations, keys, packets,  *)
(* nonces and buffers.  The unreachable!() of `send` are met only by a     *)
(* mode for a single peer.  What encode writes, decode and read_msg find:  *)
(* the bytes of a packet are followed from the TUN through buffers and     *)
(* messages, as a sequence of cells under the key streams of the           *)
(* transports that were tried (Carries), which is why what a node takes    *)
(* for a packet is a whole one, in plain text or encrypted in every cell.  *)
(***************************************************************************)
EXTENDS Transport, FiniteSetTheorems, SequenceTheorems, TLAPS

Try == {"direct", "through", "UDP", "TCP"}

(* A mode that node n may use for some packet names the protocol x. *)
Uses(n, x) == In(x, Mode(n).p2p) \/ In(x, Mode(n).relay) \/ x \in Specified(n)

TasksAreTyped ==
    \A n \in Node : task[n] # Nothing =>
        /\ DOMAIN task[n] = {"lo", "hi", "to", "todo", "left", "nodeRelay", "nonce", "used"}
        /\ task[n].todo \in Seq(Try)

TypeInv ==
    /\ config \in Configs
    /\ DOMAIN status = Node /\ DOMAIN task = Node
    /\ DOMAIN socket = Node /\ DOMAIN channel = Node
    /\ TasksAreTyped

(* What a node that is up has, and what it goes on to try. *)
HasWhatModeAsks ==
    \A n \in Node : Up(n) =>
        /\ IsUseUdp(Mode(n)) => socket[n]
        /\ IsUseTcp(Mode(n)) => channel[n]

TriesWhatModesName ==
    \A n \in Node : task[n] # Nothing =>
        \A i \in 1 .. Len(task[n].todo) :
            task[n].todo[i] \in {"UDP", "TCP"} => Uses(n, task[n].todo[i])

IInv == TypeInv /\ HasWhatModeAsks /\ TriesWhatModesName /\ NoPanic

----------------------------------------------------------------------------
(* Whatever `send` is about to try is named by a mode of the node. *)
LEMMA ModeForIsTyped ==
    ASSUME NEW n \in Node, NEW d, config \in Configs
    PROVE  ModeFor(n, d) \in ProtocolMode
  BY TransportAssumption DEF ModeFor, Mode

LEMMA ModeForIsUsed ==
    ASSUME NEW n \in Node, NEW d, config \in Configs, NEW x \in {"UDP", "TCP"},
           In(x, ModeFor(n, d).relay)
    PROVE  Uses(n, x)
  <1>1. CASE d \in DOMAIN config[n].specify
    BY <1>1 DEF ModeFor, Uses, Specified
  <1>2. CASE d \notin DOMAIN config[n].specify
    BY <1>2 DEF ModeFor, Uses
  <1>3. QED
    BY <1>1, <1>2

LEMMA AttemptsAreNamed ==
    ASSUME NEW n \in Node, NEW d, NEW nodeRelay, config \in Configs
    PROVE  /\ Attempts(n, d, nodeRelay) \in Seq(Try)
           /\ \A i \in 1 .. Len(Attempts(n, d, nodeRelay)) :
                Attempts(n, d, nodeRelay)[i] \in {"UDP", "TCP"} =>
                    Uses(n, Attempts(n, d, nodeRelay)[i])
  <1> DEFINE mode == ModeFor(n, d)
             supportP2p == mode.p2p # <<>> /\ Mode(d).p2p # <<>>
             direct == IF supportP2p THEN <<"direct">> ELSE <<>>
             through == IF supportP2p /\ nodeRelay THEN <<"through">> ELSE <<>>
             relays == IF mode.relay # <<>> /\ Mode(d).relay # <<>> THEN mode.relay ELSE <<>>
             front == direct \o through
  <1>1. mode.relay \in Seq({"UDP", "TCP"})
    BY ModeForIsTyped DEF ProtocolMode
  <1>2. /\ direct \in Seq({"direct"}) /\ through \in Seq({"through"})
        /\ relays \in Seq({"UDP", "TCP"})
    <2>1. direct = <<"direct">> \/ direct = <<>>
      OBVIOUS
    <2>2. through = <<"through">> \/ through = <<>>
      OBVIOUS
    <2>3. relays = mode.relay \/ relays = <<>>
      OBVIOUS
    <2>4. /\ <<"direct">> \in Seq({"direct"}) /\ <<>> \in Seq({"direct"})
          /\ <<"through">> \in Seq({"through"}) /\ <<>> \in Seq({"through"})
          /\ <<>> \in Seq({"UDP", "TCP"})
      OBVIOUS
    <2> HIDE DEF direct, through, relays
    <2>5. QED
      BY <1>1, <2>1, <2>2, <2>3, <2>4
  <1>3. \A i \in 1 .. Len(relays) : Uses(n, relays[i])
    <2>1. ASSUME NEW i \in 1 .. Len(relays) PROVE Uses(n, relays[i])
      <3>1. relays = mode.relay
        BY <2>1
      <3>2. In(relays[i], mode.relay) /\ relays[i] \in {"UDP", "TCP"}
        BY <1>1, <2>1, <3>1 DEF In
      <3>3. QED
        BY <3>2, ModeForIsUsed
    <2>2. QED
      BY <2>1
  <1>4. Attempts(n, d, nodeRelay) = direct \o through \o relays \o through
    BY DEF Attempts
  <1> HIDE DEF direct, through, relays
  <1>5. /\ direct \in Seq(Try) /\ through \in Seq(Try) /\ relays \in Seq(Try)
        /\ \A i \in 1 .. Len(direct) : direct[i] \notin {"UDP", "TCP"}
        /\ \A i \in 1 .. Len(through) : through[i] \notin {"UDP", "TCP"}
    BY <1>2 DEF Try
  <1>6. /\ front \in Seq(Try)
        /\ \A i \in 1 .. Len(front) : front[i] \notin {"UDP", "TCP"}
    BY <1>5
  <1> HIDE DEF front
  <1>7. /\ front \o relays \in Seq(Try)
        /\ \A i \in 1 .. Len(front \o relays) :
             (front \o relays)[i] \in {"UDP", "TCP"} => Uses(n, (front \o relays)[i])
    BY <1>3, <1>5, <1>6
  <1> DEFINE most == front \o relays
  <1> HIDE DEF most
  <1>8. /\ most \o through \in Seq(Try)
        /\ \A i \in 1 .. Len(most \o through) :
             (most \o through)[i] \in {"UDP", "TCP"} => Uses(n, (most \o through)[i])
    BY <1>5, <1>7 DEF most
  <1>9. QED
    BY <1>4, <1>8 DEF most, front

----------------------------------------------------------------------------
LEMMA InitIInv == Init => IInv
  BY DEF Init, IInv, TypeInv, TasksAreTyped, HasWhatModeAsks, TriesWhatModesName, NoPanic, Up

(* Tasks that are begun or go on: they try less than before, or what       *)
(* `send` tries for a new target.                                          *)
GoesOn(n, t) ==
    /\ DOMAIN t = {"lo", "hi", "to", "todo", "left", "nodeRelay", "nonce", "used"}
    /\ t.todo \in Seq(Try)
    /\ \A i \in 1 .. Len(t.todo) : t.todo[i] \in {"UDP", "TCP"} => Uses(n, t.todo[i])

LEMMA TaskKeeps ==
    ASSUME IInv, NEW n \in Node, NEW t, t = Nothing \/ GoesOn(n, t),
           task' = [task EXCEPT ![n] = t],
           \/ UNCHANGED status
           \/ status' = [status EXCEPT ![n] = "failed"],
           UNCHANGED <<config, socket, channel>>
    PROVE  IInv'
  <1> USE DEF IInv, TypeInv
  <1>1. TasksAreTyped' /\ TriesWhatModesName'
    BY DEF TasksAreTyped, TriesWhatModesName, GoesOn, Uses, Mode, Specified
  <1>2. HasWhatModeAsks' /\ NoPanic'
    BY DEF HasWhatModeAsks, NoPanic, Up, Mode, Specified
  <1>3. QED
    BY <1>1, <1>2

(* What a task has left to try after an attempt. *)
LEMMA TailGoesOn ==
    ASSUME IInv, NEW n \in Node, ~Idle(n), task[n].todo # <<>>
    PROVE  /\ GoesOn(n, [task[n] EXCEPT !.todo = Tail(@)])
           /\ GoesOn(n, [task[n] EXCEPT !.todo = Tail(@), !.used = TRUE])
           /\ GoesOn(n, [task[n] EXCEPT !.todo = <<>>])
           /\ GoesOn(n, [task[n] EXCEPT !.todo = <<>>, !.used = TRUE])
  <1> DEFINE todo == task[n].todo
  <1>1. /\ DOMAIN task[n] = {"lo", "hi", "to", "todo", "left", "nodeRelay", "nonce", "used"}
        /\ todo \in Seq(Try)
        /\ \A i \in 1 .. Len(todo) : todo[i] \in {"UDP", "TCP"} => Uses(n, todo[i])
    BY DEF IInv, TypeInv, TasksAreTyped, TriesWhatModesName, Idle
  <1>2. /\ Tail(todo) \in Seq(Try)
        /\ \A i \in 1 .. Len(Tail(todo)) :
              Tail(todo)[i] \in {"UDP", "TCP"} => Uses(n, Tail(todo)[i])
    BY <1>1
  <1>3. <<>> \in Seq(Try)
    OBVIOUS
  <1>4. QED
    BY <1>1, <1>2, <1>3 DEF GoesOn

LEMMA LeftGoesOn ==
    ASSUME NEW n \in Node, NEW t, GoesOn(n, t)
    PROVE  Left(t) = Nothing \/ GoesOn(n, Left(t))
  BY DEF Left

LEMMA SendingGoesOn ==
    ASSUME NEW n \in Node, NEW lo, NEW hi, NEW targets, NEW nodeRelay, NEW used
    PROVE  /\ GoesOn(n, Sending(lo, hi, targets, nodeRelay))
           /\ GoesOn(n, [Sending(lo, hi, targets, nodeRelay) EXCEPT !.used = used])
  <1>1. <<>> \in Seq(Try)
    OBVIOUS
  <1>2. QED
    BY <1>1 DEF GoesOn, Sending

LEMMA SkipKeeps ==
    ASSUME IInv, NEW n \in Node, NEW x, Tries(n, x), Skip(n),
           UNCHANGED <<config, socket, channel>>
    PROVE  IInv'
  <1> DEFINE t == [task[n] EXCEPT !.todo = Tail(@)]
  <1>1. GoesOn(n, t)
    BY TailGoesOn DEF Tries
  <1>2. task' = [task EXCEPT ![n] = Left(t)] /\ UNCHANGED status
    BY DEF Skip
  <1> HIDE DEF t
  <1>3. QED
    BY <1>1, <1>2, TaskKeeps, LeftGoesOn

LEMMA TransmitKeeps ==
    ASSUME IInv, NEW n \in Node, NEW x, Tries(n, x),
           NEW cells, NEW at, NEW to, Transmit(n, cells, at, to),
           UNCHANGED <<config, socket, channel>>
    PROVE  IInv'
  <1> DEFINE sent == [task[n] EXCEPT !.todo = <<>>, !.used = TRUE]
             next == [task[n] EXCEPT !.todo = Tail(@), !.used = TRUE]
  <1>1. GoesOn(n, sent) /\ GoesOn(n, next)
    BY TailGoesOn DEF Tries
  <1>2. \/ task' = [task EXCEPT ![n] = Left(sent)] /\ UNCHANGED status
        \/ task' = [task EXCEPT ![n] = Left(next)] /\ UNCHANGED status
        \/ task' = [task EXCEPT ![n] = Nothing] /\ status' = [status EXCEPT ![n] = "failed"]
    BY DEF Transmit
  <1> HIDE DEF sent, next
  <1>3. QED
    BY <1>1, <1>2, TaskKeeps, LeftGoesOn

(* A task panics for want of what only a mode for a single peer names. *)
LEMMA PanicKeeps ==
    ASSUME IInv, NEW n \in Node, NEW x \in {"UDP", "TCP"}, Tries(n, x), Panic(n),
           x = "UDP" => ~socket[n], x = "TCP" => ~channel[n],
           UNCHANGED <<config, socket, channel>>
    PROVE  IInv'
  <1> USE DEF IInv, TypeInv
  <1>1. Uses(n, x)
    <2>1. task[n].todo \in Seq(Try) /\ task[n].todo # <<>> /\ task[n].todo[1] = x
      BY DEF Tries, Idle, TasksAreTyped
    <2>2. QED
      BY <2>1 DEF Tries, Idle, TriesWhatModesName
  <1>2. /\ x = "UDP" => ~IsUseUdp(Mode(n))
        /\ x = "TCP" => ~IsUseTcp(Mode(n))
    BY DEF Tries, HasWhatModeAsks
  <1>3. x \in Specified(n)
    BY <1>1, <1>2 DEF Uses, IsUseUdp, IsUseTcp
  <1>4. NoPanic'
    BY <1>2, <1>3 DEF Panic, NoPanic, Mode, Specified
  <1>5. TasksAreTyped' /\ TriesWhatModesName' /\ HasWhatModeAsks'
    BY DEF Panic, TasksAreTyped, TriesWhatModesName, HasWhatModeAsks, Up, Uses, Mode, Specified
  <1>6. QED
    BY <1>4, <1>5 DEF Panic

LEMMA StepIInv == IInv /\ [Next]_vars => IInv'
  <1> SUFFICES ASSUME IInv, [Next]_vars PROVE IInv'
    OBVIOUS
  <1>1. ASSUME NEW n \in Node, Launch(n) PROVE IInv'
    <2> USE DEF IInv, TypeInv
    <2>1. UNCHANGED <<config, task>> /\ DOMAIN status' = Node
          /\ DOMAIN socket' = Node /\ DOMAIN channel' = Node
      BY <1>1 DEF Launch
    <2>2. HasWhatModeAsks'
      BY <1>1 DEF Launch, HasWhatModeAsks, Up, Mode
    <2>3. NoPanic'
      BY <1>1 DEF Launch, NoPanic, Mode, Specified
    <2>4. TasksAreTyped' /\ TriesWhatModesName'
      BY <2>1 DEF TasksAreTyped, TriesWhatModesName, Uses, Mode, Specified
    <2>5. QED
      BY <2>1, <2>2, <2>3, <2>4
  <1>2. ASSUME NEW n \in Node, ReadTun(n) PROVE IInv'
    BY <1>2, TaskKeeps, SendingGoesOn, LeftGoesOn DEF ReadTun
  <1>3. ASSUME NEW n \in Node, TakeTarget(n) PROVE IInv'
    <2>1. PICK d \in task[n].left, k \in Nonce :
            task' = [task EXCEPT ![n] =
                Left([task[n] EXCEPT !.to = d, !.left = @ \ {d}, !.nonce = k,
                               !.todo = Attempts(n, d, task[n].nodeRelay)])]
      BY <1>3 DEF TakeTarget
    <2> DEFINE t == [task[n] EXCEPT !.to = d, !.left = @ \ {d}, !.nonce = k,
                                    !.todo = Attempts(n, d, task[n].nodeRelay)]
    <2>2. DOMAIN task[n] = {"lo", "hi", "to", "todo", "left", "nodeRelay", "nonce", "used"}
      BY <1>3 DEF IInv, TypeInv, TasksAreTyped, TakeTarget, Idle
    <2>3. DOMAIN t = DOMAIN task[n] /\ t.todo = Attempts(n, d, task[n].nodeRelay)
      BY <2>2
    <2>4. config \in Configs
      BY DEF IInv, TypeInv
    <2>5. GoesOn(n, t)
      BY <2>2, <2>3, <2>4, AttemptsAreNamed DEF GoesOn
    <2>6. task' = [task EXCEPT ![n] = Left(t)]
      BY <2>1
    <2> HIDE DEF t
    <2>7. QED
      BY <1>3, <2>5, <2>6, TaskKeeps, LeftGoesOn DEF TakeTarget
  <1>4. ASSUME NEW n \in Node, TryDirect(n) PROVE IInv'
    BY <1>4, SkipKeeps, TransmitKeeps DEF TryDirect, SendData
  <1>5. ASSUME NEW n \in Node, TryThrough(n) PROVE IInv'
    BY <1>5, SkipKeeps, TransmitKeeps DEF TryThrough, SendData
  <1>6. ASSUME NEW n \in Node, TryTcp(n) PROVE IInv'
    <2>1. Tries(n, "TCP") /\ UNCHANGED <<config, socket, channel>>
      BY <1>6 DEF TryTcp
    <2>2. CASE Skip(n)
      BY <2>1, <2>2, SkipKeeps
    <2>3. CASE ~channel[n] /\ Panic(n)
      BY <2>1, <2>3, PanicKeeps
    <2>4. CASE task' = [task EXCEPT ![n] = Left([task[n] EXCEPT !.todo = <<>>])] /\ UNCHANGED status
      BY <2>1, <2>4, TaskKeeps, TailGoesOn, LeftGoesOn DEF Tries
    <2>5. QED
      BY <1>6, <2>2, <2>3, <2>4 DEF TryTcp
  <1>7. ASSUME NEW n \in Node, TryUdp(n) PROVE IInv'
    BY <1>7, SkipKeeps, TransmitKeeps, PanicKeeps DEF TryUdp
  <1>8. ASSUME NEW n \in Node, NEW m \in net, Receive(n, m) PROVE IInv'
    <2> DEFINE lo == Decoded(n, m).range.lo
               hi == Decoded(n, m).range.hi
               begun(x) == [Sending(lo, hi, {x}, TRUE) EXCEPT !.used = ~m.first]
    <2>1. /\ UNCHANGED <<config, status, socket, channel>>
          /\ \/ UNCHANGED task
             \/ \E x : task' = [task EXCEPT ![n] = begun(x)]
      BY <1>8 DEF Receive
    <2>a. \A x : GoesOn(n, begun(x))
      BY SendingGoesOn
    <2> HIDE DEF begun
    <2>2. CASE UNCHANGED task
      BY <2>1, <2>2
      DEF IInv, TypeInv, TasksAreTyped, HasWhatModeAsks, TriesWhatModesName, NoPanic, Up,
          Uses, Mode, Specified
    <2>3. QED
      BY <2>1, <2>2, <2>a, TaskKeeps
  <1>9. ASSUME UNCHANGED <<config, status, socket, channel, task>> PROVE IInv'
    BY <1>9
    DEF IInv, TypeInv, TasksAreTyped, HasWhatModeAsks, TriesWhatModesName, NoPanic, Up,
        Uses, Mode, Specified
  <1>10. ASSUME NEW m \in net, ServerRelay(m) PROVE IInv'
    BY <1>9, <1>10 DEF ServerRelay
  <1>11. ASSUME NEW m \in net, Lose(m) PROVE IInv'
    BY <1>9, <1>11 DEF Lose
  <1>12. ASSUME EndPacket PROVE IInv'
    BY <1>9, <1>12 DEF EndPacket
  <1>13. CASE UNCHANGED vars
    BY <1>9, <1>13 DEF vars
  <1>14. QED
    BY <1>1, <1>2, <1>3, <1>4, <1>5, <1>6, <1>7, <1>8, <1>10, <1>11, <1>12, <1>13 DEF Next

(* For any configurations that are accepted, the unreachable!() of `send`  *)
(* are only met for a protocol that a mode for a single peer names and the *)
(* mode of the group does not.                                             *)
THEOREM PanicsNeedSpecifyMode == Spec => []NoPanic
  <1>1. IInv => NoPanic
    BY DEF IInv
  <1>2. QED
    BY <1>1, InitIInv, StepIInv, PTL DEF Spec

----------------------------------------------------------------------------
(* The cipher and the two encodings *)
IsCell(c) == c = [kind |-> c.kind, v |-> c.v, pads |-> c.pads]

LEMMA XorTwice ==
    ASSUME NEW c, NEW pad, IsCell(c)
    PROVE  Xor(Xor(c, pad), pad) = c /\ IsCell(Xor(c, pad)) /\ Xor(c, pad).v = c.v
  <1> DEFINE x == Xor(c, pad)
             toggled == IF pad \in c.pads THEN c.pads \ {pad} ELSE c.pads \cup {pad}
  <1>1. c = [kind |-> c.kind, v |-> c.v, pads |-> c.pads]
    BY DEF IsCell
  <1>2. x = [kind |-> c.kind, v |-> c.v, pads |-> toggled]
    BY <1>1 DEF Xor
  <1>3. (IF pad \in toggled THEN toggled \ {pad} ELSE toggled \cup {pad}) = c.pads
    OBVIOUS
  <1> HIDE DEF x, toggled
  <1>4. Xor(x, pad) = [kind |-> c.kind, v |-> c.v, pads |-> c.pads]
    BY <1>2, <1>3 DEF Xor
  <1>5. IsCell(x) /\ x.v = c.v
    BY <1>2 DEF IsCell
  <1>6. QED
    BY <1>1, <1>4, <1>5 DEF x

(* A frame that the server or a node reads in two parts is the one that    *)
(* was encoded in one part: for every length of the key and of the packet, *)
(* the body is decrypted where the header has stopped.                     *)
THEOREM FrameIsRead ==
    ASSUME NEW S, \A c \in S : IsCell(c), NEW seq \in Seq(S), NEW d, NEW nonce
    PROVE  ReadMsg(TcpRelayEncode(seq, d, nonce)) = AsBuffer(TcpRelayFrame(seq, d, nonce))
  <1> DEFINE frame == TcpRelayFrame(seq, d, nonce)
             size == Len(frame)
             plain == AsBuffer(frame)
             sent == Encrypt(plain, 1, size, 0, nonce)
             head == Encrypt(sent, 1, 3, 0, sent[0].v)
             pad(i) == <<nonce, (i - 1) % KEY_LEN>>
  <1>1. /\ size = Len(seq) + 5 /\ size \in Nat /\ size >= 5
        /\ frame[1].v = nonce /\ frame[3].v = size - 3
        /\ \A i \in 1 .. size : IsCell(frame[i])
    <2>1. \A kind, v : IsCell(Cell(kind, v)) /\ Cell(kind, v).v = v
      BY DEF Cell, IsCell
    <2>2. /\ frame[1] = Cell("nonce", nonce) /\ frame[2] = Cell("RELAY", 0)
          /\ frame[3] = Cell("len", Len(seq) + 2)
          /\ frame[4] = Cell("addr", d) /\ frame[5] = Cell("addr", d)
          /\ size = Len(seq) + 5
          /\ \A i \in 6 .. size : frame[i] = seq[i - 5]
      BY DEF TcpRelayFrame, AddrCells
    <2> HIDE DEF frame, size
    <2>3. \A i \in 6 .. size : IsCell(frame[i])
      BY <2>2
    <2>4. QED
      BY <2>1, <2>2, <2>3
  <1>2. /\ DOMAIN plain = 0 .. size - 1
        /\ \A i \in 0 .. size - 1 : plain[i] = frame[i + 1]
    BY <1>1 DEF AsBuffer
  <1> HIDE DEF frame, size, plain
  <1>3. /\ DOMAIN sent = 0 .. size - 1 /\ sent[0] = plain[0]
        /\ \A i \in 1 .. size - 1 : sent[i] = IF Keyed THEN Xor(plain[i], pad(i)) ELSE plain[i]
    BY <1>1, <1>2, TransportAssumption DEF Encrypt
  <1>4. sent[0].v = nonce
    BY <1>1, <1>2, <1>3
  <1> HIDE DEF sent
  <1>5. \A i \in 1 .. size - 1 : Xor(Xor(plain[i], pad(i)), pad(i)) = plain[i]
    BY <1>1, <1>2, XorTwice
  <1>6. /\ DOMAIN head = 0 .. size - 1
        /\ \A i \in 0 .. size - 1 : head[i] = IF i <= 2 THEN plain[i] ELSE sent[i]
    <2>1. /\ DOMAIN head = 0 .. size - 1
          /\ \A i \in 0 .. size - 1 :
               head[i] = IF Keyed /\ i \in 1 .. 2
                         THEN Xor(sent[i], <<nonce, (0 + i - 1) % KEY_LEN>>) ELSE sent[i]
      BY <1>3, <1>4 DEF Encrypt
    <2> HIDE DEF head
    <2>2. ASSUME NEW i \in 1 .. size - 1, i <= 2, Keyed
          PROVE  head[i] = Xor(Xor(plain[i], pad(i)), pad(i))
      <3>1. 0 + i - 1 = i - 1
        BY <1>1
      <3>2. head[i] = Xor(sent[i], pad(i))
        BY <1>1, <2>1, <2>2, <3>1
      <3>3. sent[i] = Xor(plain[i], pad(i))
        BY <1>3, <2>2
      <3>4. QED
        BY <3>2, <3>3
    <2>3. ASSUME NEW i \in 1 .. size - 1, i <= 2 PROVE head[i] = plain[i]
      <3>1. CASE Keyed
        BY <1>5, <2>2, <2>3, <3>1
      <3>2. CASE ~Keyed
        <4>1. i \in 0 .. size - 1
          BY <1>1
        <4>2. head[i] = sent[i]
          BY <2>1, <3>2, <4>1
        <4>3. sent[i] = plain[i]
          BY <1>3, <3>2
        <4>4. QED
          BY <4>2, <4>3
      <3>3. QED
        BY <3>1, <3>2
    <2>4. head[0] = plain[0]
      <3>1. 0 \in 0 .. size - 1 /\ 0 \notin 1 .. 2
        BY <1>1
      <3>2. QED
        BY <1>3, <2>1, <3>1
    <2>5. ASSUME NEW i \in 0 .. size - 1, i > 2 PROVE head[i] = sent[i]
      <3>1. i \notin 1 .. 2
        BY <2>5
      <3>2. QED
        BY <2>1, <3>1
    <2>6. QED
      BY <1>1, <2>1, <2>3, <2>4, <2>5
  <1>7. 3 + head[2].v = size
    BY <1>1, <1>2, <1>6
  <1> HIDE DEF head
  <1>8. ReadMsg(sent) = Encrypt(head, 3, size, 2, nonce)
    BY <1>4, <1>7 DEF ReadMsg, TCP_MSG_HEADER_LEN, head
  <1>9. /\ DOMAIN ReadMsg(sent) = 0 .. size - 1
        /\ \A i \in 0 .. size - 1 : ReadMsg(sent)[i] = plain[i]
    <2>1. \A i \in 3 .. size - 1 : 2 + i - 3 = i - 1
      BY <1>1
    <2>2. \A i \in 3 .. size - 1 :
            Encrypt(head, 3, size, 2, nonce)[i] = IF Keyed THEN Xor(sent[i], pad(i)) ELSE sent[i]
      BY <1>1, <1>6, <2>1 DEF Encrypt
    <2>3. \A i \in 0 .. 2 : Encrypt(head, 3, size, 2, nonce)[i] = plain[i]
      BY <1>1, <1>6 DEF Encrypt
    <2>4. DOMAIN Encrypt(head, 3, size, 2, nonce) = 0 .. size - 1
      BY <1>6 DEF Encrypt
    <2>5. ASSUME NEW i \in 3 .. size - 1
          PROVE  Encrypt(head, 3, size, 2, nonce)[i] = plain[i]
      <3>1. i \in 1 .. size - 1
        BY <1>1
      <3>2. sent[i] = IF Keyed THEN Xor(plain[i], pad(i)) ELSE plain[i]
        BY <1>3, <3>1
      <3> HIDE DEF pad
      <3>3. QED
        BY <1>5, <2>2, <3>1, <3>2
    <2>6. \A i \in 0 .. size - 1 : i \in 0 .. 2 \/ i \in 3 .. size - 1
      BY <1>1
    <2>7. QED
      BY <1>8, <2>3, <2>4, <2>5, <2>6
  <1>10. ReadMsg(sent) = [i \in DOMAIN ReadMsg(sent) |-> ReadMsg(sent)[i]]
    BY <1>8 DEF Encrypt
  <1>11. plain = [i \in DOMAIN plain |-> plain[i]]
    BY DEF plain, AsBuffer
  <1>12. ReadMsg(sent) = plain
    BY <1>2, <1>9, <1>10, <1>11
  <1>13. sent = TcpRelayEncode(seq, d, nonce)
    BY DEF sent, TcpRelayEncode, frame, size, plain
  <1>14. QED
    BY <1>12, <1>13 DEF plain, frame

(* n cells of f from a on, and of g from b on, are there and the same. *)
SameCells(f, a, g, b, n) ==
    /\ a .. a + n - 1 \subseteq DOMAIN f /\ b .. b + n - 1 \subseteq DOMAIN g
    /\ \A i \in 0 .. n - 1 : f[a + i] = g[b + i]

AreCells(f, a, n) ==
    a .. a + n - 1 \subseteq DOMAIN f /\ \A i \in a .. a + n - 1 : IsCell(f[i])

(* A datagram that was encrypted from `at` on in one buffer and received   *)
(* from `pos` on in another is decrypted there to what was written, for    *)
(* every length of the key: data and relay messages, at a node (which      *)
(* receives behind UDP_START cells) and at the server (at the front).      *)
THEOREM DatagramIsRead ==
    ASSUME NEW w, NEW at \in Nat, NEW size \in Nat \ {0}, AreCells(w, at, size),
           NEW r, NEW pos \in Nat,
           SameCells(r, pos, Encrypt(w, at + 1, at + size, 0, w[at].v), at, size)
    PROVE  SameCells(UdpDecode(r, pos, size), pos, w, at, size)
  <1> DEFINE nonce == w[at].v
             pad(i) == <<nonce, (i - 1) % KEY_LEN>>
  <1>0. /\ at .. at + size - 1 \subseteq DOMAIN w
        /\ \A i \in at .. at + size - 1 : IsCell(w[i])
        /\ pos .. pos + size - 1 \subseteq DOMAIN r
        /\ \A i \in 0 .. size - 1 :
              r[pos + i] = Encrypt(w, at + 1, at + size, 0, w[at].v)[at + i]
    BY DEF AreCells, SameCells
  <1>1. r[pos] = w[at]
    <2>1. at \in DOMAIN w /\ at \notin at + 1 .. at + size - 1
      BY <1>0
    <2>2. Encrypt(w, at + 1, at + size, 0, nonce)[at] = w[at]
      BY <2>1 DEF Encrypt
    <2>3. r[pos + 0] = Encrypt(w, at + 1, at + size, 0, nonce)[at + 0]
      BY <1>0
    <2>4. QED
      BY <2>2, <2>3
  <1>2. UdpDecode(r, pos, size) = Encrypt(r, pos + 1, pos + size, 0, nonce)
    BY <1>1 DEF UdpDecode
  <1>3. ASSUME NEW i \in 1 .. size - 1
        PROVE  Encrypt(r, pos + 1, pos + size, 0, nonce)[pos + i] = w[at + i]
    <2>1. /\ at + i \in DOMAIN w /\ at + i \in at + 1 .. (at + size) - 1
          /\ pos + i \in DOMAIN r /\ pos + i \in pos + 1 .. (pos + size) - 1
          /\ (0 + (at + i)) - (at + 1) = i - 1
          /\ (0 + (pos + i)) - (pos + 1) = i - 1
      BY <1>0
    <2>2. Encrypt(w, at + 1, at + size, 0, nonce)[at + i]
            = IF Keyed THEN Xor(w[at + i], pad(i)) ELSE w[at + i]
      BY <2>1 DEF Encrypt
    <2>3. Encrypt(r, pos + 1, pos + size, 0, nonce)[pos + i]
            = IF Keyed THEN Xor(r[pos + i], pad(i)) ELSE r[pos + i]
      BY <2>1 DEF Encrypt
    <2>4. r[pos + i] = IF Keyed THEN Xor(w[at + i], pad(i)) ELSE w[at + i]
      <3>1. i \in 0 .. size - 1
        OBVIOUS
      <3>2. r[pos + i] = Encrypt(w, at + 1, at + size, 0, nonce)[at + i]
        BY <1>0, <3>1
      <3>3. QED
        BY <2>2, <3>2
    <2>5. Xor(Xor(w[at + i], pad(i)), pad(i)) = w[at + i]
      BY <1>0, <2>1, XorTwice
    <2>6. QED
      BY <2>3, <2>4, <2>5
  <1>4. Encrypt(r, pos + 1, pos + size, 0, nonce)[pos + 0] = w[at + 0]
    <2>1. pos \in DOMAIN r /\ pos \notin pos + 1 .. (pos + size) - 1
      BY <1>0
    <2>2. Encrypt(r, pos + 1, pos + size, 0, nonce)[pos] = r[pos]
      BY <2>1 DEF Encrypt
    <2>3. QED
      BY <1>1, <2>2
  <1>5. \A i \in 0 .. size - 1 : UdpDecode(r, pos, size)[pos + i] = w[at + i]
    BY <1>2, <1>3, <1>4
  <1>6. DOMAIN UdpDecode(r, pos, size) = DOMAIN r
    BY <1>2 DEF Encrypt
  <1>7. QED
    BY <1>0, <1>5, <1>6 DEF SameCells
----------------------------------------------------------------------------
(* Remainders, for a key of any length *)
LEMMA Division ==
    ASSUME NEW K \in Nat \ {0}, NEW a \in Nat
    PROVE  a % K \in 0 .. K - 1 /\ \E q \in Nat : a = q * K + (a % K)
  <1>1. a \div K \in Nat /\ a = (a \div K) * K + (a % K) /\ a % K \in 0 .. K - 1
    BY Z3
  <1>2. QED
    BY <1>1

LEMMA RemainderIsUnique ==
    ASSUME NEW K \in Nat \ {0}, NEW p \in Nat, NEW q \in Nat,
           NEW r \in 0 .. K - 1, NEW s \in 0 .. K - 1, p * K + r = q * K + s
    PROVE  r = s
  <1>1. ASSUME NEW x \in Nat, NEW y \in Nat, x > y PROVE x * K >= y * K + K
    <2>1. PICK d \in Nat : x = y + 1 + d
      BY <1>1
    <2>2. x * K = y * K + K + d * K /\ d * K >= 0
      BY <2>1, Z3
    <2>3. QED
      BY <2>2, Z3
  <1> DEFINE pk == p * K
             qk == q * K
  <1>2. pk \in Int /\ qk \in Int /\ pk + r = qk + s
    OBVIOUS
  <1>3. (p > q => pk >= qk + K) /\ (q > p => qk >= pk + K) /\ (p = q => pk = qk)
    BY <1>1
  <1> HIDE DEF pk, qk
  <1>4. p = q
    BY <1>2, <1>3
  <1>5. QED
    BY <1>2, <1>3, <1>4

LEMMA ShiftedRemainder ==
    ASSUME NEW K \in Nat \ {0}, NEW c \in Nat, NEW i \in Nat
    PROVE  ((c % K) + i) % K = (c + i) % K
  <1> DEFINE r == c % K
             s == (r + i) % K
             t == (c + i) % K
  <1>1. r \in Nat /\ r + i \in Nat /\ c + i \in Nat
    BY Division
  <1>2. PICK p \in Nat : c = p * K + r
    BY Division
  <1>3. s \in 0 .. K - 1 /\ t \in 0 .. K - 1
    BY <1>1, Division
  <1>4. PICK u \in Nat : r + i = u * K + s
    BY <1>1, Division
  <1>5. PICK w \in Nat : c + i = w * K + t
    BY <1>1, Division
  <1> HIDE DEF r, s, t
  <1>6. (p + u) * K + s = w * K + t
    <2>1. (p + u) * K = p * K + u * K
      BY Z3
    <2>2. p * K \in Int /\ u * K \in Int /\ w * K \in Int
      OBVIOUS
    <2>3. QED
      BY <1>1, <1>2, <1>3, <1>4, <1>5, <2>1, <2>2
  <1>7. p + u \in Nat
    OBVIOUS
  <1>8. s = t
    BY <1>3, <1>6, <1>7, RemainderIsUnique
  <1>9. QED
    BY <1>8 DEF r, s, t

LEMMA ShiftIsInjective ==
    ASSUME NEW K \in Nat \ {0}, NEW a \in 0 .. K - 1, NEW b \in 0 .. K - 1, NEW i \in Nat,
           (a + i) % K = (b + i) % K
    PROVE  a = b
  <1> DEFINE s == (a + i) % K
  <1>1. a + i \in Nat /\ b + i \in Nat
    OBVIOUS
  <1>2. s \in 0 .. K - 1 /\ s = (b + i) % K
    BY <1>1, Division
  <1>3. PICK p \in Nat : a + i = p * K + s
    BY <1>1, Division
  <1>4. PICK q \in Nat : b + i = q * K + s
    BY <1>1, <1>2, Division
  <1> HIDE DEF s
  <1>5. q * K + a = p * K + b
    <2>1. p * K \in Int /\ q * K \in Int
      OBVIOUS
    <2>2. QED
      BY <1>2, <1>3, <1>4, <2>1
  <1>6. QED
    BY <1>5, RemainderIsUnique

----------------------------------------------------------------------------
(* Where a packet is, and how it is encrypted there: its cells have all    *)
(* been XORed with the same key streams, each from the same cell on.       *)
Shifts == Nonce \X (0 .. KEY_LEN - 1)

Pads(i, P) == {<<q[1], (q[2] + i) % KEY_LEN>> : q \in P}
PacketCell(i, P) == [kind |-> "packet", v |-> i, pads |-> Pads(i, P)]

Carries(f, at, len, P) == \A i \in 1 .. len : f[at + i - 1] = PacketCell(i, P)

HoldsCells(b, size) == DOMAIN b = 0 .. size - 1 /\ \A i \in 0 .. size - 1 : IsCell(b[i])

LEMMA CellsAreCells ==
    /\ \A kind, v : IsCell(Cell(kind, v)) /\ Cell(kind, v).kind = kind /\ Cell(kind, v).v = v
    /\ \A i, P : IsCell(PacketCell(i, P)) /\ PacketCell(i, P).pads = Pads(i, P)
    /\ \A i : PacketCell(i, {}) = Cell("packet", i)
  BY DEF Cell, IsCell, PacketCell, Pads

Toggled(P, e) == IF e \in P THEN P \ {e} ELSE P \cup {e}

(* One more encryption of a cell of the packet. *)
LEMMA PadsToggle ==
    ASSUME NEW P \in SUBSET Shifts, NEW nonce \in Nonce, NEW s \in Nat, NEW i \in Nat
    PROVE  /\ Toggled(P, <<nonce, s % KEY_LEN>>) \in SUBSET Shifts
           /\ Xor(PacketCell(i, P), <<nonce, (s + i) % KEY_LEN>>)
                = PacketCell(i, Toggled(P, <<nonce, s % KEY_LEN>>))
  <1> DEFINE e == <<nonce, s % KEY_LEN>>
             pad == <<nonce, (s + i) % KEY_LEN>>
             Q == Toggled(P, e)
             g(q) == <<q[1], (q[2] + i) % KEY_LEN>>
  <1>1. KEY_LEN \in Nat \ {0}
    BY TransportAssumption
  <1>2. e \in Shifts
    BY <1>1, Division DEF Shifts
  <1>3. g(e) = pad
    BY <1>1, ShiftedRemainder
  <1>4. ASSUME NEW q \in Shifts, NEW r \in Shifts, g(q) = g(r)
        PROVE  q = r
    <2>1. PICK a \in Nonce, b \in 0 .. KEY_LEN - 1 : q = <<a, b>>
      BY DEF Shifts
    <2>2. PICK c \in Nonce, d \in 0 .. KEY_LEN - 1 : r = <<c, d>>
      BY DEF Shifts
    <2>3. a = c /\ (b + i) % KEY_LEN = (d + i) % KEY_LEN
      BY <1>4, <2>1, <2>2
    <2>4. b = d
      BY <1>1, <2>3, ShiftIsInjective
    <2>5. QED
      BY <2>1, <2>2, <2>3, <2>4
  <1>5. Pads(i, P) = {g(q) : q \in P} /\ Pads(i, Q) = {g(q) : q \in Q}
    BY DEF Pads
  <1> HIDE DEF g, e, pad
  <1>6. Q \in SUBSET Shifts
    BY <1>2 DEF Toggled
  <1>7. pad \in Pads(i, P) <=> e \in P
    BY <1>2, <1>3, <1>4, <1>5
  <1>8. Pads(i, Q) = IF pad \in Pads(i, P) THEN Pads(i, P) \ {pad} ELSE Pads(i, P) \cup {pad}
    <2>1. CASE e \in P
      BY <1>2, <1>3, <1>4, <1>5, <1>7, <2>1 DEF Toggled
    <2>2. CASE e \notin P
      BY <1>2, <1>3, <1>4, <1>5, <1>7, <2>2 DEF Toggled
    <2>3. QED
      BY <2>1, <2>2
  <1> HIDE DEF Q
  <1>9. Xor(PacketCell(i, P), pad) = PacketCell(i, Q)
    BY <1>8 DEF Xor, PacketCell
  <1>10. QED
    BY <1>6, <1>9 DEF e, pad, Q

(* Encryption of what lies from lo on leaves the packet behind the header  *)
(* as it is, or as it is under one more key stream.                        *)
LEMMA EncryptCarries ==
    ASSUME NEW f, NEW lo \in Nat, NEW hi \in Nat, NEW offset \in Nat, NEW nonce \in Nonce,
           NEW at \in Nat, NEW len \in Nat, lo < at, at + len <= hi,
           \A i \in 1 .. len : at + i - 1 \in DOMAIN f,
           NEW P \in SUBSET Shifts, Carries(f, at, len, P)
    PROVE  \E Q \in SUBSET Shifts : Carries(Encrypt(f, lo, hi, offset, nonce), at, len, Q)
  <1>1. CASE ~Keyed
    <2>1. \A i \in 1 .. len : Encrypt(f, lo, hi, offset, nonce)[at + i - 1] = f[at + i - 1]
      BY <1>1 DEF Encrypt
    <2>2. QED
      BY <2>1 DEF Carries
  <1>2. CASE Keyed
    <2> DEFINE s == offset + at - 1 - lo
               Q == Toggled(P, <<nonce, s % KEY_LEN>>)
    <2>1. s \in Nat
      OBVIOUS
    <2>2. ASSUME NEW i \in 1 .. len
          PROVE  Encrypt(f, lo, hi, offset, nonce)[at + i - 1] = PacketCell(i, Q)
      <3>1. at + i - 1 \in lo .. hi - 1 /\ offset + (at + i - 1) - lo = s + i
        OBVIOUS
      <3>2. Encrypt(f, lo, hi, offset, nonce)[at + i - 1]
              = Xor(f[at + i - 1], <<nonce, (s + i) % KEY_LEN>>)
        BY <1>2, <3>1 DEF Encrypt
      <3>3. f[at + i - 1] = PacketCell(i, P)
        BY DEF Carries
      <3> HIDE DEF s
      <3>4. Xor(PacketCell(i, P), <<nonce, (s + i) % KEY_LEN>>) = PacketCell(i, Q)
        BY <2>1, PadsToggle
      <3> HIDE DEF Q
      <3>5. QED
        BY <3>2, <3>3, <3>4
    <2>3. Q \in SUBSET Shifts
      <3> HIDE DEF s
      <3>1. QED
        BY <2>1, PadsToggle
    <2> HIDE DEF Q
    <2>4. QED
      BY <2>2, <2>3 DEF Carries
  <1>3. QED
    BY <1>1, <1>2

----------------------------------------------------------------------------
(* What encoding leaves in the buffer, and what the datagram holds *)
LEMMA SizeOfBuffer ==
    ASSUME NEW f, NEW k \in Nat, DOMAIN f = 0 .. k - 1
    PROVE  Size(f) = k
  BY FS_Interval DEF Size

LEMMA EncryptHoldsCells ==
    ASSUME NEW f, NEW size \in Nat, HoldsCells(f, size),
           NEW lo, NEW hi, NEW offset, NEW nonce
    PROVE  HoldsCells(Encrypt(f, lo, hi, offset, nonce), size)
  <1>1. DOMAIN Encrypt(f, lo, hi, offset, nonce) = 0 .. size - 1
    BY DEF HoldsCells, Encrypt
  <1>2. ASSUME NEW i \in 0 .. size - 1
        PROVE  IsCell(Encrypt(f, lo, hi, offset, nonce)[i])
    <2> DEFINE pad == <<nonce, (offset + i - lo) % KEY_LEN>>
    <2>1. IsCell(f[i])
      BY DEF HoldsCells
    <2>2. IsCell(Xor(f[i], pad))
      BY <2>1, XorTwice
    <2>3. \/ Encrypt(f, lo, hi, offset, nonce)[i] = f[i]
          \/ Encrypt(f, lo, hi, offset, nonce)[i] = Xor(f[i], pad)
      BY DEF Encrypt, HoldsCells
    <2> HIDE DEF pad
    <2>4. QED
      BY <2>1, <2>2, <2>3
  <1>3. QED
    BY <1>1, <1>2 DEF HoldsCells

AllCells(seq) == \A i \in 1 .. Len(seq) : IsCell(seq[i])

LEMMA WrittenHoldsCells ==
    ASSUME NEW f, NEW size \in Nat, HoldsCells(f, size), NEW at \in Nat,
           NEW seq, Len(seq) \in Nat, AllCells(seq)
    PROVE  /\ HoldsCells(Written(f, at, seq), size)
           /\ \A i \in 0 .. size - 1 :
                Written(f, at, seq)[i]
                    = IF at <= i /\ i < at + Len(seq) THEN seq[i - at + 1] ELSE f[i]
  <1>1. DOMAIN Written(f, at, seq) = 0 .. size - 1
    BY DEF HoldsCells, Written
  <1>2. ASSUME NEW i \in 0 .. size - 1
        PROVE  /\ Written(f, at, seq)[i]
                    = IF at <= i /\ i < at + Len(seq) THEN seq[i - at + 1] ELSE f[i]
               /\ IsCell(Written(f, at, seq)[i])
    <2>1. i \in at .. at + Len(seq) - 1 <=> at <= i /\ i < at + Len(seq)
      OBVIOUS
    <2>2. Written(f, at, seq)[i]
            = IF at <= i /\ i < at + Len(seq) THEN seq[i - at + 1] ELSE f[i]
      BY <2>1 DEF Written, HoldsCells
    <2>3. IsCell(f[i])
      BY DEF HoldsCells
    <2>4. at <= i /\ i < at + Len(seq) => i - at + 1 \in 1 .. Len(seq)
      OBVIOUS
    <2>5. QED
      BY <2>2, <2>3, <2>4 DEF AllCells
  <1>3. QED
    BY <1>1, <1>2 DEF HoldsCells

(* A header h is written in front of what lies at lo .. hi - 1, and both   *)
(* are encrypted, as data_encode and relay_encode do.                      *)
InFront(b, lo, hi, h, nonce) ==
    Encrypt(Written(b, lo - Len(h), h), lo - Len(h) + 1, hi, 0, nonce)

Starts(f, at, h) == \A i \in 1 .. Len(h) : f[at + i - 1] = h[i]

Copies(c, f, at, n) == DOMAIN c = 0 .. n - 1 /\ \A i \in 0 .. n - 1 : c[i] = f[at + i]

LEMMA HeaderInFront ==
    ASSUME NEW b, NEW size \in Nat, HoldsCells(b, size),
           NEW len \in Nat, NEW lo \in Nat, NEW hi \in Nat, lo + len <= hi, hi <= size,
           NEW P \in SUBSET Shifts, Carries(b, lo, len, P),
           NEW h, Len(h) \in Nat, 2 <= Len(h), Len(h) <= lo,
           AllCells(h)
    PROVE  LET w == Written(b, lo - Len(h), h)
           IN  /\ HoldsCells(w, size) /\ Carries(w, lo, len, P)
               /\ Starts(w, lo - Len(h), h)
  <1> DEFINE at == lo - Len(h)
             w == Written(b, at, h)
  <1>1. at \in Nat /\ at + Len(h) = lo
    OBVIOUS
  <1>2. HoldsCells(w, size)
    BY <1>1, WrittenHoldsCells
  <1>3. ASSUME NEW i \in 0 .. size - 1
        PROVE  w[i] = IF at <= i /\ i < lo THEN h[i - at + 1] ELSE b[i]
    <2>1. i \in DOMAIN b
      BY DEF HoldsCells
    <2>2. w[i] = IF i \in at .. at + Len(h) - 1 THEN h[i - at + 1] ELSE b[i]
      BY <2>1 DEF Written
    <2>3. i \in at .. at + Len(h) - 1 <=> at <= i /\ i < lo
      BY <1>1
    <2>4. QED
      BY <2>2, <2>3
  <1> HIDE DEF w
  <1>4. Carries(w, lo, len, P)
    <2>1. ASSUME NEW i \in 1 .. len PROVE w[lo + i - 1] = PacketCell(i, P)
      <3>1. lo + i - 1 \in 0 .. size - 1 /\ ~(lo + i - 1 < lo)
        OBVIOUS
      <3>2. w[lo + i - 1] = b[lo + i - 1]
        BY <1>3, <3>1
      <3>3. QED
        BY <3>2 DEF Carries
    <2>2. QED
      BY <2>1 DEF Carries
  <1>5. ASSUME NEW i \in 1 .. Len(h) PROVE w[at + i - 1] = h[i]
    <2>1. at + i - 1 \in 0 .. size - 1 /\ (at + i - 1) - at + 1 = i
          /\ at <= at + i - 1 /\ at + i - 1 < lo
      BY <1>1
    <2>2. w[at + i - 1] = h[(at + i - 1) - at + 1]
      BY <1>3, <2>1
    <2>3. QED
      BY <2>1, <2>2
  <1>6. QED
    BY <1>2, <1>4, <1>5 DEF w, Starts

(* The packet is still there, under one key stream more. *)
LEMMA EncodedBuffer ==
    ASSUME NEW b, NEW size \in Nat, HoldsCells(b, size),
           NEW len \in Nat, NEW lo \in Nat, NEW hi \in Nat, lo + len <= hi, hi <= size,
           NEW P \in SUBSET Shifts, Carries(b, lo, len, P),
           NEW h, Len(h) \in Nat, 2 <= Len(h), Len(h) <= lo,
           AllCells(h), NEW nonce \in Nonce
    PROVE  /\ HoldsCells(InFront(b, lo, hi, h, nonce), size)
           /\ \E Q \in SUBSET Shifts : Carries(InFront(b, lo, hi, h, nonce), lo, len, Q)
  <1> DEFINE at == lo - Len(h)
             w == Written(b, at, h)
  <1>1. HoldsCells(w, size) /\ Carries(w, lo, len, P)
    BY HeaderInFront
  <1> HIDE DEF w
  <1>2. HoldsCells(Encrypt(w, at + 1, hi, 0, nonce), size)
    BY <1>1, EncryptHoldsCells
  <1>3. \A i \in 1 .. len : lo + i - 1 \in DOMAIN w
    BY <1>1 DEF HoldsCells
  <1>4. at + 1 \in Nat /\ at + 1 < lo /\ 0 \in Nat
    OBVIOUS
  <1> HIDE DEF at
  <1>5. \E Q \in SUBSET Shifts : Carries(Encrypt(w, at + 1, hi, 0, nonce), lo, len, Q)
    BY <1>1, <1>3, <1>4, EncryptCarries
  <1>6. QED
    BY <1>2, <1>5 DEF InFront, w, at

(* A copy of what was encoded decrypts to the header and the packet. *)
LEMMA EncodedCopy ==
    ASSUME NEW b, NEW size \in Nat, HoldsCells(b, size),
           NEW len \in Nat, NEW lo \in Nat, NEW hi \in Nat, lo + len <= hi, hi <= size,
           NEW P \in SUBSET Shifts, Carries(b, lo, len, P),
           NEW h, Len(h) \in Nat, 2 <= Len(h), Len(h) <= lo,
           AllCells(h), NEW nonce, h[1].v = nonce,
           NEW c,
           Copies(c, InFront(b, lo, hi, h, nonce), lo - Len(h), hi - lo + Len(h))
    PROVE  /\ Size(c) = hi - lo + Len(h) /\ HoldsCells(c, hi - lo + Len(h))
           /\ \A i \in 1 .. Len(h) : UdpDecode(c, 0, Size(c))[i - 1] = h[i]
           /\ Carries(UdpDecode(c, 0, Size(c)), Len(h), len, P)
  <1> DEFINE at == lo - Len(h)
             w == Written(b, at, h)
             cells == Encrypt(w, at + 1, hi, 0, nonce)
             n == hi - lo + Len(h)
  <1>1. at \in Nat /\ n \in Nat \ {0} /\ at + n = hi
    OBVIOUS
  <1>2. /\ HoldsCells(w, size) /\ Carries(w, lo, len, P)
        /\ \A i \in 1 .. Len(h) : w[at + i - 1] = h[i]
    <2>1. HoldsCells(w, size) /\ Carries(w, lo, len, P) /\ Starts(w, at, h)
      BY HeaderInFront
    <2>2. QED
      BY <2>1 DEF Starts
  <1>3. DOMAIN c = 0 .. n - 1 /\ \A i \in 0 .. n - 1 : c[i] = cells[at + i]
    BY DEF Copies, InFront
  <1> HIDE DEF w
  <1>4. HoldsCells(cells, size)
    BY <1>2, EncryptHoldsCells
  <1>5. Size(c) = n
    BY <1>1, <1>3, SizeOfBuffer
  <1>6. \A i \in 0 .. n - 1 : at + i \in 0 .. size - 1
    BY <1>1
  <1>7. HoldsCells(c, n)
    BY <1>3, <1>4, <1>6 DEF HoldsCells
  <1>8. w[at].v = nonce
    <2>1. 1 \in 1 .. Len(h) /\ at + 1 - 1 = at
      BY <1>1
    <2> HIDE DEF at
    <2>2. w[at + 1 - 1] = h[1]
      BY <1>2, <2>1
    <2>3. QED
      BY <2>1, <2>2
  <1>9. \A i \in 0 .. n - 1 : UdpDecode(c, 0, n)[i] = w[at + i]
    <2>1. at .. at + n - 1 \subseteq 0 .. size - 1
      BY <1>1
    <2>2. AreCells(w, at, n)
      <3> HIDE DEF at, n
      <3>1. QED
        BY <1>2, <2>1 DEF HoldsCells, AreCells
    <2>3. SameCells(c, 0, Encrypt(w, at + 1, at + n, 0, w[at].v), at, n)
      <3>1. at .. at + n - 1 \subseteq DOMAIN cells /\ 0 .. 0 + n - 1 \subseteq DOMAIN c
        BY <1>1, <1>3, <1>4, <2>1 DEF HoldsCells
      <3>2. cells = Encrypt(w, at + 1, at + n, 0, w[at].v)
        BY <1>1, <1>8
      <3> HIDE DEF at, n, cells
      <3>3. \A i \in 0 .. n - 1 : c[0 + i] = cells[at + i]
        BY <1>1, <1>3
      <3>4. QED
        BY <3>1, <3>2, <3>3 DEF SameCells
    <2> HIDE DEF at, n, cells
    <2>4. SameCells(UdpDecode(c, 0, n), 0, w, at, n)
      BY <1>1, <2>2, <2>3, DatagramIsRead
    <2>5. QED
      BY <1>1, <2>4 DEF SameCells
  <1>10. ASSUME NEW i \in 1 .. Len(h) PROVE UdpDecode(c, 0, n)[i - 1] = h[i]
    <2>1. i - 1 \in 0 .. n - 1 /\ at + (i - 1) = at + i - 1
      BY <1>1
    <2>2. w[at + i - 1] = h[i]
      BY <1>2
    <2>3. QED
      BY <1>9, <2>1, <2>2
  <1>11. ASSUME NEW i \in 1 .. len PROVE UdpDecode(c, 0, n)[Len(h) + i - 1] = PacketCell(i, P)
    <2>1. Len(h) + i - 1 \in 0 .. n - 1 /\ at + (Len(h) + i - 1) = lo + i - 1
      BY <1>1
    <2>2. w[lo + i - 1] = PacketCell(i, P)
      BY <1>2 DEF Carries
    <2>3. QED
      BY <1>9, <2>1, <2>2
  <1>12. QED
    BY <1>5, <1>7, <1>10, <1>11 DEF Carries

----------------------------------------------------------------------------
(* What holds of every message under way *)
Plain(m) == IF m.by = "UDP" THEN UdpDecode(m.cells, 0, Size(m.cells)) ELSE ReadMsg(m.cells)

Start(m) ==
    IF m.by = "TCP" THEN TCP_MSG_HEADER_LEN + ADDR_LEN
    ELSE UDP_MSG_HEADER_LEN + (IF Plain(m)[1].kind = "RELAY" THEN ADDR_LEN ELSE 0)

(* The packet lies behind the header, under the key streams of earlier     *)
(* transports; a first copy is in plain text.                              *)
HasPacket(m, len) ==
    \E P \in SUBSET Shifts : Carries(Plain(m), Start(m), len, P) /\ (m.first => P = {})

Fits(m) ==
    \/ m.by = "TCP" /\ Size(m.cells) <= SIZE + 1
    \/ /\ m.by = "UDP" /\ Size(m.cells) <= MAX_DATAGRAM
       /\ Plain(m)[1].kind \in {"DATA", "RELAY"}
       /\ m.to = Server => Plain(m)[1].kind = "RELAY"

Well(m, len) ==
    /\ m.to \in Node \cup {Server}
    /\ m.to = Server => RelayTo(m) \in Node
    /\ Size(m.cells) \in Nat /\ HoldsCells(m.cells, Size(m.cells))
    /\ Start(m) + len <= Size(m.cells)
    /\ Fits(m) /\ HasPacket(m, len)

LEMMA LengthsOfHeaders ==
    /\ UDP_MSG_HEADER_LEN = 2 /\ TCP_MSG_HEADER_LEN = 3 /\ ADDR_LEN = 2
    /\ UDP_START = 2 /\ TCP_START = 2 /\ TUN_START = 4
    /\ SIZE \in Nat /\ MAX_DATAGRAM \in Nat /\ MAX_DATAGRAM + 6 <= SIZE
    /\ \A l \in Lengths : l \in Nat \ {0} /\ l + 4 <= SIZE
  BY TransportAssumption
  DEF UDP_MSG_HEADER_LEN, TCP_MSG_HEADER_LEN, ADDR_LEN, UDP_START, TCP_START, TUN_START

LEMMA Headers ==
    ASSUME NEW d, NEW nonce
    PROVE  /\ Len(DataHeader(nonce)) = 2 /\ Len(UdpRelayHeader(d, nonce)) = 4
           /\ DataHeader(nonce)[1].v = nonce /\ UdpRelayHeader(d, nonce)[1].v = nonce
           /\ DataHeader(nonce)[2].kind = "DATA" /\ UdpRelayHeader(d, nonce)[2].kind = "RELAY"
           /\ UdpRelayHeader(d, nonce)[3].v = d
           /\ \A i \in 1 .. 2 : IsCell(DataHeader(nonce)[i])
           /\ \A i \in 1 .. 4 : IsCell(UdpRelayHeader(d, nonce)[i])
  <1>1. /\ Len(DataHeader(nonce)) = 2
        /\ DataHeader(nonce)[1] = Cell("nonce", nonce)
        /\ DataHeader(nonce)[2] = Cell("DATA", 0)
    BY DEF DataHeader
  <1>2. /\ Len(UdpRelayHeader(d, nonce)) = 4
        /\ UdpRelayHeader(d, nonce)[1] = Cell("nonce", nonce)
        /\ UdpRelayHeader(d, nonce)[2] = Cell("RELAY", 0)
        /\ UdpRelayHeader(d, nonce)[3] = Cell("addr", d)
        /\ UdpRelayHeader(d, nonce)[4] = Cell("addr", d)
    BY DEF UdpRelayHeader, AddrCells
  <1>3. 1 .. 2 = {1, 2} /\ 1 .. 4 = {1, 2, 3, 4}
    OBVIOUS
  <1>4. QED
    BY <1>1, <1>2, <1>3, CellsAreCells

IsHeader(h, nonce) ==
    /\ Len(h) \in {2, 4} /\ h[1].v = nonce
    /\ h[2].kind = (IF Len(h) = 2 THEN "DATA" ELSE "RELAY")
    /\ \A i \in 1 .. Len(h) : IsCell(h[i])

EncodedFrom(c, b, lo, hi, h, nonce) ==
    Copies(c, InFront(b, lo, hi, h, nonce), lo - Len(h), hi - lo + Len(h))

(* A datagram that was encoded in a buffer, behind a header h of k cells. *)
LEMMA EncodedIsWell ==
    ASSUME NEW b, NEW size \in Nat, HoldsCells(b, size),
           NEW len \in Nat, NEW lo \in Nat, NEW hi \in Nat, lo + len <= hi, hi <= size,
           NEW P \in SUBSET Shifts, Carries(b, lo, len, P),
           NEW h, NEW nonce, IsHeader(h, nonce), Len(h) <= lo,
           NEW m, m.by = "UDP", m.to \in Node \cup {Server}, m.first => P = {},
           m.to = Server => Len(h) = 4 /\ h[3].v \in Node,
           EncodedFrom(m.cells, b, lo, hi, h, nonce),
           hi - lo + Len(h) <= MAX_DATAGRAM
    PROVE  Well(m, len)
  <1> DEFINE n == hi - lo + Len(h)
             c == m.cells
  <1>0. /\ Len(h) \in {2, 4} /\ h[1].v = nonce
        /\ h[2].kind = (IF Len(h) = 2 THEN "DATA" ELSE "RELAY")
        /\ \A i \in 1 .. Len(h) : IsCell(h[i])
    BY DEF IsHeader
  <1>1. n \in Nat /\ Len(h) + len <= n /\ Len(h) \in Nat /\ 2 <= Len(h)
    BY <1>0
  <1>2. /\ Size(c) = n /\ HoldsCells(c, n)
        /\ \A i \in 1 .. Len(h) : UdpDecode(c, 0, Size(c))[i - 1] = h[i]
        /\ Carries(UdpDecode(c, 0, Size(c)), Len(h), len, P)
    BY <1>0, <1>1, EncodedCopy DEF EncodedFrom, AllCells
  <1> HIDE DEF c
  <1>3. Plain(m) = UdpDecode(c, 0, Size(c))
    BY DEF Plain, c
  <1>4. Plain(m)[1] = h[2] /\ (Len(h) = 4 => Plain(m)[2] = h[3])
    <2>1. 2 \in 1 .. Len(h) /\ (Len(h) = 4 => 3 \in 1 .. Len(h))
      <3> DEFINE k == Len(h)
      <3>1. k \in Nat /\ 2 <= k
        BY <1>1
      <3> HIDE DEF k
      <3>2. 2 \in 1 .. k /\ (k = 4 => 3 \in 1 .. k)
        BY <3>1
      <3>3. QED
        BY <3>2 DEF k
    <2>2. Plain(m)[2 - 1] = h[2]
      BY <1>2, <1>3, <2>1
    <2>3. Len(h) = 4 => Plain(m)[3 - 1] = h[3]
      BY <1>2, <1>3, <2>1
    <2>4. QED
      BY <2>2, <2>3
  <1>5. Start(m) = Len(h)
    BY <1>0, <1>4, LengthsOfHeaders DEF Start
  <1>6. m.to = Server => RelayTo(m) \in Node
    BY <1>3, <1>4, LengthsOfHeaders DEF RelayTo, c
  <1>7. Fits(m)
    BY <1>0, <1>2, <1>4 DEF Fits, c
  <1>8. HasPacket(m, len)
    BY <1>2, <1>3, <1>5 DEF HasPacket
  <1>9. QED
    BY <1>1, <1>2, <1>5, <1>6, <1>7, <1>8 DEF Well, c

(* What was cut out of a buffer, as a buffer of its own. *)
LEMMA CutLength ==
    ASSUME NEW b, NEW at \in Nat, NEW hi \in Nat, at <= hi
    PROVE  Len(Cut(b, at, hi)) = hi - at
  <1> DEFINE seq == Cut(b, at, hi)
             S == {b[at + i - 1] : i \in 1 .. hi - at}
  <1>1. hi - at \in Nat
    OBVIOUS
  <1>2. seq \in [1 .. hi - at -> S]
    BY DEF Cut
  <1> HIDE DEF seq, S
  <1>3. seq \in Seq(S)
    BY <1>1, <1>2, SeqDef
  <1>4. Len(seq) = hi - at
    BY <1>1, <1>2, <1>3, LenProperties
  <1>5. QED
    BY <1>4 DEF seq

LEMMA CutIsCopy ==
    ASSUME NEW b, NEW at \in Nat, NEW hi \in Nat, at <= hi
    PROVE  Copies(AsBuffer(Cut(b, at, hi)), b, at, hi - at)
  <1> DEFINE seq == Cut(b, at, hi)
  <1>1. DOMAIN seq = 1 .. hi - at /\ \A i \in 1 .. hi - at : seq[i] = b[at + i - 1]
    BY DEF Cut
  <1>2. Len(seq) = hi - at
    BY CutLength
  <1> HIDE DEF seq
  <1>3. DOMAIN AsBuffer(seq) = 0 .. hi - at - 1
    BY <1>2 DEF AsBuffer
  <1>4. ASSUME NEW i \in 0 .. hi - at - 1 PROVE AsBuffer(seq)[i] = b[at + i]
    <2>1. AsBuffer(seq)[i] = seq[i + 1] /\ i + 1 \in 1 .. hi - at
      BY <1>2 DEF AsBuffer
    <2>2. seq[i + 1] = b[at + (i + 1) - 1] /\ at + (i + 1) - 1 = at + i
      BY <1>1, <2>1
    <2>3. QED
      BY <2>1, <2>2
  <1>5. QED
    BY <1>3, <1>4 DEF Copies, seq

LEMMA FrameCells ==
    ASSUME NEW S, \A c \in S : IsCell(c), NEW seq \in Seq(S), NEW d, NEW nonce
    PROVE  LET frame == AsBuffer(TcpRelayFrame(seq, d, nonce))
           IN  /\ HoldsCells(frame, Len(seq) + 5)
               /\ frame[3].v = d
               /\ \A i \in 1 .. Len(seq) : frame[i + 4] = seq[i]
  <1> DEFINE frame == TcpRelayFrame(seq, d, nonce)
             buffer == AsBuffer(frame)
             L == Len(seq)
  <1>1. /\ frame[1] = Cell("nonce", nonce) /\ frame[2] = Cell("RELAY", 0)
        /\ frame[3] = Cell("len", L + 2)
        /\ frame[4] = Cell("addr", d) /\ frame[5] = Cell("addr", d)
        /\ Len(frame) = L + 5 /\ L \in Nat
        /\ \A i \in 1 .. L : frame[i + 5] = seq[i]
    BY DEF TcpRelayFrame, AddrCells
  <1> HIDE DEF frame
  <1>2. \A i \in 1 .. L : IsCell(frame[i + 5])
    BY <1>1
  <1>3. ASSUME NEW i \in 1 .. L + 5 PROVE IsCell(frame[i])
    <2>1. CASE i \in 1 .. 5
      <3>1. i = 1 \/ i = 2 \/ i = 3 \/ i = 4 \/ i = 5
        BY <2>1
      <3>2. QED
        BY <1>1, <3>1, CellsAreCells
    <2>2. CASE i > 5
      <3>1. i - 5 \in 1 .. L /\ (i - 5) + 5 = i
        BY <1>1, <2>2
      <3>2. QED
        BY <1>2, <3>1
    <2>3. QED
      BY <1>1, <2>1, <2>2
  <1>4. /\ DOMAIN buffer = 0 .. (L + 5) - 1
        /\ \A i \in 0 .. (L + 5) - 1 : buffer[i] = frame[i + 1]
    BY <1>1 DEF AsBuffer
  <1> HIDE DEF buffer, L
  <1>5. HoldsCells(buffer, L + 5)
    <2>1. \A i \in 0 .. (L + 5) - 1 : i + 1 \in 1 .. L + 5
      BY <1>1
    <2>2. QED
      BY <1>3, <1>4, <2>1 DEF HoldsCells
  <1>6. buffer[3].v = d
    <2>1. 3 \in 0 .. (L + 5) - 1 /\ 3 + 1 = 4
      BY <1>1
    <2>2. QED
      BY <1>1, <1>4, <2>1, CellsAreCells
  <1>7. ASSUME NEW i \in 1 .. L PROVE buffer[i + 4] = seq[i]
    <2>1. i + 4 \in 0 .. (L + 5) - 1 /\ (i + 4) + 1 = i + 5
      BY <1>1
    <2>2. QED
      BY <1>1, <1>4, <2>1
  <1>8. QED
    BY <1>5, <1>6, <1>7 DEF buffer, frame, L

(* Cells that start with the packet, and that fit into a frame. *)
Payload(seq, len, first) ==
    \E S : \E P \in SUBSET Shifts :
        /\ \A c \in S : IsCell(c)
        /\ seq \in Seq(S) /\ len <= Len(seq) /\ Len(seq) + 5 <= SIZE + 1
        /\ \A i \in 1 .. len : seq[i] = PacketCell(i, P)
        /\ first => P = {}

LEMMA FrameIsWell ==
    ASSUME NEW m, NEW seq, NEW len \in Nat, Payload(seq, len, m.first), NEW d, NEW nonce,
           m.by = "TCP", m.to \in Node \cup {Server}, m.to = Server => d \in Node,
           m.cells = TcpRelayEncode(seq, d, nonce)
    PROVE  Well(m, len)
  <1>a. PICK S : \E P \in SUBSET Shifts :
        /\ \A c \in S : IsCell(c)
        /\ seq \in Seq(S) /\ len <= Len(seq) /\ Len(seq) + 5 <= SIZE + 1
        /\ \A i \in 1 .. len : seq[i] = PacketCell(i, P)
        /\ m.first => P = {}
    BY DEF Payload
  <1>b. PICK P \in SUBSET Shifts :
        /\ \A c \in S : IsCell(c)
        /\ seq \in Seq(S) /\ len <= Len(seq) /\ Len(seq) + 5 <= SIZE + 1
        /\ \A i \in 1 .. len : seq[i] = PacketCell(i, P)
        /\ m.first => P = {}
    BY <1>a
  <1> DEFINE frame == AsBuffer(TcpRelayFrame(seq, d, nonce))
             n == Len(seq) + 5
  <1>1. n \in Nat /\ Len(seq) \in Nat
    BY <1>b
  <1>2. /\ HoldsCells(frame, n) /\ frame[3].v = d
        /\ \A i \in 1 .. Len(seq) : frame[i + 4] = seq[i]
    BY <1>b, FrameCells
  <1>3. Plain(m) = frame /\ ReadMsg(m.cells) = frame
    BY <1>b, FrameIsRead DEF Plain
  <1> HIDE DEF frame
  <1>4. HoldsCells(m.cells, n)
    BY <1>1, <1>2, EncryptHoldsCells DEF TcpRelayEncode, frame
  <1>5. Size(m.cells) = n
    BY <1>1, <1>4, SizeOfBuffer DEF HoldsCells
  <1>6. Start(m) = 5
    BY LengthsOfHeaders DEF Start
  <1>7. RelayTo(m) = d
    BY <1>2, <1>3, LengthsOfHeaders DEF RelayTo
  <1>8. Carries(Plain(m), Start(m), len, P)
    <2>1. ASSUME NEW i \in 1 .. len PROVE frame[5 + i - 1] = PacketCell(i, P)
      <3>1. 5 + i - 1 = i + 4 /\ i \in 1 .. Len(seq)
        BY <1>1, <1>b
      <3>2. QED
        BY <1>2, <1>b, <3>1
    <2>2. QED
      BY <1>3, <1>6, <2>1 DEF Carries
  <1>9. Start(m) + len <= Size(m.cells)
    BY <1>1, <1>5, <1>6, <1>b
  <1>10. Fits(m)
    BY <1>5, <1>b DEF Fits
  <1>11. HasPacket(m, len)
    BY <1>8, <1>b DEF HasPacket
  <1>12. QED
    BY <1>1, <1>4, <1>5, <1>7, <1>9, <1>10, <1>11 DEF Well

CellsOf(b, size) == {b[i] : i \in 0 .. size - 1}

(* A part of a buffer, as TcpRelayEncode takes it. *)
LEMMA CutCells ==
    ASSUME NEW b, NEW size \in Nat, HoldsCells(b, size),
           NEW at \in Nat, NEW hi \in Nat, at <= hi, hi <= size
    PROVE  /\ \A c \in CellsOf(b, size) : IsCell(c)
           /\ Cut(b, at, hi) \in Seq(CellsOf(b, size)) /\ Len(Cut(b, at, hi)) = hi - at
           /\ \A i \in 1 .. hi - at : Cut(b, at, hi)[i] = b[at + i - 1]
           /\ \A i \in 1 .. hi - at : IsCell(Cut(b, at, hi)[i])
  <1> DEFINE S == CellsOf(b, size)
             seq == Cut(b, at, hi)
  <1>1. \A c \in S : IsCell(c)
    BY DEF HoldsCells, CellsOf
  <1>2. \A i \in 1 .. hi - at : at + i - 1 \in 0 .. size - 1
    OBVIOUS
  <1>3. hi - at \in Nat
    OBVIOUS
  <1>4. \A i \in 1 .. hi - at : seq[i] = b[at + i - 1]
    BY DEF Cut
  <1>5. seq \in [1 .. hi - at -> S]
    BY <1>2 DEF Cut, CellsOf
  <1> HIDE DEF seq, S
  <1>6. seq \in Seq(S) /\ Len(seq) = hi - at
    BY <1>3, <1>5, SeqDef, LenProperties
  <1>7. \A i \in 1 .. hi - at : IsCell(seq[i])
    BY <1>1, <1>5
  <1>8. QED
    BY <1>1, <1>4, <1>6, <1>7 DEF seq, S

LEMMA CarriesCut ==
    ASSUME NEW b, NEW at \in Nat, NEW hi \in Nat, NEW len \in Nat, at + len <= hi,
           NEW P, Carries(b, at, len, P)
    PROVE  \A i \in 1 .. len : Cut(b, at, hi)[i] = PacketCell(i, P)
  <1>1. ASSUME NEW i \in 1 .. len PROVE Cut(b, at, hi)[i] = PacketCell(i, P)
    <2>1. i \in 1 .. hi - at
      OBVIOUS
    <2>2. Cut(b, at, hi)[i] = b[at + i - 1]
      BY <2>1 DEF Cut
    <2>3. QED
      BY <2>2 DEF Carries
  <1>2. QED
    BY <1>1

LEMMA EncodesInFront ==
    ASSUME NEW b, NEW lo \in Nat, NEW hi, NEW d, NEW nonce
    PROVE  /\ DataEncode(b, lo, hi, nonce) = InFront(b, lo, hi, DataHeader(nonce), nonce)
           /\ UdpRelayEncode(b, lo, hi, d, nonce)
                = InFront(b, lo, hi, UdpRelayHeader(d, nonce), nonce)
  <1>1. Len(DataHeader(nonce)) = 2 /\ Len(UdpRelayHeader(d, nonce)) = 4
    BY Headers
  <1>2. lo - ADDR_LEN - UDP_MSG_HEADER_LEN = lo - 4 /\ lo - UDP_MSG_HEADER_LEN = lo - 2
    BY LengthsOfHeaders
  <1>3. QED
    BY <1>1, <1>2 DEF DataEncode, UdpRelayEncode, InFront

LEMMA PlainHoldsCells ==
    ASSUME NEW m, NEW len, Well(m, len)
    PROVE  HoldsCells(Plain(m), Size(m.cells))
  <1> DEFINE size == Size(m.cells)
  <1>1. size \in Nat /\ HoldsCells(m.cells, size)
    BY DEF Well
  <1> HIDE DEF size
  <1>2. HoldsCells(UdpDecode(m.cells, 0, size), size)
    BY <1>1, EncryptHoldsCells DEF UdpDecode
  <1>3. HoldsCells(ReadMsg(m.cells), size)
    BY <1>1, EncryptHoldsCells DEF ReadMsg
  <1>4. QED
    BY <1>2, <1>3 DEF Plain, size

----------------------------------------------------------------------------
(* What the server relays is what it has received, without the header. *)
LEMMA RelayedDataIsCut ==
    ASSUME NEW m, NEW len, Well(m, len), m.to = Server
    PROVE  RelayedData(m) = Cut(Plain(m), Start(m), Size(m.cells))
  <1>1. CASE m.by = "UDP"
    <2>1. Start(m) = 4 /\ UDP_MSG_HEADER_LEN + ADDR_LEN = 4
      BY <1>1, LengthsOfHeaders DEF Well, Fits, Start
    <2>2. QED
      BY <1>1, <2>1 DEF RelayedData, Plain
  <1>2. CASE m.by = "TCP"
    <2>1. Start(m) = TCP_MSG_HEADER_LEN + ADDR_LEN
      BY <1>2 DEF Start
    <2>2. QED
      BY <1>2, <2>1 DEF RelayedData, Plain
  <1>3. QED
    BY <1>1, <1>2 DEF Well, Fits

LEMMA RelayedDataCells ==
    ASSUME NEW m, NEW len \in Nat, Well(m, len), m.to = Server
    PROVE  Payload(RelayedData(m), len, m.first)
  <1> DEFINE size == Size(m.cells)
             start == Start(m)
             plain == Plain(m)
             S == CellsOf(plain, size)
  <1>1. size \in Nat /\ HoldsCells(plain, size) /\ start + len <= size
    BY PlainHoldsCells DEF Well
  <1>2. /\ start = 4 \/ start = 5
        /\ start = 4 => size <= MAX_DATAGRAM
        /\ size <= SIZE + 1
    BY <1>1, LengthsOfHeaders DEF Well, Fits, Start
  <1>3. PICK P \in SUBSET Shifts : Carries(plain, start, len, P) /\ (m.first => P = {})
    BY DEF Well, HasPacket
  <1>4. RelayedData(m) = Cut(plain, start, size)
    BY RelayedDataIsCut
  <1> HIDE DEF size, start, plain
  <1>9. start \in Nat /\ start <= size /\ size <= size
    BY <1>1, <1>2
  <1>5. /\ \A c \in S : IsCell(c)
        /\ Cut(plain, start, size) \in Seq(S) /\ Len(Cut(plain, start, size)) = size - start
    BY <1>1, <1>9, CutCells
  <1>6. \A i \in 1 .. len : Cut(plain, start, size)[i] = PacketCell(i, P)
    BY <1>1, <1>3, <1>9, CarriesCut
  <1>7. len <= size - start /\ (size - start) + 5 <= SIZE + 1
    BY <1>1, <1>2, LengthsOfHeaders
  <1> HIDE DEF S
  <1>8. QED
    BY <1>3, <1>4, <1>5, <1>6, <1>7 DEF Payload, size, start

LEMMA RelayedIsWell ==
    ASSUME NEW m, NEW len \in Nat, Well(m, len), m.to = Server,
           NEW by \in {"TCP", "UDP"}, NEW d \in Node, NEW k \in Nonce,
           by = "UDP" => Size(Relayed(m, by, d, k).cells) <= MAX_DATAGRAM
    PROVE  Well(Relayed(m, by, d, k), len)
  <1> DEFINE data == RelayedData(m)
             r == Relayed(m, by, d, k)
             L == Len(data)
             room == AsBuffer([i \in 1 .. 4 |-> Stale] \o data)
             h == UdpRelayHeader(d, k)
  <1>1. Payload(data, len, m.first)
    BY RelayedDataCells
  <1>a. PICK S : \E P \in SUBSET Shifts :
            /\ \A c \in S : IsCell(c)
            /\ data \in Seq(S) /\ len <= L /\ L + 5 <= SIZE + 1
            /\ \A i \in 1 .. len : data[i] = PacketCell(i, P)
            /\ m.first => P = {}
    BY <1>1 DEF Payload
  <1>0. PICK P \in SUBSET Shifts :
            /\ \A c \in S : IsCell(c)
            /\ data \in Seq(S) /\ len <= L /\ L + 5 <= SIZE + 1
            /\ \A i \in 1 .. len : data[i] = PacketCell(i, P)
            /\ m.first => P = {}
    BY <1>a
  <1>2. L \in Nat
    BY <1>0
  <1>3. /\ r.to = d /\ r.by = by /\ r.first = m.first
        /\ r.cells = IF by = "TCP" THEN TcpRelayEncode(data, d, k)
                     ELSE UdpRelayEncode(room, 4, 4 + L, d, k)
    BY LengthsOfHeaders DEF Relayed
  <1>4. d # Server
    BY TransportAssumption
  <1> HIDE DEF r, data
  <1>5. CASE by = "TCP"
    <2>1. r.cells = TcpRelayEncode(data, d, k)
      BY <1>3, <1>5
    <2>2. r.to = Server => d \in Node
      OBVIOUS
    <2>3. Well(r, len)
      BY <1>1, <1>3, <1>5, <2>1, <2>2, FrameIsWell
    <2>4. QED
      BY <2>3 DEF r
  <1>6. CASE by = "UDP"
    <2> DEFINE seq == [i \in 1 .. 4 |-> Stale] \o data
    <2>1. /\ Len(seq) = 4 + L
          /\ \A i \in 1 .. 4 : seq[i] = Stale
          /\ \A i \in 1 .. L : seq[4 + i] = data[i]
      <3>1. [i \in 1 .. 4 |-> Stale] \in Seq({Stale}) /\ Len([i \in 1 .. 4 |-> Stale]) = 4
        <4>1. [i \in 1 .. 4 |-> Stale] \in [1 .. 4 -> {Stale}] /\ 4 \in Nat
          OBVIOUS
        <4>2. QED
          BY <4>1, SeqDef, LenProperties
      <3>2. QED
        BY <1>0, <3>1
    <2>2. /\ DOMAIN room = 0 .. (4 + L) - 1
          /\ \A i \in 0 .. (4 + L) - 1 : room[i] = seq[i + 1]
      BY <1>2, <2>1 DEF AsBuffer
    <2> HIDE DEF seq, room, L
    <2>3. HoldsCells(room, 4 + L)
      <3>1. ASSUME NEW i \in 0 .. (4 + L) - 1 PROVE IsCell(room[i])
        <4>1. CASE i < 4
          <5>1. i + 1 \in 1 .. 4
            BY <1>2, <4>1
          <5>2. QED
            BY <2>1, <2>2, <5>1, CellsAreCells DEF Stale
        <4>2. CASE i >= 4
          <5>1. i - 3 \in 1 .. L /\ 4 + (i - 3) = i + 1
            BY <1>2, <4>2
          <5>2. room[i] = data[i - 3]
            BY <2>1, <2>2, <5>1
          <5>3. QED
            BY <1>0, <5>1, <5>2 DEF L
        <4>3. QED
          BY <1>2, <4>1, <4>2
      <3>2. QED
        BY <2>2, <3>1 DEF HoldsCells
    <2>4. Carries(room, 4, len, P)
      <3>1. ASSUME NEW i \in 1 .. len PROVE room[4 + i - 1] = PacketCell(i, P)
        <4>1. 4 + i - 1 \in 0 .. (4 + L) - 1 /\ (4 + i - 1) + 1 = 4 + i /\ i \in 1 .. L
          BY <1>0, <1>2 DEF L
        <4>2. QED
          BY <1>0, <2>1, <2>2, <4>1
      <3>2. QED
        BY <3>1 DEF Carries
    <2>5. /\ Len(h) = 4 /\ h[1].v = k /\ h[2].kind = "RELAY" /\ h[3].v = d
          /\ \A i \in 1 .. Len(h) : IsCell(h[i])
      BY Headers
    <2>6. r.cells = InFront(room, 4, 4 + L, h, k)
      BY <1>3, <1>6, EncodesInFront
    <2> HIDE DEF h
    <2>7. HoldsCells(InFront(room, 4, 4 + L, h, k), 4 + L)
      <3>1. 4 + L \in Nat /\ 4 \in Nat /\ 4 + len <= 4 + L /\ 4 + L <= 4 + L
        BY <1>0, <1>2 DEF L
      <3>2. Len(h) \in Nat /\ 2 <= Len(h) /\ Len(h) <= 4
        BY <2>5
      <3>3. QED
        BY <2>3, <2>4, <2>5, <3>1, <3>2, EncodedBuffer DEF AllCells
    <2>8. DOMAIN r.cells = 0 .. (4 + L) - 1
      BY <2>6, <2>7 DEF HoldsCells
    <2>9. Copies(r.cells, InFront(room, 4, 4 + L, h, k), 4 - Len(h), (4 + L) - 4 + Len(h))
      <3>1. 4 - Len(h) = 0 /\ (4 + L) - 4 + Len(h) = 4 + L
        BY <1>2, <2>5
      <3>2. \A i \in 0 .. (4 + L) - 1 : 0 + i = i
        BY <1>2
      <3>3. QED
        BY <2>6, <2>8, <3>1, <3>2 DEF Copies
    <2>10. (4 + L) - 4 + Len(h) <= MAX_DATAGRAM
      <3>1. Size(r.cells) = 4 + L
        BY <1>2, <2>8, SizeOfBuffer
      <3>2. QED
        BY <1>2, <1>6, <2>5, <3>1 DEF r
    <2>11. Well(r, len)
      <3>1. 4 + L \in Nat /\ 4 \in Nat /\ 4 + len <= 4 + L /\ 4 + L <= 4 + L
        BY <1>0, <1>2 DEF L
      <3>2. r.to = Server => Len(h) = 4 /\ h[3].v \in Node
        BY <2>5
      <3>3. r.by = "UDP" /\ r.to \in Node \cup {Server} /\ (r.first => P = {})
        BY <1>0, <1>3, <1>6
      <3>4. IsHeader(h, k) /\ Len(h) <= 4
        BY <2>5 DEF IsHeader
      <3> DEFINE lo == 4
                 hi == 4 + L
      <3>5. /\ HoldsCells(room, hi) /\ Carries(room, lo, len, P)
            /\ lo \in Nat /\ hi \in Nat /\ lo + len <= hi /\ hi <= hi /\ Len(h) <= lo
            /\ EncodedFrom(r.cells, room, lo, hi, h, k)
            /\ hi - lo + Len(h) <= MAX_DATAGRAM
        BY <2>3, <2>4, <2>9, <2>10, <3>1, <3>4 DEF EncodedFrom
      <3> HIDE DEF lo, hi
      <3>6. QED
        BY <1>0, <3>2, <3>3, <3>4, <3>5, EncodedIsWell
    <2>12. QED
      BY <2>11 DEF r
  <1>7. QED
    BY <1>5, <1>6

----------------------------------------------------------------------------
(* What a node receives lies in its buffer as it was written. *)
LEMMA DecodesWhereItLies ==
    ASSUME NEW r, NEW c, NEW pos \in Nat, NEW n \in Nat \ {0}, SameCells(r, pos, c, 0, n)
    PROVE  SameCells(UdpDecode(r, pos, n), pos, UdpDecode(c, 0, n), 0, n)
  <1> DEFINE nonce == c[0].v
  <1>1. /\ pos .. pos + n - 1 \subseteq DOMAIN r /\ 0 .. 0 + n - 1 \subseteq DOMAIN c
        /\ \A i \in 0 .. n - 1 : r[pos + i] = c[0 + i]
    BY DEF SameCells
  <1>2. r[pos].v = nonce
    <2>1. 0 \in 0 .. n - 1 /\ pos + 0 = pos /\ 0 + 0 = 0
      OBVIOUS
    <2>2. QED
      BY <1>1, <2>1
  <1> HIDE DEF nonce
  <1>3. ASSUME NEW i \in 0 .. n - 1
        PROVE  UdpDecode(r, pos, n)[pos + i] = UdpDecode(c, 0, n)[0 + i]
    <2> DEFINE pad == <<nonce, (i - 1) % KEY_LEN>>
    <2>1. /\ pos + i \in pos .. pos + n - 1 /\ 0 + i \in 0 .. 0 + n - 1
          /\ pos + i \in pos + 1 .. (pos + n) - 1 <=> i >= 1
          /\ 0 + i \in 0 + 1 .. (0 + n) - 1 <=> i >= 1
          /\ (0 + (pos + i)) - (pos + 1) = i - 1 /\ (0 + (0 + i)) - (0 + 1) = i - 1
      OBVIOUS
    <2>2. UdpDecode(r, pos, n)[pos + i] = IF Keyed /\ i >= 1 THEN Xor(r[pos + i], pad) ELSE r[pos + i]
      <3>1. pos + i \in DOMAIN r
        BY <1>1, <2>1
      <3>2. UdpDecode(r, pos, n)[pos + i]
              = IF Keyed /\ pos + i \in pos + 1 .. (pos + n) - 1
                THEN Xor(r[pos + i], <<nonce, ((0 + (pos + i)) - (pos + 1)) % KEY_LEN>>)
                ELSE r[pos + i]
        BY <1>2, <3>1 DEF UdpDecode, Encrypt
      <3>3. QED
        BY <2>1, <3>2
    <2>3. UdpDecode(c, 0, n)[0 + i] = IF Keyed /\ i >= 1 THEN Xor(c[0 + i], pad) ELSE c[0 + i]
      <3>1. 0 + i \in DOMAIN c
        BY <1>1, <2>1
      <3>2. UdpDecode(c, 0, n)[0 + i]
              = IF Keyed /\ 0 + i \in 0 + 1 .. (0 + n) - 1
                THEN Xor(c[0 + i], <<nonce, ((0 + (0 + i)) - (0 + 1)) % KEY_LEN>>)
                ELSE c[0 + i]
        BY <3>1 DEF UdpDecode, Encrypt, nonce
      <3>3. QED
        BY <2>1, <3>2
    <2>4. r[pos + i] = c[0 + i]
      BY <1>1
    <2> HIDE DEF pad
    <2>5. QED
      BY <2>2, <2>3, <2>4
  <1>4. DOMAIN UdpDecode(r, pos, n) = DOMAIN r /\ DOMAIN UdpDecode(c, 0, n) = DOMAIN c
    BY DEF UdpDecode, Encrypt
  <1>5. QED
    BY <1>1, <1>3, <1>4 DEF SameCells

(* The packet of m, of at least len cells, lies in the buffer b. *)
Lies(b, lo, hi, len, first) ==
    /\ HoldsCells(b, SIZE)
    /\ lo \in 4 .. SIZE /\ hi \in 0 .. SIZE /\ lo + len <= hi
    /\ \E P \in SUBSET Shifts : Carries(b, lo, len, P) /\ (first => P = {})

LEMMA CutPayload ==
    ASSUME NEW b, NEW lo, NEW hi, NEW len \in Nat, NEW first, Lies(b, lo, hi, len, first)
    PROVE  Payload(Cut(b, lo, hi), len, first)
  <1>1. /\ HoldsCells(b, SIZE) /\ SIZE \in Nat
        /\ lo \in Nat /\ 4 <= lo /\ hi \in Nat /\ lo <= hi /\ hi <= SIZE /\ lo + len <= hi
    BY LengthsOfHeaders DEF Lies
  <1>2. PICK P \in SUBSET Shifts : Carries(b, lo, len, P) /\ (first => P = {})
    BY DEF Lies
  <1> DEFINE S == CellsOf(b, SIZE)
             seq == Cut(b, lo, hi)
  <1>3. (\A c \in S : IsCell(c)) /\ seq \in Seq(S) /\ Len(seq) = hi - lo
    BY <1>1, CutCells
  <1>4. ASSUME NEW i \in 1 .. len PROVE seq[i] = PacketCell(i, P)
    <2>1. i \in 1 .. hi - lo
      BY <1>1
    <2>2. seq[i] = b[lo + i - 1]
      BY <2>1 DEF Cut
    <2>3. QED
      BY <1>2, <2>2 DEF Carries
  <1>5. len <= hi - lo /\ (hi - lo) + 5 <= SIZE + 1
    BY <1>1
  <1> HIDE DEF S, seq
  <1>6. QED
    BY <1>2, <1>3, <1>4, <1>5 DEF Payload, seq

LEMMA ReceivedDatagramLies ==
    ASSUME NEW n \in Node, HoldsCells(buff[n], SIZE),
           NEW m, NEW len \in Nat \ {0}, Well(m, len), m.by = "UDP"
    PROVE  LET b == Decoded(n, m)
           IN  Lies(b.cells, b.range.lo, b.range.hi, len, m.first)
  <1> DEFINE size == Size(m.cells)
             seq == Cut(m.cells, 0, size)
             r == Written(buff[n], 2, seq)
             b == UdpDecode(r, 2, size)
             plain == UdpDecode(m.cells, 0, size)
  <1>1. /\ size \in Nat /\ HoldsCells(m.cells, size)
        /\ Start(m) + len <= size /\ size <= MAX_DATAGRAM
        /\ plain[1].kind \in {"DATA", "RELAY"}
    BY DEF Well, Fits, Plain
  <1>2. Plain(m) = plain
    BY DEF Plain
  <1>3. Start(m) = 2 + (IF plain[1].kind = "RELAY" THEN 2 ELSE 0)
    BY <1>2, LengthsOfHeaders DEF Start
  <1>4. PICK P \in SUBSET Shifts : Carries(plain, Start(m), len, P) /\ (m.first => P = {})
    BY <1>2 DEF Well, HasPacket
  <1> HIDE DEF size
  <1>5. /\ Len(seq) = size
        /\ \A i \in 1 .. size : seq[i] = m.cells[i - 1]
        /\ \A i \in 1 .. size : IsCell(seq[i])
    <2>1. 0 \in Nat /\ 0 <= size /\ size - 0 = size /\ \A i \in 1 .. size : 0 + i - 1 = i - 1
      BY <1>1
    <2>2. Len(seq) = size - 0
      BY <1>1, <2>1, CutLength
    <2>3. \A i \in 1 .. size : seq[i] = m.cells[i - 1]
      BY <2>1 DEF Cut
    <2> HIDE DEF seq
    <2>4. \A i \in 1 .. size : i - 1 \in 0 .. size - 1
      BY <1>1
    <2>5. QED
      BY <1>1, <2>1, <2>2, <2>3, <2>4 DEF HoldsCells
  <1>6. SIZE \in Nat /\ size + 6 <= SIZE
    BY <1>1, LengthsOfHeaders
  <1> HIDE DEF seq
  <1>7. HoldsCells(r, SIZE)
    BY <1>1, <1>5, <1>6, WrittenHoldsCells DEF AllCells
  <1>8. ASSUME NEW i \in 0 .. size - 1 PROVE r[2 + i] = m.cells[i]
    <2>1. 2 + i \in DOMAIN buff[n]
      BY <1>1, <1>6 DEF HoldsCells
    <2>2. r[2 + i] = IF 2 + i \in 2 .. 2 + size - 1 THEN seq[(2 + i) - 2 + 1] ELSE buff[n][2 + i]
      BY <1>5, <2>1 DEF Written
    <2>3. 2 + i \in 2 .. 2 + size - 1 /\ (2 + i) - 2 + 1 = i + 1
          /\ i + 1 \in 1 .. size /\ (i + 1) - 1 = i
      BY <1>1
    <2>4. QED
      BY <1>5, <2>2, <2>3
  <1> HIDE DEF r
  <1>9. HoldsCells(b, SIZE)
    BY <1>6, <1>7, EncryptHoldsCells DEF UdpDecode
  <1>10. \A i \in 0 .. size - 1 : b[2 + i] = plain[i]
    <2>1. 2 .. 2 + size - 1 \subseteq DOMAIN r /\ size \in Nat \ {0}
      BY <1>1, <1>3, <1>6, <1>7 DEF HoldsCells
    <2>2. 0 .. 0 + size - 1 \subseteq DOMAIN m.cells
      BY <1>1 DEF HoldsCells
    <2>3. SameCells(r, 2, m.cells, 0, size)
      BY <1>1, <1>8, <2>1, <2>2 DEF SameCells
    <2>4. SameCells(b, 2, plain, 0, size)
      BY <2>1, <2>3, DecodesWhereItLies
    <2> HIDE DEF b, plain
    <2>5. QED
      BY <1>1, <2>4 DEF SameCells
  <1> HIDE DEF b, plain
  <1>11. /\ UDP_START + UDP_MSG_HEADER_LEN = 4 /\ UDP_START = 2 /\ UDP_START + 1 = 2 + 1
         /\ ADDR_LEN = 2
    BY LengthsOfHeaders
  <1>12. b[UDP_START + 1].kind = plain[1].kind
    <2>1. 1 \in 0 .. size - 1
      BY <1>1, <1>3
    <2>2. QED
      BY <1>10, <1>11, <2>1
  <1>13. Decoded(n, m) = [cells |-> b, range |-> UdpRange(plain[1].kind, size)]
    BY <1>11, <1>12 DEF Decoded, b, r, seq, size
  <1>14. UdpRange(plain[1].kind, size) = [lo |-> Start(m) + 2, hi |-> Start(m) + 2 + size]
    BY <1>3, <1>11 DEF UdpRange
  <1>15. Carries(b, Start(m) + 2, len, P)
    <2>1. ASSUME NEW i \in 1 .. len PROVE b[(Start(m) + 2) + i - 1] = PacketCell(i, P)
      <3>1. /\ Start(m) + i - 1 \in 0 .. size - 1
            /\ (Start(m) + 2) + i - 1 = 2 + (Start(m) + i - 1)
        BY <1>1, <1>3
      <3>2. plain[Start(m) + i - 1] = PacketCell(i, P)
        BY <1>4 DEF Carries
      <3>3. QED
        BY <1>10, <3>1, <3>2
    <2>2. QED
      BY <2>1 DEF Carries
  <1>16. /\ Start(m) + 2 \in 4 .. SIZE /\ Start(m) + 2 + size \in 0 .. SIZE
         /\ (Start(m) + 2) + len <= Start(m) + 2 + size
    BY <1>1, <1>3, <1>6
  <1>17. QED
    BY <1>4, <1>9, <1>13, <1>14, <1>15, <1>16 DEF Lies

LEMMA ReceivedFrameLies ==
    ASSUME NEW n \in Node, HoldsCells(buff[n], SIZE),
           NEW m, NEW len \in Nat \ {0}, Well(m, len), m.by = "TCP"
    PROVE  LET b == Decoded(n, m)
           IN  Lies(b.cells, b.range.lo, b.range.hi, len, m.first)
  <1> DEFINE size == Size(m.cells)
             plain == ReadMsg(m.cells)
             body == Cut(plain, 3, size)
             b == Written(buff[n], 2, body)
  <1>1. /\ Plain(m) = plain /\ Start(m) = 5
        /\ HoldsCells(plain, size)
    BY PlainHoldsCells, LengthsOfHeaders DEF Plain, Start
  <1>2. size \in Nat /\ 5 + len <= size /\ size <= SIZE + 1
    BY <1>1 DEF Well, Fits
  <1>3. PICK P \in SUBSET Shifts : Carries(plain, 5, len, P) /\ (m.first => P = {})
    BY <1>1 DEF Well, HasPacket
  <1> HIDE DEF size, plain
  <1>4. /\ Len(body) = size - 3
        /\ \A i \in 1 .. size - 3 : body[i] = plain[3 + i - 1]
        /\ \A i \in 1 .. size - 3 : IsCell(body[i])
    <2>1. 3 \in Nat /\ 3 <= size /\ size <= size
      BY <1>2
    <2>2. Len(body) = size - 3
      BY <1>2, <2>1, CutLength
    <2>3. \A i \in 1 .. size - 3 : body[i] = plain[3 + i - 1]
      BY DEF Cut
    <2> HIDE DEF body
    <2>4. \A i \in 1 .. size - 3 : 3 + i - 1 \in 0 .. size - 1
      BY <1>2
    <2>5. QED
      BY <1>1, <2>2, <2>3, <2>4 DEF HoldsCells
  <1>5. SIZE \in Nat /\ size - 3 \in Nat
    BY <1>2, LengthsOfHeaders
  <1> HIDE DEF body
  <1>6. HoldsCells(b, SIZE)
    BY <1>4, <1>5, WrittenHoldsCells DEF AllCells
  <1>7. ASSUME NEW i \in 1 .. len PROVE b[4 + i - 1] = PacketCell(i, P)
    <2>1. /\ 4 + i - 1 \in 0 .. SIZE - 1 /\ 4 + i - 1 \in 2 .. 2 + (size - 3) - 1
          /\ (4 + i - 1) - 2 + 1 = i + 2 /\ i + 2 \in 1 .. size - 3
          /\ 3 + (i + 2) - 1 = 5 + i - 1
      BY <1>2, <1>5
    <2>2. b[4 + i - 1] = body[(4 + i - 1) - 2 + 1]
      BY <1>4, <2>1 DEF Written, HoldsCells
    <2>3. body[i + 2] = plain[3 + (i + 2) - 1]
      BY <1>4, <2>1
    <2>4. plain[5 + i - 1] = PacketCell(i, P)
      BY <1>3 DEF Carries
    <2>5. QED
      BY <2>1, <2>2, <2>3, <2>4
  <1> HIDE DEF b
  <1>8. Decoded(n, m) = [cells |-> b, range |-> TcpRange(Len(body))]
    BY LengthsOfHeaders DEF Decoded, b, body, plain, size
  <1>9. TcpRange(Len(body)) = [lo |-> 4, hi |-> 2 + (size - 3)]
    BY <1>4, LengthsOfHeaders DEF TcpRange
  <1>10. 4 \in 4 .. SIZE /\ 2 + (size - 3) \in 0 .. SIZE /\ 4 + len <= 2 + (size - 3)
    BY <1>2, <1>5
  <1>11. Carries(b, 4, len, P)
    BY <1>7 DEF Carries
  <1>12. QED
    BY <1>3, <1>6, <1>8, <1>9, <1>10, <1>11 DEF Lies

LEMMA ReceivedLies ==
    ASSUME NEW n \in Node, HoldsCells(buff[n], SIZE),
           NEW m, NEW len \in Nat \ {0}, Well(m, len)
    PROVE  LET b == Decoded(n, m)
           IN  Lies(b.cells, b.range.lo, b.range.hi, len, m.first)
  BY ReceivedDatagramLies, ReceivedFrameLies DEF Well, Fits

----------------------------------------------------------------------------
(* The invariant about the bytes: all that is under way is the one packet, *)
(* every message decrypts to it, and the buffer of a task holds it.        *)
StatusTyped ==
    /\ status \in [Node -> {"new", "rejected", "up", "panicked", "failed"}]
    /\ socket \in [Node -> BOOLEAN] /\ channel \in [Node -> BOOLEAN]
    /\ forwards \in 0 .. MaxForwards
    /\ packet # Nothing => packet \in [from : Node, to : Node \cup {Everyone}, len : Lengths]

OnlyOfPacket == packet = Nothing => net = {} /\ given = {} /\ \A n \in Node : Idle(n)

BuffersHoldCells == DOMAIN buff = Node /\ \A n \in Node : HoldsCells(buff[n], SIZE)

Ready(t, b, len) ==
    /\ t \in Task /\ (t.todo # <<>> => t.to \in Node)
    /\ Lies(b, t.lo, t.hi, len, ~t.used)

TasksHoldPacket == \A n \in Node : task[n] # Nothing => Ready(task[n], buff[n], packet.len)

NetHoldsPacket == \A m \in net : Well(m, packet.len)

GivenHoldsPacket ==
    \A g \in given : IsWhole(g.cells) /\ (g.first => StartsWithPacket(g.cells))

BytesInv ==
    /\ StatusTyped /\ OnlyOfPacket /\ BuffersHoldCells
    /\ TasksHoldPacket /\ NetHoldsPacket /\ GivenHoldsPacket

LEMMA PacketIsThere ==
    ASSUME BytesInv, (\E n \in Node : ~Idle(n)) \/ net # {}
    PROVE  packet # Nothing /\ packet.len \in Nat \ {0} /\ packet.to \in Node \cup {Everyone}
  BY LengthsOfHeaders DEF BytesInv, OnlyOfPacket, StatusTyped

LEMMA LiesStartsWithPacket ==
    ASSUME NEW b, NEW lo, NEW hi, packet.len \in Nat, Lies(b, lo, hi, packet.len, TRUE)
    PROVE  StartsWithPacket(Cut(b, lo, hi))
  <1> DEFINE len == packet.len
  <1>1. /\ lo \in Nat /\ hi \in Nat /\ lo + len <= hi /\ lo <= hi
        /\ len \in Nat /\ Carries(b, lo, len, {})
    BY DEF Lies
  <1> HIDE DEF len
  <1>2. Len(Cut(b, lo, hi)) = hi - lo
    BY <1>1, CutLength
  <1>3. ASSUME NEW i \in 1 .. len PROVE Cut(b, lo, hi)[i] = PacketCell(i, {})
    <2>1. i \in 1 .. hi - lo
      BY <1>1
    <2>2. Cut(b, lo, hi)[i] = b[lo + i - 1]
      BY <2>1 DEF Cut
    <2>3. QED
      BY <1>1, <2>2 DEF Carries
  <1>4. len <= hi - lo
    BY <1>1
  <1>5. QED
    BY <1>2, <1>3, <1>4, CellsAreCells DEF StartsWithPacket, len

(* A packet under key streams is under all of them in every cell. *)
LEMMA LiesIsWhole ==
    ASSUME NEW b, NEW lo, NEW hi, packet.len \in Nat, NEW first, Lies(b, lo, hi, packet.len, first)
    PROVE  IsWhole(Cut(b, lo, hi))
  <1> DEFINE len == packet.len
             seq == Cut(b, lo, hi)
  <1>1. PICK P \in SUBSET Shifts : Carries(b, lo, len, P)
    BY DEF Lies
  <1>2. lo \in Nat /\ hi \in Nat /\ lo + len <= hi /\ lo <= hi /\ len \in Nat
    BY DEF Lies
  <1> HIDE DEF len
  <1>3. Len(seq) = hi - lo
    BY <1>2, CutLength
  <1>4. ASSUME NEW i \in 1 .. len PROVE seq[i] = PacketCell(i, P)
    <2>1. i \in 1 .. hi - lo
      BY <1>2
    <2>2. seq[i] = b[lo + i - 1]
      BY <2>1 DEF Cut
    <2>3. QED
      BY <1>1, <2>2 DEF Carries
  <1>5. len <= hi - lo
    BY <1>2
  <1> HIDE DEF seq
  <1>6. ASSUME NEW i \in 1 .. len
        PROVE  seq[i].kind = "packet" /\ seq[i].v = i /\ seq[i].pads = Pads(i, P)
    <2>1. \A c : c = PacketCell(i, P) =>
                c.kind = "packet" /\ c.v = i /\ c.pads = Pads(i, P)
      BY DEF PacketCell
    <2>2. QED
      BY <1>4, <2>1
  <1>7. ASSUME NEW i PROVE Pads(i, P) = {} <=> P = {}
    <2>1. P = {} => Pads(i, P) = {}
      BY DEF Pads
    <2>2. ASSUME NEW q \in P PROVE <<q[1], (q[2] + i) % KEY_LEN>> \in Pads(i, P)
      BY DEF Pads
    <2>3. QED
      BY <2>1, <2>2
  <1>8. QED
    BY <1>3, <1>5, <1>6, <1>7 DEF IsWhole, len, seq

LEMMA TaskUpdate ==
    ASSUME BytesInv, NEW n \in Node, DOMAIN buff' = Node, packet' = packet,
           \A x \in Node \ {n} : buff'[x] = buff[x] /\ task'[x] = task[x],
           HoldsCells(buff'[n], SIZE),
           task'[n] # Nothing => Ready(task'[n], buff'[n], packet.len)
    PROVE  BuffersHoldCells' /\ TasksHoldPacket'
  <1>1. BuffersHoldCells'
    BY DEF BytesInv, BuffersHoldCells
  <1>2. ASSUME NEW x \in Node, task'[x] # Nothing
        PROVE  Ready(task'[x], buff'[x], packet'.len)
    <2>1. CASE x = n
      BY <1>2, <2>1
    <2>2. CASE x # n
      BY <1>2, <2>2 DEF BytesInv, TasksHoldPacket
    <2>3. QED
      BY <2>1, <2>2
  <1>3. QED
    BY <1>1, <1>2 DEF TasksHoldPacket

LEMMA NetUpdate ==
    ASSUME BytesInv, packet' = packet, NEW m, net' \subseteq net \cup {m},
           m \in net' => Well(m, packet.len)
    PROVE  NetHoldsPacket'
  <1>1. ASSUME NEW x \in net' PROVE Well(x, packet'.len)
    BY DEF BytesInv, NetHoldsPacket
  <1>2. QED
    BY <1>1 DEF NetHoldsPacket

(* What a task may still try is a part of what it had to try. *)
LEMMA ReadyGoesOn ==
    ASSUME NEW t, NEW b, NEW len, Ready(t, b, len), t.todo # <<>>
    PROVE  /\ Ready([t EXCEPT !.todo = Tail(@)], b, len)
           /\ Ready([t EXCEPT !.todo = <<>>], b, len)
           /\ \A c : /\ HoldsCells(c, SIZE)
                     /\ \E Q \in SUBSET Shifts : Carries(c, t.lo, len, Q)
                     => /\ Ready([t EXCEPT !.todo = Tail(@), !.used = TRUE], c, len)
                        /\ Ready([t EXCEPT !.todo = <<>>, !.used = TRUE], c, len)
  <1>1. t \in Task /\ t.to \in Node
    BY DEF Ready
  <1>2. Tail(t.todo) \in Seq({"direct", "through", "UDP", "TCP"})
        /\ <<>> \in Seq({"direct", "through", "UDP", "TCP"})
    BY <1>1 DEF Ready, Task
  <1>3. /\ [t EXCEPT !.todo = Tail(@)] \in Task
        /\ [t EXCEPT !.todo = <<>>] \in Task
        /\ [t EXCEPT !.todo = Tail(@), !.used = TRUE] \in Task
        /\ [t EXCEPT !.todo = <<>>, !.used = TRUE] \in Task
    BY <1>1, <1>2 DEF Task
  <1>4. /\ Lies(b, t.lo, t.hi, len, ~t.used)
        /\ \A c : /\ HoldsCells(c, SIZE)
                  /\ \E Q \in SUBSET Shifts : Carries(c, t.lo, len, Q)
                  => Lies(c, t.lo, t.hi, len, FALSE)
    BY DEF Ready, Lies
  <1>5. QED
    BY <1>1, <1>3, <1>4 DEF Ready, Task

LEMMA SkipHolds ==
    ASSUME BytesInv, DOMAIN task = Node, NEW n \in Node, NEW x, Tries(n, x), Skip(n),
           packet' = packet
    PROVE  BuffersHoldCells' /\ TasksHoldPacket' /\ NetHoldsPacket'
  <1> DEFINE t == [task[n] EXCEPT !.todo = Tail(@)]
  <1>1. Ready(task[n], buff[n], packet.len) /\ task[n].todo # <<>>
    BY DEF BytesInv, TasksHoldPacket, Tries, Idle
  <1>2. Ready(t, buff[n], packet.len)
    BY <1>1, ReadyGoesOn
  <1>3. task' = [task EXCEPT ![n] = Left(t)] /\ UNCHANGED <<buff, net>>
    BY DEF Skip
  <1> HIDE DEF t
  <1>4. /\ task'[n] # Nothing => task'[n] = t
        /\ \A y \in Node \ {n} : task'[y] = task[y]
    BY <1>3 DEF Left
  <1>5. BuffersHoldCells' /\ TasksHoldPacket'
    BY <1>2, <1>3, <1>4, TaskUpdate DEF BytesInv, BuffersHoldCells
  <1>6. NetHoldsPacket'
    BY <1>3 DEF BytesInv, NetHoldsPacket
  <1>7. QED
    BY <1>5, <1>6

(* A datagram with header h leaves, or the next transport is tried. *)
LEMMA TransmitHolds ==
    ASSUME BytesInv, DOMAIN task = Node, NEW n \in Node, NEW x, Tries(n, x), packet' = packet,
           NEW h, IsHeader(h, task[n].nonce),
           NEW to \in Node \cup {Server}, to = Server => Len(h) = 4 /\ h[3].v \in Node,
           NEW cells, cells = InFront(buff[n], task[n].lo, task[n].hi, h, task[n].nonce),
           NEW at, at = task[n].lo - Len(h), Transmit(n, cells, at, to)
    PROVE  BuffersHoldCells' /\ TasksHoldPacket' /\ NetHoldsPacket'
  <1> DEFINE t == task[n]
             len == packet.len
             tail == [t EXCEPT !.todo = Tail(@), !.used = TRUE]
             done == [t EXCEPT !.todo = <<>>, !.used = TRUE]
             datagram == [to |-> to, by |-> "UDP", first |-> ~t.used,
                          cells |-> AsBuffer(Cut(cells, at, t.hi))]
  <1>1. Ready(t, buff[n], len) /\ t.todo # <<>> /\ len \in Nat \ {0}
    BY PacketIsThere DEF BytesInv, TasksHoldPacket, Tries, Idle
  <1>2. /\ HoldsCells(buff[n], SIZE) /\ t.lo \in 4 .. SIZE /\ t.hi \in 0 .. SIZE
        /\ t.lo + len <= t.hi /\ SIZE \in Nat /\ t.nonce \in Nonce
    BY <1>1, LengthsOfHeaders DEF Ready, Lies, Task
  <1>3. PICK P \in SUBSET Shifts : Carries(buff[n], t.lo, len, P) /\ (~t.used => P = {})
    BY <1>1 DEF Ready, Lies
  <1>4. /\ AllCells(h) /\ Len(h) \in Nat /\ 2 <= Len(h) /\ Len(h) <= 4 /\ Len(h) <= t.lo
        /\ t.lo \in Nat /\ t.hi \in Nat /\ t.hi <= SIZE /\ len \in Nat
    <2>1. /\ t.lo \in Nat /\ t.hi \in Nat /\ t.hi <= SIZE /\ len \in Nat /\ 4 <= t.lo
      BY <1>1, <1>2
    <2>2. AllCells(h)
      BY DEF IsHeader, AllCells
    <2>3. Len(h) = 2 \/ Len(h) = 4
      BY DEF IsHeader
    <2>4. CASE Len(h) = 2
      BY <2>1, <2>2, <2>4
    <2>5. CASE Len(h) = 4
      BY <2>1, <2>2, <2>5
    <2>6. QED
      BY <2>3, <2>4, <2>5
  <1>5. /\ HoldsCells(cells, SIZE)
        /\ \E Q \in SUBSET Shifts : Carries(cells, t.lo, len, Q)
    <2> HIDE DEF t, len
    <2>1. QED
      BY <1>2, <1>3, <1>4, EncodedBuffer DEF t
  <1>6. Ready(tail, cells, len) /\ Ready(done, cells, len)
    BY <1>1, <1>5, ReadyGoesOn
  <1>7. t.hi - at <= MAX_DATAGRAM => Well(datagram, len)
    <2>1. at \in Nat /\ t.hi \in Nat /\ at <= t.hi /\ t.hi - at = t.hi - t.lo + Len(h)
          /\ t.lo \in Nat
      BY <1>1, <1>2, <1>4
    <2>2. Copies(AsBuffer(Cut(cells, at, t.hi)), cells, at, t.hi - at)
      BY <2>1, CutIsCopy
    <2>3. EncodedFrom(datagram.cells, buff[n], t.lo, t.hi, h, t.nonce)
      BY <2>1, <2>2 DEF EncodedFrom
    <2>4. /\ datagram.by = "UDP" /\ datagram.to \in Node \cup {Server}
          /\ datagram.first => P = {}
          /\ datagram.to = Server => Len(h) = 4 /\ h[3].v \in Node
      BY <1>3
    <2> HIDE DEF datagram, t, len
    <2>5. ASSUME t.hi - at <= MAX_DATAGRAM PROVE Well(datagram, len)
      <3>1. t.hi - t.lo + Len(h) <= MAX_DATAGRAM
        BY <2>1, <2>5
      <3>2. IsHeader(h, t.nonce)
        BY DEF t
      <3>3. t.hi <= SIZE
        BY <1>2
      <3>4. QED
        BY <1>1, <1>2, <1>3, <1>4, <2>1, <2>3, <2>4, <3>1, <3>2, <3>3, EncodedIsWell
    <2>6. QED
      BY <2>5
  <1>8. /\ buff' = [buff EXCEPT ![n] = cells]
        /\ \/ task' = [task EXCEPT ![n] = Left(done)]
           \/ task' = [task EXCEPT ![n] = Left(tail)]
           \/ task' = [task EXCEPT ![n] = Nothing]
        /\ \/ net' = net \cup {datagram} /\ t.hi - at <= MAX_DATAGRAM
           \/ net' = net
    BY DEF Transmit
  <1> HIDE DEF datagram, tail, done
  <1>9. /\ DOMAIN buff' = Node /\ buff'[n] = cells
        /\ \A y \in Node \ {n} : buff'[y] = buff[y] /\ task'[y] = task[y]
        /\ task'[n] # Nothing => task'[n] = done \/ task'[n] = tail
    BY <1>8 DEF Left, BytesInv, BuffersHoldCells
  <1>10. BuffersHoldCells' /\ TasksHoldPacket'
    BY <1>5, <1>6, <1>9, TaskUpdate
  <1>11. NetHoldsPacket'
    <2>1. net' \subseteq net \cup {datagram}
      BY <1>8
    <2>2. CASE t.hi - at <= MAX_DATAGRAM
      BY <1>7, <2>1, <2>2, NetUpdate
    <2>3. CASE net' = net
      BY <2>3 DEF BytesInv, NetHoldsPacket
    <2>4. QED
      BY <1>8, <2>2, <2>3
  <1>12. QED
    BY <1>10, <1>11

LEMMA SendDataHolds ==
    ASSUME BytesInv, DOMAIN task = Node, NEW n \in Node, NEW x, Tries(n, x), packet' = packet,
           NEW to \in Node, SendData(n, to)
    PROVE  BuffersHoldCells' /\ TasksHoldPacket' /\ NetHoldsPacket'
  <1> DEFINE t == task[n]
             h == DataHeader(t.nonce)
             at == t.lo - UDP_MSG_HEADER_LEN
             cells == DataEncode(buff[n], t.lo, t.hi, t.nonce)
  <1>1. t.lo \in Nat /\ at = t.lo - Len(h) /\ Len(h) = 2
    <2>1. Len(h) = 2 /\ UDP_MSG_HEADER_LEN = 2
      BY Headers, LengthsOfHeaders
    <2>2. t.lo \in 4 .. SIZE /\ SIZE \in Nat
      BY LengthsOfHeaders DEF BytesInv, TasksHoldPacket, Ready, Lies, Tries, Idle
    <2>3. QED
      BY <2>1, <2>2
  <1>2. cells = InFront(buff[n], t.lo, t.hi, h, t.nonce)
    BY <1>1, EncodesInFront
  <1>3. IsHeader(h, t.nonce)
    BY Headers DEF IsHeader
  <1>4. Transmit(n, cells, at, to)
    BY DEF SendData
  <1>5. to # Server
    BY TransportAssumption
  <1> HIDE DEF h, at, cells
  <1>6. QED
    BY <1>1, <1>2, <1>3, <1>4, <1>5, TransmitHolds

----------------------------------------------------------------------------
LEMMA InitBytes == Init => BytesInv
  <1> SUFFICES ASSUME Init PROVE BytesInv
    OBVIOUS
  <1>1. SIZE \in Nat /\ MaxForwards \in Nat
    BY TransportAssumption
  <1>2. StatusTyped /\ OnlyOfPacket /\ TasksHoldPacket /\ NetHoldsPacket /\ GivenHoldsPacket
    BY <1>1
    DEF Init, StatusTyped, OnlyOfPacket, TasksHoldPacket, NetHoldsPacket, GivenHoldsPacket, Idle
  <1>3. HoldsCells(EmptyBuffer, SIZE)
    BY CellsAreCells DEF HoldsCells, EmptyBuffer, Stale
  <1>4. BuffersHoldCells
    BY <1>3 DEF Init, BuffersHoldCells
  <1>5. QED
    BY <1>2, <1>4 DEF BytesInv

(* A task that is begun, with what was read or with a copy that may have   *)
(* been encrypted before.                                                  *)
LEMMA BegunIsReady ==
    ASSUME NEW b, NEW lo, NEW hi, NEW len \in Nat,
           NEW targets \in SUBSET Node, NEW nodeRelay \in BOOLEAN
    PROVE  LET t == Sending(lo, hi, targets, nodeRelay)
           IN  /\ Lies(b, lo, hi, len, TRUE) => Ready(t, b, len)
               /\ \A used \in BOOLEAN :
                    Lies(b, lo, hi, len, ~used) => Ready([t EXCEPT !.used = used], b, len)
  <1> DEFINE t == Sending(lo, hi, targets, nodeRelay)
             copy(used) == [t EXCEPT !.used = used]
  <1>1. (CHOOSE k \in Nonce : TRUE) \in Nonce
    BY TransportAssumption
  <1>2. <<>> \in Seq({"direct", "through", "UDP", "TCP"})
    OBVIOUS
  <1>3. ASSUME NEW first, Lies(b, lo, hi, len, first)
        PROVE  lo \in ADDR_LEN + UDP_MSG_HEADER_LEN .. SIZE /\ hi \in 0 .. SIZE
    BY <1>3, LengthsOfHeaders DEF Lies
  <1>4. ASSUME Lies(b, lo, hi, len, TRUE) PROVE Ready(t, b, len)
    <2>1. t \in Task
      BY <1>1, <1>2, <1>3, <1>4 DEF Sending, Task
    <2>2. t.todo = <<>> /\ t.lo = lo /\ t.hi = hi /\ t.used = FALSE
      BY DEF Sending
    <2>3. QED
      BY <1>4, <2>1, <2>2 DEF Ready
  <1>5. ASSUME NEW used \in BOOLEAN, Lies(b, lo, hi, len, ~used)
        PROVE  Ready(copy(used), b, len)
    <2>1. copy(used) \in Task
      BY <1>1, <1>2, <1>3, <1>5 DEF Sending, Task
    <2>2. copy(used).todo = <<>> /\ copy(used).lo = lo /\ copy(used).hi = hi
          /\ copy(used).used = used
      BY DEF Sending
    <2> HIDE DEF copy
    <2>3. QED
      BY <1>5, <2>1, <2>2 DEF Ready
  <1>6. QED
    BY <1>4, <1>5

LEMMA ReadTunHolds ==
    ASSUME BytesInv, DOMAIN task = Node, NEW n \in Node, ReadTun(n)
    PROVE  BytesInv'
  <1>1. packet = Nothing /\ net = {} /\ given = {} /\ \A x \in Node : Idle(x)
    BY DEF BytesInv, OnlyOfPacket, ReadTun
  <1>2. PICK len \in Lengths, d \in Peers(n) \cup {Everyone} :
            /\ packet' = [from |-> n, to |-> d, len |-> len]
            /\ buff' = [buff EXCEPT ![n] = Written(@, TUN_START, PacketCells(len))]
            /\ task' = [task EXCEPT ![n] =
                    Left(Sending(TUN_START, TUN_START + len,
                                 IF d = Everyone THEN Peers(n) ELSE {d}, d # Everyone))]
    BY DEF ReadTun
  <1> DEFINE targets == IF d = Everyone THEN Peers(n) ELSE {d}
             relay == d # Everyone
             t == Sending(TUN_START, TUN_START + len, targets, relay)
             b == Written(buff[n], 4, PacketCells(len))
  <1>3. /\ TUN_START = 4 /\ len \in Nat \ {0} /\ len + 4 <= SIZE /\ SIZE \in Nat
    BY LengthsOfHeaders
  <1>4. /\ packet' \in [from : Node, to : Node \cup {Everyone}, len : Lengths]
        /\ packet'.len = len /\ targets \in SUBSET Node /\ relay \in BOOLEAN
    BY <1>2 DEF Peers
  <1>5. packet' # Nothing
    BY <1>4, TransportAssumption
  <1>6. /\ HoldsCells(buff[n], SIZE) /\ DOMAIN buff = Node
    BY DEF BytesInv, BuffersHoldCells
  <1>7. Len(PacketCells(len)) = len /\ \A i \in 1 .. len : PacketCells(len)[i] = Cell("packet", i)
    <2>1. PacketCells(len) \in [1 .. len -> {Cell("packet", i) : i \in 1 .. len}]
      BY DEF PacketCells
    <2>2. PacketCells(len) \in Seq({Cell("packet", i) : i \in 1 .. len})
      BY <1>3, <2>1, SeqDef
    <2>3. Len(PacketCells(len)) = len
      BY <1>3, <2>1, <2>2, LenProperties
    <2>4. QED
      BY <2>3 DEF PacketCells
  <1>8. HoldsCells(b, SIZE)
    <2>1. AllCells(PacketCells(len))
      BY <1>7, CellsAreCells DEF AllCells
    <2>2. QED
      BY <1>3, <1>6, <1>7, <2>1, WrittenHoldsCells
  <1>9. ASSUME NEW i \in 1 .. len PROVE b[4 + i - 1] = PacketCell(i, {})
    <2>1. /\ 4 + i - 1 \in DOMAIN buff[n] /\ 4 + i - 1 \in 4 .. 4 + len - 1
          /\ (4 + i - 1) - 4 + 1 = i
      BY <1>3, <1>6 DEF HoldsCells
    <2>2. b[4 + i - 1] = PacketCells(len)[(4 + i - 1) - 4 + 1]
      BY <1>7, <2>1 DEF Written
    <2>3. QED
      BY <1>7, <2>1, <2>2, CellsAreCells
  <1> HIDE DEF b, targets, relay
  <1>10. Lies(b, 4, 4 + len, len, TRUE)
    <2>1. Carries(b, 4, len, {})
      BY <1>9 DEF Carries
    <2>2. 4 \in 4 .. SIZE /\ 4 + len \in 0 .. SIZE /\ 4 + len <= 4 + len
      BY <1>3
    <2>3. QED
      BY <1>8, <2>1, <2>2 DEF Lies
  <1>11. Ready(t, b, len)
    BY <1>3, <1>4, <1>10, BegunIsReady
  <1> HIDE DEF t
  <1>12. task' = [task EXCEPT ![n] = Left(t)] /\ buff' = [buff EXCEPT ![n] = b]
    BY <1>2, <1>3 DEF t, b, targets, relay
  <1>13. TasksHoldPacket'
    <2>1. ASSUME NEW x \in Node, task'[x] # Nothing
          PROVE  Ready(task'[x], buff'[x], packet'.len)
      <3>1. x = n
        BY <1>1, <1>12, <2>1 DEF Idle
      <3>2. task'[x] = t /\ buff'[x] = b
        BY <1>6, <1>12, <2>1, <3>1 DEF Left
      <3>3. QED
        BY <1>4, <1>11, <3>2
    <2>2. QED
      BY <2>1 DEF TasksHoldPacket
  <1>14. BuffersHoldCells'
    BY <1>6, <1>8, <1>12 DEF BytesInv, BuffersHoldCells
  <1>15. net' = {} /\ given' = {} /\ UNCHANGED <<status, socket, channel, forwards>>
    BY <1>1 DEF ReadTun
  <1>16. StatusTyped' /\ OnlyOfPacket' /\ NetHoldsPacket' /\ GivenHoldsPacket'
    BY <1>4, <1>5, <1>15
    DEF BytesInv, StatusTyped, OnlyOfPacket, NetHoldsPacket, GivenHoldsPacket
  <1>17. QED
    BY <1>13, <1>14, <1>16 DEF BytesInv

LEMMA TakeTargetHolds ==
    ASSUME BytesInv, IInv, NEW n \in Node, TakeTarget(n)
    PROVE  BuffersHoldCells' /\ TasksHoldPacket'
  <1>1. PICK d \in task[n].left, k \in Nonce :
          task' = [task EXCEPT ![n] =
              Left([task[n] EXCEPT !.to = d, !.left = @ \ {d}, !.nonce = k,
                             !.todo = Attempts(n, d, task[n].nodeRelay)])]
    BY DEF TakeTarget
  <1> DEFINE old == task[n]
             todo == Attempts(n, d, old.nodeRelay)
             t == [old EXCEPT !.to = d, !.left = @ \ {d}, !.nonce = k, !.todo = todo]
  <1>2. Ready(old, buff[n], packet.len)
    BY DEF BytesInv, TasksHoldPacket, TakeTarget, Idle
  <1>3. todo \in Seq({"direct", "through", "UDP", "TCP"})
    BY AttemptsAreNamed DEF IInv, TypeInv, Try
  <1> HIDE DEF todo
  <1>4. d \in Node
    BY <1>2 DEF Ready, Task
  <1>5. /\ t \in Task /\ t.to = d /\ t.lo = old.lo /\ t.hi = old.hi /\ t.used = old.used
    BY <1>2, <1>3, <1>4 DEF Ready, Task
  <1>6. task' = [task EXCEPT ![n] = Left(t)]
    BY <1>1 DEF todo
  <1> HIDE DEF t
  <1>7. Ready(t, buff[n], packet.len)
    BY <1>2, <1>4, <1>5 DEF Ready
  <1>8. DOMAIN task = Node /\ DOMAIN buff = Node /\ HoldsCells(buff[n], SIZE)
    BY DEF IInv, TypeInv, BytesInv, BuffersHoldCells
  <1>9. UNCHANGED <<buff, packet>>
    BY DEF TakeTarget
  <1>10. task'[n] # Nothing => task'[n] = t
    BY <1>6, <1>8 DEF Left
  <1>11. \A y \in Node \ {n} : buff'[y] = buff[y] /\ task'[y] = task[y]
    BY <1>6, <1>9
  <1>12. QED
    BY <1>7, <1>8, <1>9, <1>10, <1>11, TaskUpdate

LEMMA TryTcpHolds ==
    ASSUME BytesInv, DOMAIN task = Node, NEW n \in Node, TryTcp(n)
    PROVE  BuffersHoldCells' /\ TasksHoldPacket' /\ NetHoldsPacket'
  <1> DEFINE t == task[n]
             len == packet.len
             seq == Cut(buff[n], t.lo, t.hi)
             done == [t EXCEPT !.todo = <<>>]
             frame == [to |-> Server, by |-> "TCP", first |-> ~t.used,
                       cells |-> TcpRelayEncode(seq, t.to, t.nonce)]
  <1>1. Tries(n, "TCP") /\ UNCHANGED packet
    BY DEF TryTcp
  <1>2. CASE Skip(n)
    BY <1>1, <1>2, SkipHolds
  <1>3. CASE Panic(n)
    <2>1. task' = [task EXCEPT ![n] = Nothing] /\ UNCHANGED <<buff, net>>
      BY <1>3 DEF Panic
    <2>2. QED
      BY <1>1, <2>1
      DEF BytesInv, BuffersHoldCells, TasksHoldPacket, NetHoldsPacket
  <1>4. CASE /\ net' = net \cup {frame}
             /\ task' = [task EXCEPT ![n] = Left(done)] /\ UNCHANGED buff
    <2>1. Ready(t, buff[n], len) /\ t.todo # <<>> /\ len \in Nat \ {0}
      BY <1>1, PacketIsThere DEF BytesInv, TasksHoldPacket, Tries, Idle
    <2>2. Ready(done, buff[n], len)
      BY <2>1, ReadyGoesOn
    <2>3. Payload(seq, len, ~t.used) /\ t.to \in Node /\ HoldsCells(buff[n], SIZE)
      BY <2>1, CutPayload DEF Ready, Lies
    <2> HIDE DEF done, len, seq
    <2>6. Well(frame, len)
      <3>1. /\ frame.by = "TCP" /\ frame.to \in Node \cup {Server} /\ frame.first = ~t.used
            /\ frame.to = Server => t.to \in Node
            /\ frame.cells = TcpRelayEncode(seq, t.to, t.nonce)
        BY <2>3
      <3> HIDE DEF frame, t
      <3>2. QED
        BY <2>1, <2>3, <3>1, FrameIsWell
    <2> HIDE DEF frame
    <2>7. NetHoldsPacket'
      BY <1>1, <1>4, <2>6, NetUpdate DEF len
    <2>8. /\ task'[n] # Nothing => task'[n] = done
          /\ DOMAIN buff = Node
          /\ \A y \in Node \ {n} : buff'[y] = buff[y] /\ task'[y] = task[y]
      BY <1>4 DEF Left, BytesInv, BuffersHoldCells
    <2>9. BuffersHoldCells' /\ TasksHoldPacket'
      BY <1>1, <1>4, <2>2, <2>3, <2>8, TaskUpdate DEF len
    <2>10. QED
      BY <2>7, <2>9
  <1>5. QED
    BY <1>2, <1>3, <1>4 DEF TryTcp

LEMMA TryUdpHolds ==
    ASSUME BytesInv, DOMAIN task = Node, NEW n \in Node, TryUdp(n)
    PROVE  BuffersHoldCells' /\ TasksHoldPacket' /\ NetHoldsPacket'
  <1> DEFINE t == task[n]
             h == UdpRelayHeader(t.to, t.nonce)
             at == t.lo - ADDR_LEN - UDP_MSG_HEADER_LEN
             cells == UdpRelayEncode(buff[n], t.lo, t.hi, t.to, t.nonce)
  <1>1. Tries(n, "UDP") /\ UNCHANGED packet
    BY DEF TryUdp
  <1>2. CASE Skip(n)
    BY <1>1, <1>2, SkipHolds
  <1>3. CASE Panic(n)
    <2>1. task' = [task EXCEPT ![n] = Nothing] /\ UNCHANGED <<buff, net>>
      BY <1>3 DEF Panic
    <2>2. QED
      BY <1>1, <2>1
      DEF BytesInv, BuffersHoldCells, TasksHoldPacket, NetHoldsPacket
  <1>4. CASE Transmit(n, cells, at, Server)
    <2>1. t.lo \in 4 .. SIZE /\ SIZE \in Nat /\ t.to \in Node
      BY <1>1, LengthsOfHeaders DEF BytesInv, TasksHoldPacket, Ready, Lies, Tries, Idle
    <2>2. t.lo \in Nat /\ Len(h) = 4 /\ h[3].v = t.to
      BY <2>1, Headers
    <2>3. at = t.lo - Len(h)
      BY <2>2, LengthsOfHeaders
    <2>4. cells = InFront(buff[n], t.lo, t.hi, h, t.nonce)
      BY <2>2, EncodesInFront
    <2>5. IsHeader(h, t.nonce)
      BY Headers DEF IsHeader
    <2> HIDE DEF h, at, cells
    <2>6. QED
      BY <1>1, <1>4, <2>1, <2>2, <2>3, <2>4, <2>5, TransmitHolds
  <1>5. QED
    BY <1>2, <1>3, <1>4 DEF TryUdp

LEMMA TryDataHolds ==
    ASSUME BytesInv, DOMAIN task = Node, NEW n \in Node, TryDirect(n) \/ TryThrough(n)
    PROVE  BuffersHoldCells' /\ TasksHoldPacket' /\ NetHoldsPacket'
  <1>1. \E x : Tries(n, x)
    BY DEF TryDirect, TryThrough
  <1>2. PICK x : Tries(n, x)
    BY <1>1
  <1>3. task[n].to \in Node
    BY <1>2 DEF BytesInv, TasksHoldPacket, Ready, Tries, Idle
  <1>4. UNCHANGED packet
    BY DEF TryDirect, TryThrough
  <1>5. Skip(n) \/ \E to \in Node : SendData(n, to)
    BY <1>3 DEF TryDirect, TryThrough, Peers
  <1>6. QED
    BY <1>2, <1>4, <1>5, SkipHolds, SendDataHolds

(* A packet that is received: dropped, written to the TUN or forwarded. *)
LEMMA ReceiveHolds ==
    ASSUME BytesInv, DOMAIN task = Node, NEW n \in Node, NEW m \in net, Receive(n, m)
    PROVE  BytesInv'
  <1> DEFINE b == Decoded(n, m)
             cells == b.cells
             lo == b.range.lo
             hi == b.range.hi
             len == packet.len
  <1>1. /\ packet # Nothing /\ len \in Nat \ {0} /\ packet.to \in Node \cup {Everyone}
    BY PacketIsThere
  <1>2. Well(m, len) /\ HoldsCells(buff[n], SIZE) /\ DOMAIN buff = Node
    BY DEF BytesInv, NetHoldsPacket, BuffersHoldCells
  <1> HIDE DEF len
  <1>3. Lies(cells, lo, hi, len, m.first)
    BY <1>1, <1>2, ReceivedLies
  <1> DEFINE begun(x) == [Sending(lo, hi, {x}, TRUE) EXCEPT !.used = ~m.first]
  <1>4. /\ net' = net \ {m} /\ buff' = [buff EXCEPT ![n] = cells] /\ Idle(n)
        /\ UNCHANGED <<config, status, socket, channel, packet>>
        /\ \/ UNCHANGED <<task, forwards, given>>
           \/ /\ given' = given \cup
                    {[node |-> n, first |-> m.first, cells |-> Cut(cells, lo, hi)]}
              /\ UNCHANGED <<task, forwards>>
           \/ /\ forwards < MaxForwards /\ forwards' = forwards + 1
              /\ \E x \in Node : task' = [task EXCEPT ![n] = begun(x)]
              /\ UNCHANGED given
    BY DEF Receive
  <1> HIDE DEF b, cells, lo, hi, begun
  <1>5. HoldsCells(cells, SIZE)
    BY <1>3 DEF Lies
  <1>7. NetHoldsPacket'
    BY <1>4 DEF BytesInv, NetHoldsPacket
  <1>8. StatusTyped' /\ OnlyOfPacket'
    <2>1. forwards' \in 0 .. MaxForwards
      <3>1. forwards \in 0 .. MaxForwards /\ MaxForwards \in Nat
        BY TransportAssumption DEF BytesInv, StatusTyped
      <3>2. forwards' = forwards \/ (forwards < MaxForwards /\ forwards' = forwards + 1)
        BY <1>4
      <3>3. QED
        BY <3>1, <3>2
    <2>2. QED
      BY <1>1, <1>4, <2>1 DEF BytesInv, StatusTyped, OnlyOfPacket
  <1>9. GivenHoldsPacket'
    <2>1. ASSUME NEW g \in given'
          PROVE  IsWhole(g.cells) /\ (g.first => StartsWithPacket(g.cells))
      <3>1. CASE g \in given
        BY <3>1 DEF BytesInv, GivenHoldsPacket
      <3>2. CASE g \notin given
        <4>1. g = [node |-> n, first |-> m.first, cells |-> Cut(cells, lo, hi)]
          BY <1>4, <2>1, <3>2
        <4>2. IsWhole(Cut(cells, lo, hi))
          BY <1>1, <1>3, LiesIsWhole DEF len
        <4>3. m.first => StartsWithPacket(Cut(cells, lo, hi))
          <5>1. m.first => Lies(cells, lo, hi, len, TRUE)
            BY <1>3 DEF Lies
          <5>2. QED
            BY <1>1, <5>1, LiesStartsWithPacket DEF len
        <4>4. QED
          BY <4>1, <4>2, <4>3
      <3>3. QED
        BY <3>1, <3>2
    <2>2. QED
      BY <1>4, <2>1 DEF GivenHoldsPacket, StartsWithPacket, IsWhole
  <1>10. BuffersHoldCells' /\ TasksHoldPacket'
    <2>1. task'[n] # Nothing => Ready(task'[n], cells, len)
      <3>1. CASE UNCHANGED task
        BY <1>4, <3>1 DEF Idle
      <3>2. ASSUME NEW x \in Node, task' = [task EXCEPT ![n] = begun(x)]
            PROVE  Ready(task'[n], cells, len)
        <4>1. task'[n] = begun(x) /\ {x} \in SUBSET Node /\ TRUE \in BOOLEAN
          BY <3>2
        <4>2. (~m.first) \in BOOLEAN /\ Lies(cells, lo, hi, len, ~(~m.first))
          BY <1>3 DEF Lies
        <4>3. Ready(begun(x), cells, len)
          BY <1>1, <4>1, <4>2, BegunIsReady DEF begun
        <4>4. QED
          BY <4>1, <4>3
      <3>3. QED
        BY <1>4, <3>1, <3>2
    <2>2. /\ DOMAIN buff' = Node /\ buff'[n] = cells
          /\ \A y \in Node \ {n} : buff'[y] = buff[y] /\ task'[y] = task[y]
      BY <1>2, <1>4
    <2>3. QED
      BY <1>4, <1>5, <2>1, <2>2, TaskUpdate DEF len
  <1>11. QED
    BY <1>7, <1>8, <1>9, <1>10 DEF BytesInv

LEMMA ServerRelayHolds ==
    ASSUME BytesInv, NEW m \in net, ServerRelay(m)
    PROVE  NetHoldsPacket'
  <1> DEFINE d == RelayTo(m)
             len == packet.len
  <1>1. len \in Nat /\ Well(m, len) /\ m.to = Server
    BY PacketIsThere DEF BytesInv, NetHoldsPacket, ServerRelay
  <1>2. d \in Node
    BY <1>1 DEF Well
  <1>3. PICK by \in {"TCP", "UDP"}, k \in Nonce :
            /\ by = "UDP" => Size(Relayed(m, by, d, k).cells) <= MAX_DATAGRAM
            /\ net' = (net \ {m}) \cup {Relayed(m, by, d, k)}
    BY DEF ServerRelay
  <1> HIDE DEF d
  <1>4. Well(Relayed(m, by, d, k), len)
    BY <1>1, <1>2, <1>3, RelayedIsWell
  <1>5. UNCHANGED packet
    BY DEF ServerRelay
  <1>6. QED
    BY <1>3, <1>4, <1>5, NetUpdate

(* What most steps leave as it is, while the packet is on its way. *)
LEMMA RestKept ==
    ASSUME BytesInv, (\E n \in Node : ~Idle(n)) \/ net # {},
           status' \in [Node -> {"new", "rejected", "up", "panicked", "failed"}],
           UNCHANGED <<socket, channel, packet, forwards, given>>
    PROVE  StatusTyped' /\ OnlyOfPacket' /\ GivenHoldsPacket'
  <1>1. packet # Nothing
    BY PacketIsThere
  <1>2. StatusTyped' /\ OnlyOfPacket'
    BY <1>1 DEF BytesInv, StatusTyped, OnlyOfPacket
  <1>3. GivenHoldsPacket'
    BY DEF BytesInv, GivenHoldsPacket, StartsWithPacket, IsWhole
  <1>4. QED
    BY <1>2, <1>3

LEMMA SendKeepsRest ==
    ASSUME BytesInv, DOMAIN task = Node, NEW n \in Node,
           TryDirect(n) \/ TryThrough(n) \/ TryTcp(n) \/ TryUdp(n)
    PROVE  StatusTyped' /\ OnlyOfPacket' /\ GivenHoldsPacket'
  <1>1. ~Idle(n) /\ UNCHANGED <<socket, channel, packet, forwards, given>>
    BY DEF TryDirect, TryThrough, TryTcp, TryUdp, Tries
  <1>2. \/ status' = status
        \/ status' = [status EXCEPT ![n] = "panicked"]
        \/ status' = [status EXCEPT ![n] = "failed"]
    BY DEF TryDirect, TryThrough, TryTcp, TryUdp, Skip, Panic, SendData, Transmit
  <1>3. status' \in [Node -> {"new", "rejected", "up", "panicked", "failed"}]
    BY <1>2 DEF BytesInv, StatusTyped
  <1>4. QED
    BY <1>1, <1>3, RestKept

LEMMA EndPacketHolds ==
    ASSUME BytesInv, EndPacket
    PROVE  BytesInv'
  <1>1. /\ packet' = Nothing /\ net' = {} /\ given' = {} /\ forwards' = 0
        /\ buff' = [n \in Node |-> EmptyBuffer]
        /\ \A n \in Node : task'[n] = Nothing
        /\ UNCHANGED <<status, socket, channel>>
    BY DEF EndPacket, Idle
  <1>2. 0 \in 0 .. MaxForwards
    BY TransportAssumption
  <1>3. HoldsCells(EmptyBuffer, SIZE)
    BY CellsAreCells DEF HoldsCells, EmptyBuffer, Stale
  <1>4. StatusTyped' /\ OnlyOfPacket'
    BY <1>1, <1>2 DEF BytesInv, StatusTyped, OnlyOfPacket, Idle
  <1>5. BuffersHoldCells'
    BY <1>1, <1>3 DEF BuffersHoldCells
  <1>6. TasksHoldPacket' /\ NetHoldsPacket' /\ GivenHoldsPacket'
    BY <1>1 DEF TasksHoldPacket, NetHoldsPacket, GivenHoldsPacket
  <1>7. QED
    BY <1>4, <1>5, <1>6 DEF BytesInv

(* Nothing about the packet changes. *)
LEMMA BytesUnchanged ==
    ASSUME BytesInv, UNCHANGED <<packet, buff, task, net, forwards, given>>, StatusTyped'
    PROVE  BytesInv'
  <1>1. OnlyOfPacket' /\ BuffersHoldCells'
    BY DEF BytesInv, OnlyOfPacket, BuffersHoldCells, Idle
  <1>2. TasksHoldPacket' /\ NetHoldsPacket'
    BY DEF BytesInv, TasksHoldPacket, NetHoldsPacket
  <1>3. GivenHoldsPacket'
    BY DEF BytesInv, GivenHoldsPacket, StartsWithPacket, IsWhole
  <1>4. QED
    BY <1>1, <1>2, <1>3 DEF BytesInv

LEMMA LaunchHolds ==
    ASSUME BytesInv, NEW n \in Node, Launch(n)
    PROVE  BytesInv'
  <1>1. UNCHANGED <<packet, buff, task, net, forwards, given>>
    BY DEF Launch
  <1>2. IsUseUdp(Mode(n)) \in BOOLEAN /\ IsUseTcp(Mode(n)) \in BOOLEAN
    BY DEF IsUseUdp, IsUseTcp, In
  <1>3. StatusTyped'
    BY <1>2 DEF Launch, BytesInv, StatusTyped
  <1>4. QED
    BY <1>1, <1>3, BytesUnchanged

LEMMA StepBytes == IInv /\ BytesInv /\ [Next]_vars => BytesInv'
  <1> SUFFICES ASSUME IInv, BytesInv, [Next]_vars PROVE BytesInv'
    OBVIOUS
  <1>a. DOMAIN task = Node
    BY DEF IInv, TypeInv
  <1>1. ASSUME NEW n \in Node, Launch(n) PROVE BytesInv'
    BY <1>1, LaunchHolds
  <1>2. ASSUME NEW n \in Node, ReadTun(n) PROVE BytesInv'
    BY <1>a, <1>2, ReadTunHolds
  <1>3. ASSUME NEW n \in Node, TakeTarget(n) PROVE BytesInv'
    <2>1. /\ ~Idle(n) /\ net' = net
          /\ UNCHANGED <<status, socket, channel, packet, forwards, given>>
      BY <1>3 DEF TakeTarget
    <2>2. NetHoldsPacket'
      BY <2>1 DEF BytesInv, NetHoldsPacket
    <2>3. StatusTyped' /\ OnlyOfPacket' /\ GivenHoldsPacket'
      BY <2>1, RestKept DEF BytesInv, StatusTyped
    <2>4. QED
      BY <1>3, <2>2, <2>3, TakeTargetHolds DEF BytesInv
  <1>4. ASSUME NEW n \in Node, TryDirect(n) \/ TryThrough(n) PROVE BytesInv'
    BY <1>a, <1>4, TryDataHolds, SendKeepsRest DEF BytesInv
  <1>5. ASSUME NEW n \in Node, TryTcp(n) PROVE BytesInv'
    BY <1>a, <1>5, TryTcpHolds, SendKeepsRest DEF BytesInv
  <1>6. ASSUME NEW n \in Node, TryUdp(n) PROVE BytesInv'
    BY <1>a, <1>6, TryUdpHolds, SendKeepsRest DEF BytesInv
  <1>7. ASSUME NEW n \in Node, NEW m \in net, Receive(n, m) PROVE BytesInv'
    BY <1>a, <1>7, ReceiveHolds
  <1>8. ASSUME NEW m \in net, ServerRelay(m) \/ Lose(m) PROVE BytesInv'
    <2>1. UNCHANGED <<status, socket, channel, packet, buff, task, forwards, given>>
      BY <1>8 DEF ServerRelay, Lose
    <2>2. BuffersHoldCells' /\ TasksHoldPacket'
      BY <2>1 DEF BytesInv, BuffersHoldCells, TasksHoldPacket
    <2>3. StatusTyped' /\ OnlyOfPacket' /\ GivenHoldsPacket'
      BY <1>8, <2>1, RestKept DEF BytesInv, StatusTyped
    <2>4. NetHoldsPacket'
      <3>1. CASE ServerRelay(m)
        BY <3>1, ServerRelayHolds
      <3>2. CASE Lose(m)
        BY <3>2 DEF Lose, BytesInv, NetHoldsPacket
      <3>3. QED
        BY <1>8, <3>1, <3>2
    <2>5. QED
      BY <2>2, <2>3, <2>4 DEF BytesInv
  <1>9. CASE EndPacket
    BY <1>9, EndPacketHolds
  <1>10. CASE UNCHANGED vars
    <2>1. /\ UNCHANGED <<packet, buff, task, net, forwards, given>>
          /\ UNCHANGED <<status, socket, channel>>
      BY <1>10 DEF vars
    <2>2. StatusTyped'
      BY <2>1 DEF BytesInv, StatusTyped
    <2>3. QED
      BY <2>1, <2>2, BytesUnchanged
  <1>11. QED
    BY <1>1, <1>2, <1>3, <1>4, <1>5, <1>6, <1>7, <1>8, <1>9, <1>10 DEF Next

LEMMA BytesAlways == Spec => [](IInv /\ BytesInv)
  <1>1. Init => IInv /\ BytesInv
    BY InitIInv, InitBytes
  <1>2. IInv /\ BytesInv /\ [Next]_vars => (IInv /\ BytesInv)'
    BY StepIInv, StepBytes
  <1>3. QED
    BY <1>1, <1>2, PTL DEF Spec

(* The buffers of the nodes keep their length, a packet lies inside its    *)
(* buffer behind room for the longest header, and whatever is under way    *)
(* has an address: data_encode and relay_encode never write outside.       *)
THEOREM TypesAreKept == Spec => []TypeOK
  <1>1. IInv /\ BytesInv => TypeOK
    <2> SUFFICES ASSUME IInv, BytesInv PROVE TypeOK
      OBVIOUS
    <2>1. config \in Configs
      BY DEF IInv, TypeInv
    <2>2. StatusTyped
      BY DEF BytesInv
    <2>3. ASSUME NEW n \in Node PROVE DOMAIN buff[n] = 0 .. SIZE - 1
      BY DEF BytesInv, BuffersHoldCells, HoldsCells
    <2>4. ASSUME NEW n \in Node, task[n] # Nothing
          PROVE  task[n] \in Task /\ task[n].lo <= task[n].hi
      <3>1. Ready(task[n], buff[n], packet.len) /\ packet.len \in Nat
        BY <2>4, PacketIsThere DEF BytesInv, TasksHoldPacket, Idle
      <3>2. task[n] \in Task /\ task[n].lo \in Nat /\ task[n].hi \in Nat
        BY <3>1, LengthsOfHeaders DEF Ready, Lies
      <3>3. task[n].lo + packet.len <= task[n].hi
        BY <3>1 DEF Ready, Lies
      <3>4. QED
        BY <3>1, <3>2, <3>3
    <2>5. ASSUME NEW m \in net PROVE m.to \in Node \cup {Server} /\ m.by \in {"UDP", "TCP"}
      BY DEF BytesInv, NetHoldsPacket, Well, Fits
    <2>6. QED
      BY <2>1, <2>2, <2>3, <2>4, <2>5 DEF TypeOK, StatusTyped
  <1>2. QED
    BY <1>1, BytesAlways, PTL

LEMMA PayloadStartsWithPacket ==
    ASSUME NEW seq, packet.len \in Nat, Payload(seq, packet.len, TRUE)
    PROVE  StartsWithPacket(seq)
  <1>1. \A i \in 1 .. packet.len : seq[i] = PacketCell(i, {})
    BY DEF Payload
  <1>2. packet.len <= Len(seq)
    BY DEF Payload
  <1>3. QED
    BY <1>1, <1>2, CellsAreCells DEF StartsWithPacket

(* The first copy of a packet that leaves a node decrypts to the packet,   *)
(* on the server and on every node, by UDP and by TCP: what encode writes, *)
(* decode and read_msg find, for every key, nonce, length and buffer.      *)
THEOREM FirstCopiesAreReadable == Spec => []FirstCopyReadable
  <1>1. IInv /\ BytesInv => FirstCopyReadable
    <2> SUFFICES ASSUME BytesInv, NEW m \in net, m.first PROVE StartsWithPacket(Body(m))
      BY DEF FirstCopyReadable
    <2>1. packet.len \in Nat \ {0} /\ Well(m, packet.len)
      BY PacketIsThere DEF BytesInv, NetHoldsPacket
    <2>2. CASE m.to = Server
      <3>1. Payload(RelayedData(m), packet.len, m.first)
        BY <2>1, <2>2, RelayedDataCells
      <3>2. Payload(RelayedData(m), packet.len, TRUE)
        BY <3>1 DEF Payload
      <3>3. StartsWithPacket(RelayedData(m))
        BY <2>1, <3>2, PayloadStartsWithPacket
      <3>4. QED
        BY <2>2, <3>3 DEF Body
    <2>3. CASE m.to # Server
      <3> DEFINE b == Decoded(m.to, m)
                 lo == b.range.lo
                 hi == b.range.hi
      <3>1. m.to \in Node /\ HoldsCells(buff[m.to], SIZE)
        BY <2>1, <2>3 DEF Well, BytesInv, BuffersHoldCells
      <3>2. Lies(b.cells, lo, hi, packet.len, m.first)
        BY <2>1, <3>1, ReceivedLies
      <3> HIDE DEF b
      <3>3. Lies(b.cells, lo, hi, packet.len, TRUE)
        BY <3>2 DEF Lies
      <3>4. StartsWithPacket(Cut(b.cells, lo, hi))
        BY <2>1, <3>3, LiesStartsWithPacket
      <3>5. QED
        BY <2>3, <3>4 DEF Body, b
    <2>4. QED
      BY <2>2, <2>3
  <1>2. QED
    BY <1>1, BytesAlways, PTL

----------------------------------------------------------------------------
(* How long what is sent and received is: a node that forwards a packet    *)
(* sends the header it came with as a part of it, so a message is longer   *)
(* by four cells at most for every node that has forwarded the packet.     *)
Longest == packet.len + 4 * forwards
Room(m) == IF m.by = "UDP" THEN 4 ELSE 5

SizesInv ==
    /\ \A n \in Node : task[n] # Nothing => task[n].hi - task[n].lo <= Longest
    /\ \A m \in net : Size(m.cells) <= Longest + Room(m)
    /\ \A g \in given : Len(g.cells) \in Nat /\ Len(g.cells) <= Longest + 4

LEMMA FrameSize ==
    ASSUME NEW seq, NEW len, NEW first, Payload(seq, len, first), NEW d, NEW nonce
    PROVE  Len(seq) \in Nat /\ Size(TcpRelayEncode(seq, d, nonce)) = Len(seq) + 5
  <1>1. PICK S : (\A c \in S : IsCell(c)) /\ seq \in Seq(S)
    BY DEF Payload
  <1> DEFINE frame == TcpRelayFrame(seq, d, nonce)
             size == Len(seq) + 5
  <1>2. Len(seq) \in Nat /\ size \in Nat
    BY <1>1
  <1>3. HoldsCells(AsBuffer(frame), size)
    BY <1>1, FrameCells
  <1> HIDE DEF frame, size
  <1>4. HoldsCells(TcpRelayEncode(seq, d, nonce), size)
    BY <1>2, <1>3, EncryptHoldsCells DEF TcpRelayEncode, frame
  <1>5. Size(TcpRelayEncode(seq, d, nonce)) = size
    BY <1>2, <1>4, SizeOfBuffer DEF HoldsCells
  <1>6. QED
    BY <1>2, <1>5 DEF size

LEMMA RelayedDataSize ==
    ASSUME NEW m, NEW len \in Nat, Well(m, len), m.to = Server
    PROVE  /\ Len(RelayedData(m)) \in Nat /\ Size(m.cells) \in Nat
           /\ Len(RelayedData(m)) = Size(m.cells) - Room(m)
  <1> DEFINE size == Size(m.cells)
             start == Start(m)
  <1>1. start = Room(m) /\ start \in Nat
    BY LengthsOfHeaders DEF Well, Fits, Start, Room
  <1>2. size \in Nat /\ start + len <= size
    BY DEF Well
  <1>3. RelayedData(m) = Cut(Plain(m), start, size)
    BY RelayedDataIsCut
  <1> HIDE DEF size, start
  <1>4. start <= size
    BY <1>1, <1>2
  <1>5. Len(RelayedData(m)) = size - start
    BY <1>1, <1>2, <1>3, <1>4, CutLength
  <1>6. QED
    BY <1>1, <1>2, <1>4, <1>5 DEF size

(* What the server sends on is as long as what it has received, without    *)
(* one header and with another.                                            *)
LEMMA RelayedSize ==
    ASSUME NEW m, NEW len \in Nat, Well(m, len), m.to = Server,
           NEW by \in {"TCP", "UDP"}, NEW d, NEW k
    PROVE  LET r == Relayed(m, by, d, k)
           IN  Size(r.cells) \in Nat /\ Size(r.cells) = Size(m.cells) - Room(m) + Room(r)
  <1> DEFINE data == RelayedData(m)
             L == Len(data)
             r == Relayed(m, by, d, k)
             seq == [i \in 1 .. 4 |-> Stale] \o data
  <1>1. Payload(data, len, m.first)
    BY RelayedDataCells
  <1>2. L \in Nat /\ L = Size(m.cells) - Room(m) /\ Size(m.cells) \in Nat
    BY RelayedDataSize
  <1>3. /\ r.by = by
        /\ r.cells = IF by = "TCP" THEN TcpRelayEncode(data, d, k)
                     ELSE UdpRelayEncode(AsBuffer(seq), 4, 4 + L, d, k)
    BY LengthsOfHeaders DEF Relayed
  <1>4. Room(m) \in Nat
    BY DEF Room
  <1> HIDE DEF r, data
  <1>5. CASE by = "TCP"
    <2>1. Size(r.cells) = L + 5
      BY <1>1, <1>3, <1>5, FrameSize
    <2>2. Room(r) = 5
      BY <1>3, <1>5 DEF Room
    <2> HIDE DEF L
    <2>3. QED
      BY <1>2, <1>4, <2>1, <2>2 DEF r
  <1>6. CASE by = "UDP"
    <2>1. PICK S : data \in Seq(S)
      BY <1>1 DEF Payload
    <2>2. Len(seq) = 4 + L
      <3>1. [i \in 1 .. 4 |-> Stale] \in [1 .. 4 -> {Stale}] /\ 4 \in Nat
        OBVIOUS
      <3>2. [i \in 1 .. 4 |-> Stale] \in Seq({Stale}) /\ Len([i \in 1 .. 4 |-> Stale]) = 4
        BY <3>1, SeqDef, LenProperties
      <3>3. QED
        BY <2>1, <3>2
    <2>3. DOMAIN AsBuffer(seq) = 0 .. (4 + L) - 1
      BY <2>2 DEF AsBuffer
    <2> HIDE DEF seq
    <2>4. DOMAIN r.cells = 0 .. (4 + L) - 1
      BY <1>3, <1>6, <2>3 DEF UdpRelayEncode, Encrypt, Written
    <2> HIDE DEF L
    <2>5. Size(r.cells) = 4 + L
      BY <1>2, <2>4, SizeOfBuffer
    <2>6. Room(r) = 4
      BY <1>3, <1>6 DEF Room
    <2>7. QED
      BY <1>2, <1>4, <2>5, <2>6 DEF r
  <1>7. QED
    BY <1>5, <1>6

(* What a node takes for the packet is longer than it is by one header.    *)
LEMMA ReceivedSize ==
    ASSUME NEW n \in Node, HoldsCells(buff[n], SIZE),
           NEW m, NEW len \in Nat \ {0}, Well(m, len)
    PROVE  LET b == Decoded(n, m)
           IN  /\ b.range.lo \in Nat /\ b.range.hi \in Nat /\ b.range.lo <= b.range.hi
               /\ b.range.hi - b.range.lo <= Size(m.cells) - Room(m) + 4
               /\ Size(m.cells) \in Nat
  <1> DEFINE b == Decoded(n, m)
             lo == b.range.lo
             hi == b.range.hi
             size == Size(m.cells)
  <1>1. Lies(b.cells, lo, hi, len, m.first)
    BY ReceivedLies
  <1>2. lo \in Nat /\ hi \in Nat /\ lo <= hi
    <2>1. lo \in 4 .. SIZE /\ hi \in 0 .. SIZE /\ lo + len <= hi /\ SIZE \in Nat
      BY <1>1, LengthsOfHeaders DEF Lies
    <2> HIDE DEF lo, hi
    <2>2. QED
      BY <2>1
  <1>3. size \in Nat /\ (m.by = "TCP" => 5 + len <= size) /\ m.by \in {"UDP", "TCP"}
    BY LengthsOfHeaders DEF Well, Fits, Start
  <1>4. CASE m.by = "UDP"
    <2>1. \E kind : b.range = UdpRange(kind, size)
      BY <1>4 DEF Decoded
    <2>2. hi - lo = size
      <3>1. PICK kind : b.range = UdpRange(kind, size)
        BY <2>1
      <3>2. hi = lo + size
        BY <3>1 DEF UdpRange
      <3> HIDE DEF hi, lo, size
      <3>3. QED
        BY <1>2, <1>3, <3>2
    <2> HIDE DEF hi, lo, size
    <2>3. QED
      BY <1>2, <1>3, <1>4, <2>2 DEF Room, hi, lo, size, b
  <1>5. CASE m.by = "TCP"
    <2> DEFINE body == Cut(ReadMsg(m.cells), 3, size)
    <2>1. b.range = TcpRange(Len(body))
      BY <1>5, LengthsOfHeaders DEF Decoded
    <2>2. Len(body) = size - 3
      <3>1. 3 \in Nat /\ 3 <= size
        BY <1>3, <1>5
      <3> HIDE DEF size
      <3>2. QED
        BY <1>3, <3>1, CutLength
    <2> HIDE DEF body, b
    <2>3. lo = 4 /\ hi = 2 + Len(body)
      BY <2>1, LengthsOfHeaders DEF TcpRange
    <2>4. Room(m) = 5
      BY <1>5 DEF Room
    <2> HIDE DEF lo, hi, size
    <2>5. hi - lo <= size - Room(m) + 4
      BY <1>3, <2>2, <2>3, <2>4
    <2>6. QED
      BY <1>2, <1>3, <2>5 DEF hi, lo, size, b
  <1>6. QED
    BY <1>3, <1>4, <1>5

LEMMA InitSizes == Init => SizesInv
  BY DEF Init, SizesInv

LEMMA LongestIsNat ==
    ASSUME BytesInv, packet # Nothing
    PROVE  packet.len \in Nat /\ forwards \in Nat /\ Longest \in Nat
  <1>1. packet.len \in Nat /\ forwards \in Nat
    BY LengthsOfHeaders, TransportAssumption DEF BytesInv, StatusTyped
  <1>2. QED
    BY <1>1 DEF Longest

(* What is as short as before stays short; what is new has to be shown so. *)
LEMMA SizesGoOn ==
    ASSUME BytesInv, SizesInv, packet # Nothing, packet' = packet,
           forwards' = forwards \/ forwards' = forwards + 1,
           NEW n \in Node, \A y \in Node \ {n} : task'[y] = task[y],
           task'[n] # Nothing => task'[n].hi - task'[n].lo <= Longest',
           \A m \in net' : m \in net \/ Size(m.cells) <= Longest' + Room(m),
           \A g \in given' :
                \/ g \in given
                \/ Len(g.cells) \in Nat /\ Len(g.cells) <= Longest' + 4
    PROVE  SizesInv'
  <1>1. Longest \in Nat /\ Longest' \in Nat /\ Longest <= Longest'
    <2>1. packet.len \in Nat /\ forwards \in Nat
      BY LongestIsNat
    <2>2. QED
      BY <2>1 DEF Longest
  <1>2. ASSUME NEW y \in Node, task'[y] # Nothing
        PROVE  task'[y].hi - task'[y].lo <= Longest'
    <2>1. CASE y = n
      BY <1>2, <2>1
    <2>2. CASE y # n
      <3>1. task'[y] = task[y] /\ task[y] # Nothing
        BY <1>2, <2>2
      <3>2. task[y].hi - task[y].lo <= Longest
        BY <3>1 DEF SizesInv
      <3>3. task[y].hi \in Nat /\ task[y].lo \in Nat
        <4>1. task[y].hi \in 0 .. SIZE /\ task[y].lo \in 4 .. SIZE /\ SIZE \in Nat
          BY <3>1, LengthsOfHeaders DEF BytesInv, TasksHoldPacket, Ready, Lies
        <4>2. QED
          BY <4>1
      <3>4. QED
        BY <1>1, <3>1, <3>2, <3>3
    <2>3. QED
      BY <2>1, <2>2
  <1>3. ASSUME NEW m \in net' PROVE Size(m.cells) <= Longest' + Room(m)
    <2>1. CASE m \in net
      <3>1. Size(m.cells) <= Longest + Room(m) /\ Room(m) \in Nat
        BY <2>1 DEF SizesInv, Room
      <3>2. Size(m.cells) \in Nat
        BY <2>1 DEF BytesInv, NetHoldsPacket, Well
      <3>3. QED
        BY <1>1, <3>1, <3>2
    <2>2. QED
      BY <2>1
  <1>4. ASSUME NEW g \in given' PROVE Len(g.cells) \in Nat /\ Len(g.cells) <= Longest' + 4
    <2>1. CASE g \in given
      BY <1>1, <2>1 DEF SizesInv
    <2>2. QED
      BY <2>1
  <1>5. QED
    BY <1>2, <1>3, <1>4 DEF SizesInv, Room

(* A task goes on with what lies between the same two places. *)
SamePlaces(n) ==
    task'[n] # Nothing => task'[n].lo = task[n].lo /\ task'[n].hi = task[n].hi

LEMMA LeftSamePlaces ==
    ASSUME NEW n \in Node, DOMAIN task = Node, NEW t, t.lo = task[n].lo, t.hi = task[n].hi,
           task' = [task EXCEPT ![n] = Left(t)]
    PROVE  SamePlaces(n) /\ \A y \in Node \ {n} : task'[y] = task[y]
  BY DEF Left, SamePlaces

LEMMA SendingSizes ==
    ASSUME BytesInv, SizesInv, NEW n \in Node, ~Idle(n), SamePlaces(n),
           \A y \in Node \ {n} : task'[y] = task[y], UNCHANGED <<packet, forwards, given>>,
           \A m \in net' : m \in net \/ Size(m.cells) <= Longest + Room(m)
    PROVE  SizesInv'
  <1>1. packet # Nothing
    BY PacketIsThere
  <1>2. Longest' = Longest
    BY DEF Longest
  <1>3. task[n].hi - task[n].lo <= Longest
    BY DEF SizesInv, Idle
  <1>4. task'[n] # Nothing => task'[n].hi - task'[n].lo <= Longest'
    BY <1>2, <1>3 DEF SamePlaces
  <1>5. QED
    BY <1>1, <1>2, <1>4, SizesGoOn

LEMMA ReadyPlaces ==
    ASSUME BytesInv, NEW n \in Node, ~Idle(n)
    PROVE  /\ task[n] \in Task /\ task[n].lo \in Nat /\ task[n].hi \in Nat
           /\ 4 <= task[n].lo /\ task[n].lo <= task[n].hi
  <1>1. packet.len \in Nat
    BY PacketIsThere
  <1>2. Ready(task[n], buff[n], packet.len)
    BY DEF BytesInv, TasksHoldPacket, Idle
  <1> DEFINE lo == task[n].lo
             hi == task[n].hi
  <1>3. task[n] \in Task /\ lo \in 4 .. SIZE /\ hi \in 0 .. SIZE /\ SIZE \in Nat
        /\ lo + packet.len <= hi
    BY <1>2, LengthsOfHeaders DEF Ready, Lies
  <1> HIDE DEF lo, hi
  <1>4. lo \in Nat /\ hi \in Nat /\ 4 <= lo /\ lo <= hi
    BY <1>1, <1>3
  <1>5. QED
    BY <1>3, <1>4 DEF lo, hi

LEMMA SkipSizes ==
    ASSUME BytesInv, SizesInv, DOMAIN task = Node, NEW n \in Node, ~Idle(n),
           Skip(n) \/ Panic(n), UNCHANGED <<packet, forwards, given>>
    PROVE  SizesInv'
  <1> DEFINE t == [task[n] EXCEPT !.todo = Tail(@)]
  <1>1. t.lo = task[n].lo /\ t.hi = task[n].hi
    BY ReadyPlaces DEF Task
  <1>2. task' = [task EXCEPT ![n] = Left(t)] \/ task' = [task EXCEPT ![n] = Nothing]
    BY DEF Skip, Panic
  <1> HIDE DEF t
  <1>3. SamePlaces(n) /\ \A y \in Node \ {n} : task'[y] = task[y]
    <2>1. CASE task' = [task EXCEPT ![n] = Left(t)]
      BY <1>1, <2>1, LeftSamePlaces
    <2>2. CASE task' = [task EXCEPT ![n] = Nothing]
      BY <2>2 DEF SamePlaces
    <2>3. QED
      BY <1>2, <2>1, <2>2
  <1>4. net' = net
    BY DEF Skip, Panic
  <1>5. QED
    BY <1>3, <1>4, SendingSizes

(* A datagram has the header of data_encode or of relay_encode. *)
LEMMA TransmitSizes ==
    ASSUME BytesInv, SizesInv, DOMAIN task = Node, NEW n \in Node, ~Idle(n),
           NEW cells, NEW at, at = task[n].lo - 2 \/ at = task[n].lo - 4, NEW to,
           Transmit(n, cells, at, to), UNCHANGED <<packet, forwards, given>>
    PROVE  SizesInv'
  <1> DEFINE lo == task[n].lo
             hi == task[n].hi
             tail == [task[n] EXCEPT !.todo = Tail(@), !.used = TRUE]
             done == [task[n] EXCEPT !.todo = <<>>, !.used = TRUE]
             datagram == [to |-> to, by |-> "UDP", first |-> ~task[n].used,
                          cells |-> AsBuffer(Cut(cells, at, hi))]
  <1>1. /\ tail.lo = lo /\ tail.hi = hi /\ done.lo = lo /\ done.hi = hi
        /\ lo \in Nat /\ hi \in Nat /\ 4 <= lo /\ lo <= hi
    BY ReadyPlaces DEF Task
  <1>2. hi - lo <= Longest /\ Longest \in Nat
    BY PacketIsThere, LongestIsNat DEF SizesInv, Idle
  <1>3. /\ \/ task' = [task EXCEPT ![n] = Left(done)]
           \/ task' = [task EXCEPT ![n] = Left(tail)]
           \/ task' = [task EXCEPT ![n] = Nothing]
        /\ net' = net \cup {datagram} \/ net' = net
    BY DEF Transmit
  <1>4. Size(datagram.cells) <= Longest + Room(datagram)
    <2>1. Room(datagram) = 4
      BY DEF Room
    <2>2. datagram.cells = AsBuffer(Cut(cells, at, hi))
      OBVIOUS
    <2> HIDE DEF datagram, lo, hi, tail, done
    <2>3. at = lo - 2 \/ at = lo - 4
      BY DEF lo
    <2>4. at \in Nat /\ at <= hi /\ hi - at \in Nat /\ hi - at <= (hi - lo) + 4
      <3>1. lo \in Nat /\ hi \in Nat /\ 4 <= lo /\ lo <= hi
        BY <1>1
      <3>2. CASE at = lo - 2
        BY <3>1, <3>2
      <3>3. CASE at = lo - 4
        BY <3>1, <3>3
      <3>4. QED
        BY <2>3, <3>2, <3>3
    <2>5. DOMAIN datagram.cells = 0 .. (hi - at) - 1
      <3>1. at \in Nat /\ hi \in Nat /\ at <= hi
        BY <1>1, <2>4
      <3>2. Copies(AsBuffer(Cut(cells, at, hi)), cells, at, hi - at)
        BY <3>1, CutIsCopy
      <3>3. QED
        BY <2>2, <3>2 DEF Copies
    <2>6. Size(datagram.cells) = hi - at
      BY <2>4, <2>5, SizeOfBuffer
    <2>7. QED
      BY <1>1, <1>2, <2>1, <2>4, <2>6
  <1> HIDE DEF tail, done, datagram
  <1>5. SamePlaces(n) /\ \A y \in Node \ {n} : task'[y] = task[y]
    <2>1. CASE task' = [task EXCEPT ![n] = Left(done)]
      BY <1>1, <2>1, LeftSamePlaces
    <2>2. CASE task' = [task EXCEPT ![n] = Left(tail)]
      BY <1>1, <2>2, LeftSamePlaces
    <2>3. CASE task' = [task EXCEPT ![n] = Nothing]
      BY <2>3 DEF SamePlaces
    <2>4. QED
      BY <1>3, <2>1, <2>2, <2>3
  <1>6. QED
    BY <1>3, <1>4, <1>5, SendingSizes

LEMMA TryTcpSizes ==
    ASSUME BytesInv, SizesInv, DOMAIN task = Node, NEW n \in Node, TryTcp(n)
    PROVE  SizesInv'
  <1> DEFINE lo == task[n].lo
             hi == task[n].hi
             seq == Cut(buff[n], lo, hi)
             done == [task[n] EXCEPT !.todo = <<>>]
             frame == [to |-> Server, by |-> "TCP", first |-> ~task[n].used,
                       cells |-> TcpRelayEncode(seq, task[n].to, task[n].nonce)]
  <1>1. ~Idle(n) /\ UNCHANGED <<packet, forwards, given>>
    BY DEF TryTcp, Tries
  <1>2. CASE Skip(n) \/ Panic(n)
    BY <1>1, <1>2, SkipSizes
  <1>3. CASE /\ net' = net \cup {frame}
             /\ task' = [task EXCEPT ![n] = Left(done)]
    <2>1. /\ done.lo = lo /\ done.hi = hi
          /\ lo \in Nat /\ hi \in Nat /\ lo <= hi
      BY <1>1, ReadyPlaces DEF Task
    <2>2. hi - lo <= Longest /\ Longest \in Nat
      BY <1>1, PacketIsThere, LongestIsNat DEF SizesInv, Idle
    <2>3. Size(frame.cells) <= Longest + Room(frame)
      <3>1. Len(seq) = hi - lo
        BY <2>1, CutLength
      <3>2. Lies(buff[n], lo, hi, packet.len, ~task[n].used) /\ packet.len \in Nat
        BY <1>1, PacketIsThere DEF BytesInv, TasksHoldPacket, Ready, Idle
      <3>3. Payload(seq, packet.len, ~task[n].used)
        BY <3>2, CutPayload
      <3> HIDE DEF seq, lo, hi
      <3>4. Size(frame.cells) = Len(seq) + 5
        BY <3>3, FrameSize
      <3>5. Room(frame) = 5
        BY DEF Room
      <3> HIDE DEF frame
      <3>6. QED
        BY <2>1, <2>2, <3>1, <3>4, <3>5
    <2> HIDE DEF done, frame
    <2>4. SamePlaces(n) /\ \A y \in Node \ {n} : task'[y] = task[y]
      BY <1>3, <2>1, LeftSamePlaces
    <2>5. QED
      BY <1>1, <1>3, <2>3, <2>4, SendingSizes
  <1>4. QED
    BY <1>2, <1>3 DEF TryTcp

LEMMA TryUdpSizes ==
    ASSUME BytesInv, SizesInv, DOMAIN task = Node, NEW n \in Node,
           TryDirect(n) \/ TryThrough(n) \/ TryUdp(n)
    PROVE  SizesInv'
  <1>1. ~Idle(n) /\ UNCHANGED <<packet, forwards, given>>
    BY DEF TryDirect, TryThrough, TryUdp, Tries
  <1>2. \/ Skip(n) \/ Panic(n)
        \/ \E to : SendData(n, to)
        \/ \E cells : Transmit(n, cells, task[n].lo - ADDR_LEN - UDP_MSG_HEADER_LEN, Server)
    BY DEF TryDirect, TryThrough, TryUdp
  <1>3. CASE Skip(n) \/ Panic(n)
    BY <1>1, <1>3, SkipSizes
  <1>4. ASSUME NEW to, SendData(n, to) PROVE SizesInv'
    <2>1. PICK cells : Transmit(n, cells, task[n].lo - UDP_MSG_HEADER_LEN, to)
      BY <1>4 DEF SendData
    <2>2. task[n].lo - UDP_MSG_HEADER_LEN = task[n].lo - 2
      BY LengthsOfHeaders
    <2>3. QED
      BY <1>1, <2>1, <2>2, TransmitSizes
  <1>5. ASSUME NEW cells,
               Transmit(n, cells, task[n].lo - ADDR_LEN - UDP_MSG_HEADER_LEN, Server)
        PROVE  SizesInv'
    <2>1. task[n].lo \in Nat
      BY <1>1, ReadyPlaces
    <2>2. task[n].lo - ADDR_LEN - UDP_MSG_HEADER_LEN = task[n].lo - 4
      BY <2>1, LengthsOfHeaders
    <2>3. QED
      BY <1>1, <1>5, <2>2, TransmitSizes
  <1>6. QED
    BY <1>2, <1>3, <1>4, <1>5

LEMMA ReceiveSizes ==
    ASSUME BytesInv, SizesInv, DOMAIN task = Node, NEW n \in Node, NEW m \in net, Receive(n, m)
    PROVE  SizesInv'
  <1> DEFINE b == Decoded(n, m)
             lo == b.range.lo
             hi == b.range.hi
             taken == [node |-> n, first |-> m.first, cells |-> Cut(b.cells, lo, hi)]
             begun(x) == [Sending(lo, hi, {x}, TRUE) EXCEPT !.used = ~m.first]
  <1>1. /\ packet # Nothing /\ packet.len \in Nat \ {0}
        /\ Well(m, packet.len) /\ HoldsCells(buff[n], SIZE)
    BY PacketIsThere DEF BytesInv, NetHoldsPacket, BuffersHoldCells
  <1>2. /\ lo \in Nat /\ hi \in Nat /\ lo <= hi
        /\ hi - lo <= Size(m.cells) - Room(m) + 4 /\ Size(m.cells) \in Nat
    BY <1>1, ReceivedSize
  <1>3. Len(taken.cells) = hi - lo
    <2>1. taken.cells = Cut(b.cells, lo, hi)
      OBVIOUS
    <2> HIDE DEF taken, lo, hi
    <2>2. QED
      BY <1>2, <2>1, CutLength
  <1>4. \A x : begun(x).lo = lo /\ begun(x).hi = hi
    BY DEF Sending
  <1>5. /\ net' = net \ {m} /\ Idle(n) /\ UNCHANGED packet
        /\ \/ UNCHANGED <<task, forwards, given>>
           \/ given' = given \cup {taken} /\ UNCHANGED <<task, forwards>>
           \/ /\ forwards' = forwards + 1 /\ UNCHANGED given
              /\ \E x : task' = [task EXCEPT ![n] = begun(x)]
    BY DEF Receive
  <1> HIDE DEF b, lo, hi, taken, begun
  <1>6. Longest \in Nat /\ hi - lo <= Longest + 4
    <2>1. Size(m.cells) <= Longest + Room(m) /\ Longest \in Nat /\ Room(m) \in Nat
      BY <1>1, LongestIsNat DEF SizesInv, Room
    <2>2. QED
      BY <1>2, <2>1
  <1>7. \A y \in Node \ {n} : task'[y] = task[y]
    BY <1>5
  <1>8. CASE UNCHANGED <<task, forwards>>
    <2>1. Longest' = Longest /\ task'[n] = Nothing /\ forwards' = forwards
      BY <1>5, <1>8 DEF Longest, Idle
    <2>2. \A g \in given' :
            g \in given \/ (Len(g.cells) \in Nat /\ Len(g.cells) <= Longest' + 4)
      <3>1. Len(taken.cells) \in Nat /\ Len(taken.cells) <= Longest' + 4
        BY <1>2, <1>3, <1>6, <2>1
      <3>2. QED
        BY <1>5, <1>8, <3>1
    <2>3. QED
      BY <1>1, <1>5, <1>7, <2>1, <2>2, SizesGoOn
  <1>9. CASE /\ forwards' = forwards + 1 /\ UNCHANGED given
             /\ \E x : task' = [task EXCEPT ![n] = begun(x)]
    <2>1. Longest' = Longest + 4
      <3>1. packet.len \in Nat /\ forwards \in Nat
        BY <1>1, LongestIsNat
      <3>2. QED
        BY <1>5, <1>9, <3>1 DEF Longest
    <2>2. task'[n].lo = lo /\ task'[n].hi = hi
      BY <1>4, <1>9
    <2>3. task'[n].hi - task'[n].lo <= Longest'
      BY <1>6, <2>1, <2>2
    <2>4. QED
      BY <1>1, <1>5, <1>7, <1>9, <2>3, SizesGoOn
  <1>10. QED
    BY <1>5, <1>8, <1>9

LEMMA ReadTunSizes ==
    ASSUME BytesInv, SizesInv, DOMAIN task = Node, NEW n \in Node, ReadTun(n)
    PROVE  SizesInv'
  <1>1. net = {} /\ given = {} /\ \A x \in Node : Idle(x)
    BY DEF BytesInv, OnlyOfPacket, ReadTun
  <1>2. PICK len \in Lengths, d \in Peers(n) \cup {Everyone} :
            /\ packet' = [from |-> n, to |-> d, len |-> len]
            /\ task' = [task EXCEPT ![n] =
                    Left(Sending(TUN_START, TUN_START + len,
                                 IF d = Everyone THEN Peers(n) ELSE {d}, d # Everyone))]
    BY DEF ReadTun
  <1> DEFINE t == Sending(TUN_START, TUN_START + len,
                          IF d = Everyone THEN Peers(n) ELSE {d}, d # Everyone)
  <1>3. t.lo = 4 /\ t.hi = 4 + len /\ len \in Nat
    BY LengthsOfHeaders DEF Sending
  <1>4. Longest' \in Nat /\ len <= Longest'
    <2>1. forwards' \in Nat /\ packet'.len = len
      BY <1>2, TransportAssumption DEF ReadTun, BytesInv, StatusTyped
    <2>2. len \in Nat
      BY <1>3
    <2>3. ASSUME NEW p, NEW f \in Nat, p = len
          PROVE  p + 4 * f \in Nat /\ len <= p + 4 * f
      BY <2>2, <2>3
    <2>4. packet'.len + 4 * forwards' \in Nat /\ len <= packet'.len + 4 * forwards'
      BY <2>1, <2>3
    <2>5. QED
      BY <2>4 DEF Longest
  <1> HIDE DEF t
  <1>5. task' = [task EXCEPT ![n] = Left(t)]
    BY <1>2 DEF t
  <1>6. ASSUME NEW y \in Node, task'[y] # Nothing
        PROVE  task'[y].hi - task'[y].lo <= Longest'
    <2>1. task'[y] = t
      BY <1>1, <1>5, <1>6 DEF Idle, Left
    <2>2. QED
      BY <1>3, <1>4, <2>1
  <1>7. net' = {} /\ given' = {}
    BY <1>1 DEF ReadTun
  <1>8. QED
    BY <1>6, <1>7 DEF SizesInv

LEMMA ServerRelaySizes ==
    ASSUME BytesInv, SizesInv, NEW m \in net, ServerRelay(m)
    PROVE  SizesInv'
  <1> DEFINE d == RelayTo(m)
  <1>1. packet # Nothing /\ packet.len \in Nat /\ Well(m, packet.len) /\ m.to = Server
    BY PacketIsThere DEF BytesInv, NetHoldsPacket, ServerRelay
  <1>2. PICK by \in {"TCP", "UDP"}, k \in Nonce : net' = (net \ {m}) \cup {Relayed(m, by, d, k)}
    BY DEF ServerRelay
  <1> DEFINE r == Relayed(m, by, d, k)
  <1>3. Size(r.cells) \in Nat /\ Size(r.cells) = Size(m.cells) - Room(m) + Room(r)
    BY <1>1, RelayedSize
  <1>4. /\ Size(m.cells) <= Longest + Room(m) /\ Longest \in Nat
        /\ Size(m.cells) \in Nat /\ Room(m) \in Nat /\ Room(r) \in Nat
    BY <1>1, LongestIsNat DEF SizesInv, Room, Well
  <1> HIDE DEF r, d
  <1>5. Size(r.cells) <= Longest + Room(r)
    BY <1>3, <1>4
  <1>6. /\ UNCHANGED <<task, given>> /\ Longest' = Longest
        /\ \A x \in net' : x \in net \/ x = r
    BY <1>2 DEF ServerRelay, Longest, r
  <1>7. QED
    BY <1>5, <1>6 DEF SizesInv, Room

LEMMA StepSizes == IInv /\ BytesInv /\ SizesInv /\ [Next]_vars => SizesInv'
  <1> SUFFICES ASSUME IInv, BytesInv, SizesInv, [Next]_vars PROVE SizesInv'
    OBVIOUS
  <1>a. DOMAIN task = Node
    BY DEF IInv, TypeInv
  <1>1. ASSUME UNCHANGED <<packet, forwards, task, given>>, net' \subseteq net PROVE SizesInv'
    BY <1>1 DEF SizesInv, Longest, Room
  <1>2. ASSUME NEW n \in Node, Launch(n) PROVE SizesInv'
    BY <1>1, <1>2 DEF Launch
  <1>3. ASSUME NEW n \in Node, ReadTun(n) PROVE SizesInv'
    BY <1>a, <1>3, ReadTunSizes
  <1>4. ASSUME NEW n \in Node, TakeTarget(n) PROVE SizesInv'
    <2>1. PICK d \in task[n].left, k \in Nonce :
            task' = [task EXCEPT ![n] =
                Left([task[n] EXCEPT !.to = d, !.left = @ \ {d}, !.nonce = k,
                               !.todo = Attempts(n, d, task[n].nodeRelay)])]
      BY <1>4 DEF TakeTarget
    <2> DEFINE t == [task[n] EXCEPT !.to = d, !.left = @ \ {d}, !.nonce = k,
                                    !.todo = Attempts(n, d, task[n].nodeRelay)]
    <2>2. ~Idle(n) /\ net' = net /\ UNCHANGED <<packet, forwards, given>>
      BY <1>4 DEF TakeTarget
    <2>3. t.lo = task[n].lo /\ t.hi = task[n].hi
      BY <2>2, ReadyPlaces DEF Task
    <2>4. task' = [task EXCEPT ![n] = Left(t)]
      BY <2>1
    <2> HIDE DEF t
    <2>5. SamePlaces(n) /\ \A y \in Node \ {n} : task'[y] = task[y]
      BY <1>a, <2>3, <2>4, LeftSamePlaces
    <2>6. QED
      BY <2>2, <2>5, SendingSizes
  <1>5. ASSUME NEW n \in Node, TryDirect(n) \/ TryThrough(n) \/ TryUdp(n) PROVE SizesInv'
    BY <1>a, <1>5, TryUdpSizes
  <1>6. ASSUME NEW n \in Node, TryTcp(n) PROVE SizesInv'
    BY <1>a, <1>6, TryTcpSizes
  <1>7. ASSUME NEW n \in Node, NEW m \in net, Receive(n, m) PROVE SizesInv'
    BY <1>a, <1>7, ReceiveSizes
  <1>8. ASSUME NEW m \in net, ServerRelay(m) PROVE SizesInv'
    BY <1>8, ServerRelaySizes
  <1>9. ASSUME NEW m \in net, Lose(m) PROVE SizesInv'
    BY <1>1, <1>9 DEF Lose
  <1>10. CASE EndPacket
    BY <1>10 DEF EndPacket, SizesInv, Idle
  <1>11. CASE UNCHANGED vars
    BY <1>1, <1>11 DEF vars
  <1>12. QED
    BY <1>2, <1>3, <1>4, <1>5, <1>6, <1>7, <1>8, <1>9, <1>10, <1>11 DEF Next

(* Whatever a node gives to its TUN device, readable or not, is a whole    *)
(* packet: all the cells that were read from another device, in order and  *)
(* all in plain text or none, and a first copy in plain text; and what     *)
(* udp_handler and `send_packet` leave behind it is shorter than a header  *)
(* for each node that has had it.                                          *)
THEOREM GivenPacketsAreWhole == Spec => []GivenIsWhole
  <1>1. Init => SizesInv
    BY InitSizes
  <1>2. IInv /\ BytesInv /\ SizesInv /\ [Next]_vars => SizesInv'
    BY StepSizes
  <1>3. BytesInv /\ SizesInv => GivenIsWhole
    <2> SUFFICES ASSUME BytesInv, SizesInv, NEW g \in given
                 PROVE  /\ IsWhole(g.cells) /\ (g.first => StartsWithPacket(g.cells))
                        /\ TailIsShort(g.cells)
      BY DEF GivenIsWhole
    <2>1. IsWhole(g.cells) /\ (g.first => StartsWithPacket(g.cells))
      BY DEF BytesInv, GivenHoldsPacket
    <2>2. packet.len \in Nat /\ forwards \in Nat
      BY LongestIsNat DEF BytesInv, OnlyOfPacket
    <2>3. Len(g.cells) <= packet.len + 4 * forwards + 4
      BY DEF SizesInv, Longest
    <2>4. (forwards + 1) * (UDP_MSG_HEADER_LEN + ADDR_LEN) = 4 * forwards + 4
      BY <2>2, LengthsOfHeaders
    <2>5. QED
      BY <2>1, <2>2, <2>3, <2>4 DEF TailIsShort, SizesInv
  <1>4. QED
    BY <1>1, <1>2, <1>3, BytesAlways, PTL DEF Spec
=============================================================================
