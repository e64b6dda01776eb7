------------------------------ MODULE Transport ------------------------------
(***************************************************************************)
(* What happens to the bytes of a packet: a node reads it from the TUN     *)
(* into a buffer that leaves room for a header, `send` (node/mod.rs) tries *)
(* one transport after the other, and each of them writes its header in    *)
(* front of the packet and encrypts both where they are (common/net.rs,    *)
(* common/cipher.rs).  The server and the nodes on the way decrypt in      *)
(* their own buffers and encode anew.                                      *)
(*                                                                         *)
(* A cell stands for two bytes: what was written there, and the pieces of  *)
(* key stream it has been XORed with.  One packet at a time is on its way. *)
(* The links are those of PeerLink and ServerLink: their status is any.    *)
(***************************************************************************)
EXTENDS Integers, Sequences, FiniteSets

CONSTANTS
    Node, Server,
    Configs,        \* configurations: node -> [mode, specify]
    Keyed,          \* does the group have a key?
    Nonce,          \* the nonces, as key_mix sees them
    KEY_LEN,        \* cells of the base key
    Lengths,        \* lengths of packets, in cells
    SIZE,           \* cells of a buffer: UDP_BUFF_SIZE
    MAX_DATAGRAM,   \* longer datagrams fail with EMSGSIZE
    MaxForwards,    \* bound: how often the packet is forwarded by nodes
    Everyone,       \* the destination of a broadcast
    Nothing

UDP_MSG_HEADER_LEN == 2     \* nonce; magic number and type
TCP_MSG_HEADER_LEN == 3     \* nonce; magic number and type; length
ADDR_LEN == 2               \* VirtualAddr

(* struct ProtocolMode: protocols in the order in which they are tried *)
ProtocolMode == [p2p : Seq({"UDP", "TCP"}), relay : Seq({"UDP", "TCP"})]

ASSUME TransportAssumption ==
    /\ Server \notin Node /\ Everyone \notin Node
    /\ \A c \in Configs, n \in Node :
          c[n].mode \in ProtocolMode
          /\ \A d \in DOMAIN c[n].specify : c[n].specify[d] \in ProtocolMode
    /\ Nothing \notin [from : Node, to : Node \cup {Everyone}, len : Lengths]
    /\ Nonce # {} /\ KEY_LEN \in Nat \ {0}
    /\ Keyed \in BOOLEAN
    /\ SIZE \in Nat /\ MAX_DATAGRAM \in Nat
    /\ MAX_DATAGRAM + UDP_MSG_HEADER_LEN + 2 * ADDR_LEN <= SIZE
    /\ \A l \in Lengths : l \in Nat \ {0} /\ l + UDP_MSG_HEADER_LEN + ADDR_LEN <= SIZE
    /\ MaxForwards \in Nat

VARIABLES
    config,     \* the configuration of every node, as it was read
    status,     \* node -> "new", "rejected", "up", "panicked", "failed"
    socket,     \* node -> has it a UDP socket?
    channel,    \* node -> has it a channel to its tunnel?
    packet,     \* the packet on its way: [from, to, len], or Nothing
    buff,       \* node -> the buffer of the task that has the packet
    task,       \* node -> what `send_packet` has left to do, or Nothing
    net,        \* datagrams and frames under way
    forwards,   \* how often nodes have forwarded the packet
    given       \* history: what was written to TUN devices

vars == <<config, status, socket, channel, packet, buff, task, net, forwards, given>>

----------------------------------------------------------------------------
(* ProtocolMode *)
In(x, seq) == \E i \in DOMAIN seq : seq[i] = x

(* Mutant: whoever is not reached directly needs no socket. *)
NeedsSocketForP2p(mode) == In("UDP", mode.p2p)

IsUseUdp(mode) == In("UDP", mode.p2p) \/ In("UDP", mode.relay)

IsUseTcp(mode) == In("TCP", mode.p2p) \/ In("TCP", mode.relay)

(* NodeConfigFinalize::try_from *)
Accepts(c) == ~In("TCP", c.mode.p2p)

Mode(n) == config[n].mode
ModeFor(n, d) == IF d \in DOMAIN config[n].specify THEN config[n].specify[d] ELSE Mode(n)

(* What `send` tries, in this order.  A node on the way is tried after a   *)
(* direct link and once more after the relays; not for broadcasts.         *)
Attempts(n, d, nodeRelay) ==
    LET mode == ModeFor(n, d)
        supportP2p == mode.p2p # <<>> /\ Mode(d).p2p # <<>>
        through == IF supportP2p /\ nodeRelay THEN <<"through">> ELSE <<>>
    IN  (IF supportP2p THEN <<"direct">> ELSE <<>>) \o through
        \o (IF mode.relay # <<>> /\ Mode(d).relay # <<>> THEN mode.relay ELSE <<>>)
        \o through

(* A peer becomes Available only if it is pinged, which takes a socket and *)
(* UDP among the direct protocols of both.                                 *)
MayBeAvailable(n, d) ==
    /\ socket[n] /\ d # n
    /\ In("UDP", Mode(n).p2p) /\ In("UDP", Mode(d).p2p)

----------------------------------------------------------------------------
(* Cells, buffers and the cipher *)
Cell(kind, v) == [kind |-> kind, v |-> v, pads |-> {}]
Stale == Cell("stale", 0)
EmptyBuffer == [i \in 0 .. SIZE - 1 |-> Stale]

(* XORing twice cancels. *)
Xor(c, pad) == [c EXCEPT !.pads = IF pad \in @ THEN @ \ {pad} ELSE @ \cup {pad}]

(* XorCipher::encrypt of the cells lo .. hi - 1, which are those from      *)
(* offset on of a message.  The key repeats.                               *)
Encrypt(cells, lo, hi, offset, nonce) ==
    [i \in DOMAIN cells |->
        IF Keyed /\ i \in lo .. hi - 1
        THEN Xor(cells[i], <<nonce, (offset + i - lo) % KEY_LEN>>)
        ELSE cells[i]]

(* seq of cells written from position at on *)
Written(cells, at, seq) ==
    [i \in DOMAIN cells |-> IF i \in at .. at + Len(seq) - 1 THEN seq[i - at + 1] ELSE cells[i]]

Cut(cells, lo, hi) == [i \in 1 .. hi - lo |-> cells[lo + i - 1]]
AsBuffer(seq) == [i \in 0 .. Len(seq) - 1 |-> seq[i + 1]]
Size(cells) == Cardinality(DOMAIN cells)

AddrCells(d) == <<Cell("addr", d), Cell("addr", d)>>
PacketCells(len) == [i \in 1 .. len |-> Cell("packet", i)]

(* Does a sequence of cells start with the packet as it was read? *)
StartsWithPacket(seq) ==
    packet.len <= Len(seq) /\ \A i \in 1 .. packet.len : seq[i] = Cell("packet", i)

(* UdpMsg::data_encode in front of lo *)
DataHeader(nonce) == <<Cell("nonce", nonce), Cell("DATA", 0)>>

DataEncode(cells, lo, hi, nonce) ==
    LET at == lo - UDP_MSG_HEADER_LEN
    IN  Encrypt(Written(cells, at, DataHeader(nonce)), at + 1, hi, 0, nonce)

(* UdpMsg::relay_encode in front of lo *)
UdpRelayHeader(d, nonce) == <<Cell("nonce", nonce), Cell("RELAY", 0)>> \o AddrCells(d)

UdpRelayEncode(cells, lo, hi, d, nonce) ==
    LET at == lo - ADDR_LEN - UDP_MSG_HEADER_LEN
    IN  Encrypt(Written(cells, at, UdpRelayHeader(d, nonce)), at + 1, hi, 0, nonce)

(* TcpMsg::relay_encode into a piece of its own *)
TcpRelayFrame(seq, d, nonce) ==
    LET body == AddrCells(d) \o seq
    IN  <<Cell("nonce", nonce), Cell("RELAY", 0), Cell("len", Len(body))>> \o body

TcpRelayEncode(seq, d, nonce) ==
    LET frame == TcpRelayFrame(seq, d, nonce)
    IN  Encrypt(AsBuffer(frame), 1, Len(frame), 0, nonce)

(* UdpMsg::decode of a datagram at the front of cells: decrypts in place *)
UdpDecode(cells, at, len) == Encrypt(cells, at + 1, at + len, 0, cells[at].v)

(* Mutant: the body is decrypted as if the key started there. *)
ReadMsgNoOffset(cells) ==
    LET head == Encrypt(cells, 1, TCP_MSG_HEADER_LEN, 0, cells[0].v)
    IN  Encrypt(head, TCP_MSG_HEADER_LEN, TCP_MSG_HEADER_LEN + head[2].v, 0, cells[0].v)

(* TcpMsg::read_msg: the header first, then as many cells as it says, which *)
(* lie 4 bytes further in the key stream.                                   *)
ReadMsg(cells) ==
    LET head == Encrypt(cells, 1, TCP_MSG_HEADER_LEN, 0, cells[0].v)
    IN  Encrypt(head, TCP_MSG_HEADER_LEN, TCP_MSG_HEADER_LEN + head[2].v, 2, cells[0].v)

----------------------------------------------------------------------------
Idle(n) == task[n] = Nothing
Up(n) == status[n] = "up"

Task == [lo : ADDR_LEN + UDP_MSG_HEADER_LEN .. SIZE, hi : 0 .. SIZE,
         to : Node \cup {Nothing}, todo : Seq({"direct", "through", "UDP", "TCP"}),
         left : SUBSET Node, nodeRelay : BOOLEAN, nonce : Nonce, used : BOOLEAN]

(* The cells of a packet lie inside the buffer, behind room for the longest *)
(* header.                                                                  *)
TypeOK ==
    /\ config \in Configs
    /\ status \in [Node -> {"new", "rejected", "up", "panicked", "failed"}]
    /\ socket \in [Node -> BOOLEAN] /\ channel \in [Node -> BOOLEAN]
    /\ \A n \in Node : DOMAIN buff[n] = 0 .. SIZE - 1
    /\ \A n \in Node : task[n] # Nothing => task[n] \in Task /\ task[n].lo <= task[n].hi
    /\ \A m \in net : m.to \in Node \cup {Server} /\ m.by \in {"UDP", "TCP"}
    /\ forwards \in 0 .. MaxForwards

Init ==
    /\ config \in Configs
    /\ status = [n \in Node |-> "new"]
    /\ socket = [n \in Node |-> FALSE]
    /\ channel = [n \in Node |-> FALSE]
    /\ packet = Nothing
    /\ buff = [n \in Node |-> EmptyBuffer]
    /\ task = [n \in Node |-> Nothing]
    /\ net = {}
    /\ forwards = 0
    /\ given = {}

(* The configuration is checked; a node that starts makes the socket and   *)
(* the channel its mode asks for.                                          *)
Launch(n) ==
    /\ status[n] = "new"
    /\ IF Accepts(config[n])
       THEN /\ status' = [status EXCEPT ![n] = "up"]
            /\ socket' = [socket EXCEPT ![n] = IsUseUdp(Mode(n))]
            /\ channel' = [channel EXCEPT ![n] = IsUseTcp(Mode(n))]
       ELSE /\ status' = [status EXCEPT ![n] = "rejected"]
            /\ UNCHANGED <<socket, channel>>
    /\ UNCHANGED <<config, packet, buff, task, net, forwards, given>>

(* send_packet: what is at lo .. hi - 1 goes to all of targets. *)
Sending(lo, hi, targets, nodeRelay) ==
    [lo |-> lo, hi |-> hi, to |-> Nothing, todo |-> <<>>, left |-> targets,
     nodeRelay |-> nodeRelay, nonce |-> CHOOSE k \in Nonce : TRUE, used |-> FALSE]

(* What is left of it; nothing if no target is left. *)
Left(t) == IF t.todo = <<>> /\ t.left = {} THEN Nothing ELSE t

Peers(n) == {m \in Node \ {n} : Up(m)}

TUN_START == UDP_MSG_HEADER_LEN + ADDR_LEN

ReadTun(n) ==
    /\ Up(n) /\ Idle(n) /\ packet = Nothing
    /\ \E len \in Lengths, d \in Peers(n) \cup {Everyone} :
        /\ packet' = [from |-> n, to |-> d, len |-> len]
        /\ buff' = [buff EXCEPT ![n] = Written(@, TUN_START, PacketCells(len))]
        /\ task' = [task EXCEPT ![n] =
                Left(Sending(TUN_START, TUN_START + len,
                             IF d = Everyone THEN Peers(n) ELSE {d}, d # Everyone))]
    /\ UNCHANGED <<config, status, socket, channel, net, forwards, given>>

(* `send` to the next node: one nonce for all transports it tries. *)
TakeTarget(n) ==
    /\ Up(n) /\ ~Idle(n) /\ task[n].todo = <<>>
    /\ \E d \in task[n].left, k \in Nonce :
        task' = [task EXCEPT ![n] =
            Left([task[n] EXCEPT !.to = d, !.left = @ \ {d}, !.nonce = k,
                           !.todo = Attempts(n, d, task[n].nodeRelay)])]
    /\ UNCHANGED <<config, status, socket, channel, packet, buff, net, forwards, given>>

Tries(n, transport) ==
    /\ Up(n) /\ ~Idle(n) /\ task[n].todo # <<>>
    /\ Head(task[n].todo) = transport

(* The transport is not available, not allowed, or has no room. *)
Skip(n) ==
    /\ task' = [task EXCEPT ![n] = Left([task[n] EXCEPT !.todo = Tail(@)])]
    /\ UNCHANGED <<status, buff, net>>

(* unreachable!(): the task panics, and `start` ends with it. *)
Panic(n) ==
    /\ status' = [status EXCEPT ![n] = "panicked"]
    /\ task' = [task EXCEPT ![n] = Nothing]
    /\ UNCHANGED <<buff, net>>

(* UdpMsg::send_msg of a datagram that has been encoded in the buffer from *)
(* `at` on: it leaves; or the error is suppressed, and the next transport  *)
(* is tried; or the error ends the node.                                   *)
Transmit(n, cells, at, to) ==
    LET t == task[n]
        datagram == [to |-> to, by |-> "UDP", first |-> ~t.used,
                     cells |-> AsBuffer(Cut(cells, at, t.hi))]
    IN
    /\ buff' = [buff EXCEPT ![n] = cells]
    /\ \/ /\ t.hi - at <= MAX_DATAGRAM
          /\ net' = net \cup {datagram}
          /\ task' = [task EXCEPT ![n] = Left([task[n] EXCEPT !.todo = <<>>, !.used = TRUE])]
          /\ UNCHANGED status
       \/ /\ task' = [task EXCEPT ![n] = Left([task[n] EXCEPT !.todo = Tail(@), !.used = TRUE])]
          /\ UNCHANGED <<status, net>>
       \/ /\ status' = [status EXCEPT ![n] = "failed"]
          /\ task' = [task EXCEPT ![n] = Nothing]
          /\ UNCHANGED net

SendData(n, to) ==
    LET t == task[n]
    IN  Transmit(n, DataEncode(buff[n], t.lo, t.hi, t.nonce), t.lo - UDP_MSG_HEADER_LEN, to)

TryDirect(n) ==
    /\ Tries(n, "direct")
    /\ Skip(n) \/ (MayBeAvailable(n, task[n].to) /\ SendData(n, task[n].to))
    /\ UNCHANGED <<config, socket, channel, packet, forwards, given>>

TryThrough(n) ==
    /\ Tries(n, "through")
    /\ \/ Skip(n)
       \/ \E m \in Peers(n) \ {task[n].to} : MayBeAvailable(n, m) /\ SendData(n, m)
    /\ UNCHANGED <<config, socket, channel, packet, forwards, given>>

(* The packet is copied behind a header of its own. *)
TryTcp(n) ==
    LET t == task[n]
    IN
    /\ Tries(n, "TCP")
    /\ \/ Skip(n)
       \/ ~channel[n] /\ Panic(n)
       \/ /\ channel[n]
          /\ net' = net \cup
                {[to |-> Server, by |-> "TCP", first |-> ~t.used,
                  cells |-> TcpRelayEncode(Cut(buff[n], t.lo, t.hi), t.to, t.nonce)]}
          /\ task' = [task EXCEPT ![n] = Left([task[n] EXCEPT !.todo = <<>>])]
          /\ UNCHANGED <<status, buff>>
    /\ UNCHANGED <<config, socket, channel, packet, forwards, given>>

TryUdp(n) ==
    LET t == task[n]
    IN
    /\ Tries(n, "UDP")
    /\ \/ Skip(n)
       \/ ~socket[n] /\ Panic(n)
       \/ /\ socket[n]
          /\ Transmit(n, UdpRelayEncode(buff[n], t.lo, t.hi, t.to, t.nonce),
                      t.lo - ADDR_LEN - UDP_MSG_HEADER_LEN, Server)
    /\ UNCHANGED <<config, socket, channel, packet, forwards, given>>

----------------------------------------------------------------------------
(* What the server and the nodes receive *)

(* Mutant: datagrams are received at the front of the buffer. *)
UdpStartAtFront == 0

UDP_START == ADDR_LEN       \* START of the UDP receiver of a node

TCP_START == UDP_MSG_HEADER_LEN

(* Mutant: the length of the datagram is taken for the end of the packet. *)
UdpRangeToLength(kind, len) ==
    LET lo == UDP_START + UDP_MSG_HEADER_LEN + (IF kind = "RELAY" THEN ADDR_LEN ELSE 0)
    IN  [lo |-> lo, hi |-> len]

(* The packet in a datagram of len cells, as the receiver of a node cuts   *)
(* it out: the header is counted once more, so stale cells follow it.      *)
UdpRange(kind, len) ==
    LET lo == UDP_START + UDP_MSG_HEADER_LEN + (IF kind = "RELAY" THEN ADDR_LEN ELSE 0)
    IN  [lo |-> lo, hi |-> lo + len]

(* The packet in the body of a frame. *)
TcpRange(bodyLen) ==
    [lo |-> TCP_START + ADDR_LEN, hi |-> TCP_START + bodyLen]

(* The buffer of a node that has received m and decrypted it where it is,  *)
(* and where the packet lies.                                              *)
Decoded(n, m) ==
    IF m.by = "UDP"
    THEN LET len == Size(m.cells)
             b == UdpDecode(Written(buff[n], UDP_START, Cut(m.cells, 0, len)), UDP_START, len)
         IN  [cells |-> b, range |-> UdpRange(b[UDP_START + 1].kind, len)]
    ELSE LET body == Cut(ReadMsg(m.cells), TCP_MSG_HEADER_LEN, Size(m.cells))
         IN  [cells |-> Written(buff[n], TCP_START, body), range |-> TcpRange(Len(body))]

(* Where get_ip_dst_addr and the routing table send what begins with c:   *)
(* a packet in plain text to its destination; of any other bytes only the *)
(* number is checked, they may name any address.  Nothing: no route.      *)
Destinations(c) ==
    IF c = Cell("packet", 1) THEN {packet.to, Nothing} ELSE Node \cup {Everyone, Nothing}

(* send_packet(Input): it is dropped (illegal, no route, not connected, a  *)
(* hook, not to be forwarded, or taken by the NAT in user space); or given *)
(* to the TUN, as something for this node or for everyone, or because      *)
(* allow_packet_not_in_rules_send_to_kernel is set; or forwarded.          *)
Receive(n, m) ==
    LET b == Decoded(n, m)
        lo == b.range.lo
        hi == b.range.hi
        d == Destinations(b.cells[lo])
    IN
    /\ m.to = n /\ m \in net /\ Up(n) /\ Idle(n)
    /\ net' = net \ {m}
    /\ buff' = [buff EXCEPT ![n] = b.cells]
    /\ \/ UNCHANGED <<task, forwards, given>>
       \/ /\ d \cap {n, Everyone, Nothing} # {}
          /\ given' = given \cup
                {[node |-> n, first |-> m.first, cells |-> Cut(b.cells, lo, hi)]}
          /\ UNCHANGED <<task, forwards>>
       \/ /\ forwards < MaxForwards
          /\ forwards' = forwards + 1
          /\ \E x \in d \cap (Node \ {n}) :
                task' = [task EXCEPT ![n] =
                            [Sending(lo, hi, {x}, TRUE) EXCEPT !.used = ~m.first]]
          /\ UNCHANGED given
    /\ UNCHANGED <<config, status, socket, channel, packet>>

(* The server decrypts what it relays and encodes it anew, with a nonce of *)
(* its own: in a piece of its own for TCP, and for UDP where it is.        *)
RelayedData(m) ==
    IF m.by = "UDP"
    THEN Cut(UdpDecode(m.cells, 0, Size(m.cells)), UDP_MSG_HEADER_LEN + ADDR_LEN, Size(m.cells))
    ELSE Cut(ReadMsg(m.cells), TCP_MSG_HEADER_LEN + ADDR_LEN, Size(m.cells))

RelayTo(m) ==
    IF m.by = "UDP"
    THEN UdpDecode(m.cells, 0, Size(m.cells))[UDP_MSG_HEADER_LEN].v
    ELSE ReadMsg(m.cells)[TCP_MSG_HEADER_LEN].v

Relayed(m, by, d, nonce) ==
    LET data == RelayedData(m)
        lo == UDP_MSG_HEADER_LEN + ADDR_LEN
        room == AsBuffer([i \in 1 .. lo |-> Stale] \o data)
    IN  [to |-> d, by |-> by, first |-> m.first,
         cells |-> IF by = "TCP" THEN TcpRelayEncode(data, d, nonce)
                   ELSE UdpRelayEncode(room, lo, lo + Len(data), d, nonce)]

(* Relaying: by a transport of the receiver's mode that is there.  What it *)
(* does not relay (flow control, nobody there, EMSGSIZE) is lost.          *)
ServerRelay(m) ==
    LET d == RelayTo(m)
    IN
    /\ m.to = Server /\ m \in net
    /\ Up(d)
    /\ \E by \in {"TCP", "UDP"}, k \in Nonce :
        /\ In(by, Mode(d).relay)
        /\ by = "UDP" => socket[d] /\ Size(Relayed(m, by, d, k).cells) <= MAX_DATAGRAM
        /\ net' = (net \ {m}) \cup {Relayed(m, by, d, k)}
    /\ UNCHANGED <<config, status, socket, channel, packet, buff, task, forwards, given>>

Lose(m) ==
    /\ m \in net
    /\ net' = net \ {m}
    /\ UNCHANGED <<config, status, socket, channel, packet, buff, task, forwards, given>>

(* The next packet; of earlier ones the buffers hold stale cells. *)
EndPacket ==
    /\ packet # Nothing /\ net = {} /\ \A n \in Node : Idle(n)
    /\ packet' = Nothing
    /\ buff' = [n \in Node |-> EmptyBuffer]
    /\ forwards' = 0
    /\ given' = {}
    /\ UNCHANGED <<config, status, socket, channel, task, net>>

Next ==
    \/ \E n \in Node : Launch(n) \/ ReadTun(n) \/ TakeTarget(n)
    \/ \E n \in Node : TryDirect(n) \/ TryThrough(n) \/ TryTcp(n) \/ TryUdp(n)
    \/ \E n \in Node, m \in net : Receive(n, m)
    \/ \E m \in net : ServerRelay(m) \/ Lose(m)
    \/ EndPacket

Spec == Init /\ [][Next]_vars

----------------------------------------------------------------------------
(* What the receiver of m gets to see, the header taken off. *)
Body(m) ==
    IF m.to = Server THEN RelayedData(m)
    ELSE LET d == Decoded(m.to, m) IN Cut(d.cells, d.range.lo, d.range.hi)

(* The first time the bytes of a packet leave a node, by whatever          *)
(* transport, they decrypt to the packet as it was read, on the server and *)
(* again on the node it relays to: the offsets into the key that encode    *)
(* and decode use agree (TcpMsg::read_msg decrypts in two parts), and so   *)
(* do the places where header and packet are put.                          *)
FirstCopyReadable == \A m \in net : m.first => StartsWithPacket(Body(m))

(* As in FirstCopyReadable, but of every copy: of a packet for everyone    *)
(* and of one whose first transport failed.  node/mod.rs encrypts the one  *)
(* buffer again for each of them.                                          *)
EveryCopyReadable == \A m \in net : StartsWithPacket(Body(m))

(* Every cell of the packet, in order, and all of them in plain text or    *)
(* none: as `send` sent it, behind the header and under the key streams of *)
(* earlier attempts.                                                       *)
IsWhole(seq) ==
    /\ packet.len <= Len(seq)
    /\ \A i \in 1 .. packet.len : seq[i].kind = "packet" /\ seq[i].v = i
    /\ \A i, j \in 1 .. packet.len : seq[i].pads = {} <=> seq[j].pads = {}

(* The stale cells behind a packet: a header for every node that took it.  *)
TailIsShort(seq) == Len(seq) <= packet.len + (forwards + 1) * (UDP_MSG_HEADER_LEN + ADDR_LEN)

(* What comes out of a TUN device: nodes do not check the bytes they give  *)
(* to it (that an encrypted copy gets there shows EveryCopyReadable), but  *)
(* it is a whole packet, never cut short or moved, whatever way it took;   *)
(* in plain text if it is a first copy; and though the receiver counts the *)
(* header as part of the packet, and the next node does so again, what     *)
(* follows the packet grows by no more than one header for every node.     *)
GivenIsWhole ==
    \A g \in given :
        IsWhole(g.cells) /\ (g.first => StartsWithPacket(g.cells)) /\ TailIsShort(g.cells)

(* The protocols that a node's modes for single peers name. *)
Specified(n) ==
    LET modes == {config[n].specify[d] : d \in DOMAIN config[n].specify}
    IN  {x \in {"TCP", "UDP"} : \E mode \in modes : In(x, mode.p2p) \/ In(x, mode.relay)}

(* `send` relies on a socket and a channel that `start` makes or does not  *)
(* make long before: it meets one of its unreachable!() only if specify_mode *)
(* names a protocol that the mode of the group does not use.               *)
NoPanic ==
    \A n \in Node : status[n] = "panicked" =>
        \/ "UDP" \in Specified(n) /\ ~IsUseUdp(Mode(n))
        \/ "TCP" \in Specified(n) /\ ~IsUseTcp(Mode(n))
=============================================================================
