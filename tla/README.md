# A verification development of fubuki

fubuki builds a virtual network: nodes register with a public server, get a
virtual IPv4 address, learn of each other through a *node map* the server
publishes, talk to each other directly over UDP where that works, and through
the server (or another node) where it does not. This directory holds TLA+
modules of its core, TLC configurations that check them on small instances, and
TLAPS proofs of the safety of the parts whose state is shared by many tasks.

Paths are those of the repository; `server/mod.rs` is `src/server/mod.rs`, and so on.

## 1. The system

| part | state | operations | hard about it |
|---|---|---|---|
| **group registry** (`server/mod.rs` 37–144, 426–599, 802–936) | address pool, directory `mapping`, published node map (a `watch` channel), nonce pool, entries of the flow control | `tcp_handler`, `Tunnel::init`, `GroupHandle::join`, `sync`, `Drop`, and the UDP task that stores public addresses | every piece has a lock of its own; a tunnel acquires them one after the other and gives them back in another order, without any lock that spans them |
| **UDP status of a node** (`server/mod.rs` 171–324, `HeartbeatCache` in `common/net.rs`) | `udp_status`, `wan_udp_addr`, the heartbeat cache | a heartbeat task, a receiver | replies that are lost, late, doubled; an address that changes |
| **flow control** (`common/net.rs` 351–443) | per address: bytes and the second they were counted in | `push`, `add_address`, `remove_address` | lock-free; the clock is read apart from the update |
| **relaying and tunnel** (`server/mod.rs` 325–409, 601–841) | the channels between tunnels | UDP and TCP relay, TCP heartbeats, UploadPeers/FetchPeers | full channels, a half-open connection |
| **node session** (`node/mod.rs` 1124–1226, 1318–1836) | `tun_addr`, the interface's address and range, `server_is_connected` | `register`, the reconnect loop, the tasks of a session | time-outs, addresses taken over, restarted servers, a task that outlives its session |
| **link to a peer** (`node/mod.rs` 775–1122, 1553–1602) | per peer: status, heartbeat cache, the addresses of the node map | heartbeat task, receiver, node maps | three tasks and locks that are given up between a check and its consequence |
| **link to the server** (`node/mod.rs` 807–838, 1031–1062) | `server_udp_status`, heartbeat cache | heartbeat task, receiver | the same cache, simpler |
| **packet routing** (`node/mod.rs` 272–773, `routing_table/`) | routing table, next-hop cache, peers' costs | `find_route`, `find_next_hop`, `send`, `send_packet` | stale caches, several hops, transports that are not configured |
| **allocator** (`common/allocator.rs`) | the shared buffer | `alloc`, `split` | a lock-free cut and a replacement race |
| **encoding and cipher** (`common/net.rs` 765–1230, `common/cipher.rs`, `send` in `node/mod.rs`) | a buffer per task, its header room and stale bytes; the offset into the key | `data_encode`, `relay_encode`, `decode`, `read_msg`, `send_msg` | encrypted where it lies, decrypted in two parts, sent on from the buffer it came in |
| **host set-up** (`node/mod.rs` 1227–1316, 1440–1510, `routing_table/`, `nat/`, `tun/`, `node/sys_route.rs`) | routing table, TUN address, NAT rules, system routes, `is_add_nat`, `sys_route_is_sync` | `update_tun_addr` at start and with every new address, removal at the end | several groups change the same tables; any command may fail; the process may be told to end in between |
| **configuration and start** (`lib.rs` 279–431, `start` in `node/mod.rs`) | `mode`, `specify_mode` of a group, its sockets and channels | checked once, relied upon by `send` | a mode for one peer may name what start has not made |
| cross NAT, FFI, APIs, web page | | | see §7 |

How they interact: a tunnel and the node's `tcp_handler` talk over TCP
(`GetIdleVirtualAddr`, `Register`, node maps, heartbeats, relayed packets). The
registry's directory is read by the server's UDP task, whose heartbeats decide
whether packets are relayed to a node over UDP or TCP. Node maps create and
replace the entries the node's link to a peer works on; the status of that
entry, and that of the link to the server, choose the transport of each packet.

What makes each part correct is listed with its runs in §4; every place where
it could go wrong is in `PROJECT.json` under `hazards`, with the properties
that would show it.

## 2. The modules

| module | models | the code's state → variables |
|---|---|---|
| `AddressLease` | what a group promises about addresses: granted to one tunnel, listed, unlisted, returned | `holder`, `listed` |
| `GroupRegistry` | the registry in detail, any number of tunnels and the UDP task; one action per lock section | `AddressPool` → `used`, `mapping` → `mapping`, the value in the `watch` → `published`, which tunnels it is news to → `unseen`, what each has last sent its node → `sent`, the flow pool's entries → `flow`, `NoncePool` → `nonces`, the directory's lock → `lock`; each tunnel's place in the code → `pc`, its Register message → `msg`, `Tunnel.register` → `register` |
| `HeartbeatCache` | the cache both ends keep of a link, as operators on a record | the fields of `HeartbeatCache` |
| `ServerLink` | server's heartbeat task and receiver for one node, the network, the NAT of the node, a new registration | `udp_status`, `wan_udp_addr`, `udp_heartbeat_cache`, messages under way |
| `FlowControl` | `push` in two steps (clock, update), add and remove | `pool` → entries (second, bytes), the clock, pushes in progress; two histories, what was accepted of each second → `spent` and how often an overtaken push has set an entry back → `setBack` |
| `Allocator` | `alloc` and `split`, each load and exchange a step | `BUFFER`, `start`, the pieces handed out |
| `PeerLink` | one peer's entry at a node: heartbeat task (load, check, send), receivers (reply, store), node maps, the connection to the server | `udp_status` → `status`, `hc`, the addresses of the node map and the last one heard from → `wan`, `peerAddr`, `server_is_connected`; the addresses behind the tunnel itself → `virtual` |
| `NodeSession` | many nodes' `register` and reconnect loops against the tunnels of a group, with crashes, broken connections and a restarted server | `tun_addr` → `tun`, interface → `iface`, the lock of the TUN channel → `stuck`; `tunnel`, `lease`, `range` of the server |
| `PacketRouting` | one packet at a time through a group: `send_packet`, `send`, `find_next_hop`, the server's relay, the reports and maps the next hops come from | `udp_status` of the peers → `up`, of the nodes at the server → `reached`, `server_is_connected` → `connected`, full channels → `full`, `peers_status` → `uploaded`, `peers_map` → `peers`, `next_route` → `cache`; the packet's copies → `flying`, the TUN devices → `received` |
| `Transport` | the bytes of one packet at a time: read from the TUN, tried by one transport after the other, encoded and encrypted where it lies, relayed, forwarded, decoded | the buffer of each task → `buff` (cells of two bytes, with the key stream they are XORed with), what `send` has left to try → `task`, `config`, `socket`, `channel`; datagrams and frames → `net`, what was written to TUN devices → `given` |
| `NodeHost` | a node with several groups: `update_tun_addr` command by command, joining, leaving, a failing command, the end of the process | `ArrayRoutingTable` → `table`, `HashRoutingTable` → `hash`, the interface → `addr`, `cidr`; the host → `ips`, `nat`, `routes`; `is_add_nat` → `isAddNat`, `sys_route_is_sync` → `synced` |
| `…Proofs` | theorems about the module of that name (`GroupRegistry`, `ServerLink`, `PeerLink`, `NodeSession`, `PacketRouting`, `Transport`, `NodeHost`) | |
| `CommonProofs` | theorems about `FlowControl` and `Allocator`, the shared parts of `common/`; it extends both, so `Allocator` says `AllocInit`, `AllocSpec`, `AllocTypeOK` | |
| `MC…` | constants for TLC | |

`NodeSession` has the server's side of `GroupRegistry` in one step per request.
That is what `GroupRegistry => AddressLease` justifies: seen from outside, an
address is granted and returned atomically. `ServerLink` and `PeerLink` both use
`HeartbeatCache`. The nodes' entries in `ServerLink` and `PeerLink` are replaced
by the registrations `NodeSession` and `GroupRegistry` produce; that is their
`Rejoin`, and `NodeMapWith` and `NodeMapWithout`. `PacketRouting` takes from
`PeerLink` and `ServerLink` only the statuses they arrive at, which change at any
moment as far as it is concerned, and from `NodeSession` whether a node is served.
`Transport` looks at the hops of `PacketRouting` down to the bytes: there a packet
is a record that every transport carries whole, here that is what is to be shown.
`NodeHost` is what `NodeSession` does to the host when it changes `iface`, in as
many steps as the code has commands.

Operators whose comment says *Mutant* are not part of any specification. Each is
a plausible mistake in the definition after it, and `PROJECT.json` names the
property that finds it.

## 3. Choices of abstraction

* A step is what a task does between two points at which another may act: a
  lock section, an atomic operation, an `await`. So the two halves of
  `FlowControl::push`, the receiver's unlock and the store that follows it, or
  the four parts of `Tunnel::drop` are separate actions.
* Data are model values: packets have a size or nothing at all, socket addresses are
  names, messages are records. Only `Transport` looks at bytes: a cell of two bytes
  is what was written there with the set of key stream pieces it has been XORed
  with, and XORing twice cancels. A group without a key uses a cipher
  that does nothing (`Keyed = FALSE`).
* `NodeHost` has addresses of a few bits and networks as prefixes of them, so
  overlapping and nested networks, the longest prefix and `0.0.0.0/0` mean what
  they do in the code.
* The network is a set of messages under way, taken in any order; losing is an
  action, doubling a choice of the reception. TCP connections deliver in order
  and break at either end, which the other end notices later.
* Counters wrap where the code's do (`seq`), or are bounded by a constant whose
  comment says *bound*.
* Undefined order, such as the iteration of a hash map or a spurious failure of
  `compare_exchange_weak`, is a choice.

## 4. The runs

### Passing

| run | instance | shows |
|---|---|---|
| `registry` | 2 tunnels and the UDP task, hosts 2 and 3 and the network's and broadcast addresses 1 and 4, one nonce, fair tasks | an address has one owner (`OneOwner`), who waits for the watch has sent the newest map (`NoLostUpdate`), the address is given back last (`ReleasedLast`), refinement of the lease (`ImplementsLease`); tunnels send the newest map (`NodesConverge`), drops finish (`DropCompletes`), registrations are answered (`RegisterAnswered`) |
| `server_link` | 2 public addresses, 2 sessions, a network that loses, reorders and doubles, sequence numbers that wrap | a node is Available only at an address that answered (`AvailableIsAlive`), a dead node is found dead (`DeadNodeDetected`) and a good link good (`GoodLinkRecovers`) |
| `flow_control` | 2 pushers, nested rules with limits 1 and 2, 3 addresses, packets of length 1 and 3, 3 seconds, each of which may end anywhere in a push | of one second no more than the limit is accepted, and one limit more for each push that a push of a later second has overtaken (`RateLimited`); nothing is refused that fits into the second it has read (`RejectIsNeeded`) |
| `allocator` | 3 tasks, a buffer of a few bytes, spurious failures | pieces are disjoint (`NoOverlap`), calls return (`AllocReturns`) |
| `peer_link` | 1 peer with a LAN and a public address, the first of them perhaps behind the tunnel itself, 2 receiving tasks, a network that may settle | an Available peer was pinged, so the loss rate can be computed (`AvailableWasPinged`), given up only after lost rounds (`DownAfterLostRounds`); a path that works is found (`DirectPathIsFound`), a dead peer is given up (`DeadPeerDetected`) |
| `session` | 2 nodes, both automatic or one with a fixed address, 3 hosts in 2 overlapping ranges, 2 connections, 1 restart of the server, one node whose writer may hang | a served node has the very address and range it is served under (`ServedUnderOwnAddress`), no address stays with a node that is not there (`LeasesAreUsed`), automatic nodes find an address and stay (`NodesRejoin`) |
| `routing` | 4 nodes: a reaches b directly, by c, or by c and d; 2 nodes with `auto_route_selection`; 2 links and the connections of b may change, in all twice; packets to b, to everybody, and to a network behind b | who a packet is for is given it once, and nobody else is (`GivenOnce`), no packet circles for ever (`NoPacketCirclesForEver`), and when the links stay as they are no packet is dropped on a way that is open (`NodesGetTheirs`) |
| `transport` | a key of 3 cells and 2 nonces; 3 nodes that use UDP only, or a sender and a receiver with 6 pairs of configurations (UDP, TCP, both in either order, `specify_mode`) next to one that is not accepted; packets for one node or for everyone, forwarded once | the bytes of a packet that leave a node first can be read by whom they reach (`FirstCopyReadable`); whatever a TUN device is given, readable or not, is a whole packet, a first copy in plain text, with stale cells behind it that are no longer than a header for each node that had it (`GivenIsWhole`); `send` meets no `unreachable!()` unless `specify_mode` names a protocol the group does not use (`NoPanic`) |
| `host` | 2 groups, one of them with an automatic address and 3 leases in 2 ranges (two differ in the address only and have a range written with host bits), two offered networks for one and one for the other, a subnet route and a default route | while a group is connected everything on the host belongs to its present address (`ConnectedIsConsistent`), its range and the networks it offers lead to it, nothing of an earlier address is left in the table and no subnet route is lost (`NetworksServed`), the hash table finds what the array finds among the networks written without host bits (`TablesAgree`), no NAT rule is left (`NothingLeftBehind`) |

Every run has its module's `TypeOK` (`AllocTypeOK`) besides. It says more than types
where what a variable may hold depends on another: in `host`, that a group registers and
sets up only what its server assigned; in the links, which numbers may be under way.

### Violations

Each states what the documentation says, and TLC finds a behaviour of the code
that contradicts it.

| run | the documentation | the code |
|---|---|---|
| `server_link_stale` | relaying prefers UDP and has TCP to fall back on (`cfg-example/README.md` 87) | `dst_addr` is set only when the status was Unavailable (`server/mod.rs` 318), but pings go to, and are answered from, the new address |
| `session_range` | an automatic address comes from the pool (`cfg-example/README.md` 83) | only `IpAlreadyInUse` gives an automatic address up (`node/mod.rs` 1201) |
| `transport_copies` | UDP is tried first and TCP is the alternative (`cfg-example/README.md` 87) | `send` encrypts in the buffer it was given and never decrypts it again (`node/mod.rs` 449), so the transport tried next, or the next copy of a broadcast (669), is made from ciphertext |

`FirstCopyReadable` is the part of `EveryCopyReadable` that the code keeps.

### Limits of the code that the properties leave out

Four properties are as strong as the code allows; what they exclude can be seen
by changing one conjunct.

* `RateLimited` without `setBack`: `push` reads the clock (`common/net.rs` 393)
  before it updates (404). If a second ends in between, even for a moment, a push of
  the new second may overtake that of the old one, which then sets the entry back to
  its own second: the entry forgets what it has counted, of both seconds, and more
  than the limit passes. What the property says is how much more: one limit for
  each push that was overtaken. The documented limit per second
  (`cfg-example/README.md` 142) is therefore not kept to the byte.
* `TablesAgree` without truncation: `array.rs` finds a network with host bits, such
  as 10.0.0.5/24, by `contains`; `hash.rs` looks up 10.0.0.0/24 and does not find it.
  Nothing truncates the networks of a configuration (`ips`, `allowed_ips`,
  `address_range`), so with the feature `hash-routing-table` such an item is never used.
* `DeadPeerDetected` without `wan # NoAddr`: a peer that is listed without a
  public address is skipped (`node/mod.rs` 860) before it could be given up, so
  its status stays Available.
* `NodesGetTheirs` of packets for a network: the gateway the sender has chosen is
  not in the message, so a node that forwards it looks the network up in its own
  table (`node/mod.rs` 590) and may have no route.

`NoPanic` has its exception in its statement: `specify_mode` is not checked
against `mode`.

### Bounds, and why they are enough

Two tunnels and the UDP task already give every pair of lock sections in every order;
the theorems of §6 hold for any number. Three tasks are needed in the allocator, so that
an exchange can fail because of one task while another finds the buffer full. A link is
given up after 2 lost rounds, the least number at which "consecutively" differs from
"ever", and taken up after 2 replies by the server and 1 by a peer. The sequence numbers
wrap within a run, so the wrap is exercised; datagrams that are a whole turn of the
numbers late are left out, as in the code a turn takes 2^32 heartbeats. Three seconds
let a push be overtaken by a push of the next second or of the one after; packets of
length 3 are longer than every limit. In `NodeSession` two nodes and three hosts let one
node take the other's address, and leave one free for it; overlapping ranges make an old
address valid or not in the new one. In `PacketRouting` four nodes are the least in
which a packet may pass two others, and two changes the least that make a and c each
send a packet to b through the other one: a has not reported that its own link is down,
c has not fetched that report. Packets to b and to the network may not be relayed by the
server when a is to send them (`specify_mode`), so the dearer ways over nodes are used
too, and c's packets may. With five nodes, ties between ways of no cost could be broken
so that packets circle for good (§6 says why every link of such a circle costs nothing);
how the `pathfinding` crate breaks them is not known to the model, and in four nodes
there are no such ties.

In `Transport` a key of 3 cells is shorter than a message and does not divide the offset
at which a body is decrypted, so a wrong offset is a wrong piece of the key; two nonces
tell a server's copy from a node's; one forwarding is enough for stale bytes behind a
packet to be sent on and to grow (the bound of `GivenIsWhole` is reached), and
`MAX_DATAGRAM` and `SIZE` leave room for that; a relayed packet whose new header makes
it longer than a datagram may be is lost at the server, as the socket refuses it.
Buffers are emptied between packets, as cells of an older packet behind a newer one are
stale like any other. In `NodeHost` two groups are the least that share a table; the
leases change address with and without the range; two offered networks let a command
fail between them. The ranges of group 1 include one with host bits, which the array
finds and the hash table does not. No two networks of the instance are equal as they are
written (`NetworksDiffer`): of two groups that offer the same one, the last to change
its address has it, and the tables differ in what they keep.

`CHECK_DEADLOCK FALSE` is said where the system may come to rest: `NodeSession`
has nothing to do when all are established, since heartbeats are not steps of it;
in `Transport` every node may have panicked or have been refused; in `NodeHost`
the process has ended.

## 5. Fairness

Tasks are scheduled by a runtime that runs every ready task, so their steps are
weakly fair; a mutex of `parking_lot` is eventually fair, so a step that waits
for a lock others keep taking is strongly fair. Nothing is assumed of the environment
(losses, crashes, rebinding, restarts) except where a property has it as antecedent: *if*
the network settles, or trouble ends, *then* the promise is kept. For those
properties messages sent again and again arrive if the link is good. In
`NodeSession` a broken connection is noticed by heartbeats and a hanging write
fails when TCP gives up; `Connect` is strongly fair because two nodes may
compete for a free connection number. In `PacketRouting` the timers of reports,
fetches and cached hops are fair, as is the reading of what has arrived; nobody
has to send a packet, and links calm down because their changes and the lost
packets are bounded. `Transport` and `NodeHost` state no fairness, as they promise
nothing but safety: a packet may be lost at any place, and a group may never join.

## 6. The proofs

All proofs are for any number of tunnels, pushers, tasks, nodes or groups and any
addresses, limits and sizes, under the named `ASSUME`s of the modules, which TLC
evaluates in the runs. Each goes by an inductive invariant (`IInv`), as no
property is inductive as it stands.

* `GroupRegistryProofs`: `NoSharedAddress`, `NothingLost`, `ReleasedIsClean`,
  `UnlistedByOwner`, `RegisteredServed` and others. An address in the pool means
  nothing until one knows where its
  owner's tunnel stands. The inductive invariant says, for each location of a
  tunnel, what it owns of the pool, of the directory, of the published map and
  of the flow entries, that locations within a lock section exclude each other,
  and that a tunnel which has nothing unseen has the published map to send or
  has sent it. Each action has its own step; the safety invariants follow from
  the invariant, the action properties from one step of it, and `Implements`
  maps each step to a step of `AddressLease` or to a stutter.
* `CommonProofs` about `FlowControl`: `LimitHolds`, `AccountIsExact` and
  `RejectedOnlyWhenFull`, with a clock that may tick at any point of a push. The
  invariant relates what was accepted of each second to what the entry counts now
  (`SpentIsBounded`): of the second the entry is in, one limit for each time it was
  set back over it and what it counts; of earlier seconds one limit more; of later
  ones none more. One update of the entry keeps that (`UpdateKeepsBound`), wherever
  the second of the push lies. As the entry never counts more than was accepted
  (`EntryIsAccount`), a push that is refused would have gone beyond the limit of the
  second it has read.
* `CommonProofs` about `Allocator`: `PiecesAreDisjoint` and `NothingIsWasted`, by the
  invariant that a task about to exchange has loaded a start after which its
  piece fits (`ExchangeFits`) and that pieces tile the bytes before `start`.
* `ServerLinkProofs` and `PeerLinkProofs`: `AvailableAlive` and `PingedBeforeAvailable`,
  and in both `GivenUpAfterLoss`, an action property that relates a counter of the code
  to the history of rounds. The invariant is that relation (`LossIsCounted`) with what
  is true of an entry that was never pinged: it is as new, and nothing under way carries
  the number 0 it starts with (`NewIsUnasked`, `NewIsIdle`; the first ping has number 1,
  and that datagrams do not outlive a turn of the numbers is said where an entry is
  replaced). In `PeerLink` no invariant is needed about the status that was loaded
  before the lock: the step that stores Unavailable has the lock and the counter.
  `LinkIsTyped` adds a bound on the numbers that travel.
* `NodeSessionProofs`: `ServedAsRegistered`. The node's device, its request and
  the server's table are related through the connection: a connection has one
  node at its end (`OneEnd`); an address that a node registers again is on its
  device (`DeviceFollows`); and the message on the connection and the state of
  its tunnel fit to where the node is (`Fits`). In particular a granted
  registration is either on its way with the range it was granted in, or the
  node has compared that range with the one it asked for. `SessionIsTyped` says
  the same of the types of messages, leases and tunnels.
* `PacketRoutingProofs`: `RoutingIsTyped` and `PacketsAreGivenOnce`, with what they need
  to know of next hops, for any nodes and links. The cost of a path is a sum in no
  order, so the lemmas start there: whichever summand is taken away, the rest has the
  rest of the sum (`SumTakes`), hence the cost of a path is a number that grows with
  each of its links (`CostIs`, `PrefixCost`). Of the cheapest paths one of least length
  has no detour, so where there is a path there is a next hop (`HopExists`);
  `HopIsFound` says that of every map a node can have. It is why a cached next hop is a
  neighbour, never the node itself (`RoutingIsTyped`); for that, whoever is in a map
  must be the end of a link (`MapsAreMaps`). `PacketsAreGivenOnce` goes by the invariant
  that a packet has one copy or has been received once, never both, and a broadcast one
  copy for each node that has not yet received it (`CopiesAreOne`). That needs nothing
  of the maps: `send`, the server's relay and the receivers pass on what they have at
  most once (`SentIsOne`, `FirstIsOne`). So no node is given a packet twice, and a
  packet for one node reaches one at most, whatever the nodes believe
  (`NoneIsGivenTwice`). *Which* node that is has a hypothesis about the configuration:
  `GatewaysAgree`, that whoever sends packets for a network to a gateway sends them to
  the node that offers it. The code does not check it. The gateway is not in the packet
  (`node/mod.rs` 590), so a node on the way that offers the same network takes the
  packet for its own, and `GivenOnce` is violated; `MCPacketRouting` assumes it.
  `CirclesCostNothing`: as long as nodes look at the same map, the rest of the way gets
  cheaper with each hop by what the link costs (`HopApproaches`), so a packet that comes
  to a node twice has come over links that all cost nothing. That is no rare case: as
  latency counts in hundreds of seconds (`node/mod.rs` 294), most links cost nothing,
  and five nodes can break ties so that a packet circles over them. Maps of different
  ages let two nodes each prefer the other, for a while (`NoPacketCirclesForEver`, which
  is liveness).
* `TransportProofs`, in two layers. `PanicsNeedSpecifyMode` goes by the invariant that a
  node that is up has what its mode asks for and that whatever `send` still has to
  try is named by a mode of the node. `GivenPacketsAreWhole`, `FirstCopiesAreReadable`
  and `TypesAreKept` go by an invariant about bytes (`BytesInv`), on top of lemmas
  without a state. The cipher: `FrameIsRead` and `DatagramIsRead` say that what is
  encrypted at one place and decrypted at another, in one part or in two, is what
  was written, for any length of key and message. The packet: `Carries(f, at, len, P)`
  says that `f` holds the packet from `at` on under the pads `P`; encrypting toggles a
  pad (`EncryptCarries`), writing a header in front leaves it (`HeaderInFront`), and a
  copy has it where the copied piece had it. A buffer is as full as it is long
  (`BuffersHoldCells`); where a task still has something to send, its buffer has the
  packet at the place the task knows, under some pads (`TasksHoldPacket`); and a message
  under way is `Well`: decoded, it has the packet behind its header, in plain text if
  it is a first copy (`NetHoldsPacket`), so the receiver's buffer has it again (`Lies`).
  The pads of all cells of a packet are those of its first cell, each with its own
  offset, so a packet comes out of a TUN device all in plain text or all encrypted.
  That it may be encrypted is in the code: a node checks no more of the bytes than
  that there is an address in them, so ciphertext is looked up, forwarded or, with
  `allow_packet_not_in_rules_send_to_kernel`, given to the kernel (`Destinations`).
  How long it is goes by a second invariant (`SizesInv`): a message is no longer than
  the packet, its header, and what the nodes it came through have counted twice; of
  each step it says what it adds to that (`ReceivedSize`, `RelayedSize`). Of the constants
  this takes no more than that a datagram leaves room for the headers that are
  written in front of it when it is sent on.
* `NodeHostProofs`: four invariants, each on top of ones before. `RulesAreRemoved`: as
  long as no command has failed, behind every NAT rule is a group that knows of it and
  has not ended (`RulesAreOwned`); the range it knows is that of the interface except
  between `store_cidr` and `del_nat`, where it is the old one of the update.
  `HostIsTyped`: what a group has of lease, update and interface follows from where its
  task is (`InterfaceFollows`, `SettledFollows`), whatever other groups do.
  `ConsistentWhileConnected`: the device has the address and the NAT table exactly the
  rules that the task of the group believes in (`OnDevice`, `NatFollows`). These two are
  shared by all groups, and the theorem has the hypothesis `GroupsAreApart`: no address
  is assigned to two groups and no network offered by two. The code does not check it,
  and without it the promise is broken (one group deletes the address, or is counted the
  rules, of another); `MCNodeHost` has it as an assumption, so it holds in the instance
  that is checked. `TablesAlwaysAgree` and `NetworksAreServed`: both tables have exactly
  the items of one lease per group (`Items`), which is that of the interface, or the new
  one from `UpdateTable` until the interface has it (`TableFollows`). Under that are
  lemmas without a state, for any sequence of items: where `Add` inserts (`PlaceIs`);
  what `Add`, `Replace` and their counterparts for the hash table make of the set of
  items (`ArrayAdds`, `ArrayReplaces`, `HashAdds`, `HashReplaces`), if a table is sorted
  by length and has no item twice (`ArrayIs`); that both then find the item with the
  longest network that has the address, the array among all its items and the hash table
  among those without host bits (`ArrayFinds`, `FindsAgree`). `TablesFindTheSame` has
  the hypothesis that no network is written with host bits, and then they find the same;
  `NetworksAreServed` is about the array, which is what is built by default. A change of
  address is many replacements, so `StageGoesOn` and `StageIsApart` follow the items
  from one to the next. The folds are unrolled by induction over the length: the
  least-number principle follows from `WFMin` of the library, which takes no operator
  (`LeastNumber`, `Induction`), and a fold exists as the function of the sets of indices
  it is defined by (`FoldExists`). The other hypotheses are about the configuration, the
  code checks neither, and `MCNodeHost` assumes both. `NetworksDiffer`: no two networks
  in a table are one (with two the promise is broken: of equal networks the array keeps
  both items, the hash table one). `NetworksAreApart`: the range of a group has its
  address, and it and what the group offers overlap with nothing but shorter subnet
  routes, such as the default route.

Only model-checked is liveness, which is beyond TLAPS: `NodesConverge`, `DropCompletes`,
`RegisterAnswered`, `DeadNodeDetected`, `GoodLinkRecovers`, `AllocReturns`,
`DirectPathIsFound`, `DeadPeerDetected`, `LeasesAreUsed`, `NodesRejoin`,
`NoPacketCirclesForEver` and `NodesGetTheirs`. Every invariant and every action
property of a passing run is the statement of a theorem, and so is `ImplementsLease`.

## 7. Not modelled, and why

* Bytes of the messages other than data and relay messages (bincode), the parsing of
  addresses, and the arithmetic that makes a key of a nonce: functions of their inputs.
* The hosts file: threads write it, whose order the code leaves open.
* Routes of the system at the end of the process: they go with the TUN device. Nor
  what the kernel does to them when the address of the device is deleted while
  `sys_route_is_sync` stays true: that is outside the code.
* TUN devices and platforms other than Linux, external routing tables, FFI and
  packet hooks: wrappers around the operating system or a host program.
* Cross NAT: user-space NAT over a third-party network stack, behind a feature
  that is off by default.
* Configuration except for the modes: defaults, files, the command line; what it
  admits is in the assumptions.
* APIs and the web page: read only.
* TCP heartbeats: `NodeSession` has their outcome (one end finds the other silent) and
  not their counters.
* Which errors of a socket end the node: `Transport` has the failed node as an
  outcome of every UDP send; the errors that are suppressed differ by platform.

## 8. Plan

1. *(done)* `GroupRegistry` with `AddressLease`, `HeartbeatCache`, `ServerLink`,
   `FlowControl`, `Allocator`, `PeerLink`, `NodeSession`, `PacketRouting`,
   `Transport` with the encodings and modes, `NodeHost` with the two routing tables.
2. *(done)* Proofs of the safety of all of them, for any values of the constants.
3. The node's own link to the server (a second use of `HeartbeatCache`), TCP
   heartbeats within `NodeSession`.
4. `PacketRouting` with a sender that does not forward, and so never reports its
   own links; the mapping table of cross NAT.
