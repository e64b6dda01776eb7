------------------------------- MODULE NodeHost -------------------------------
(***************************************************************************)
(* What a node sets up on its host for each of its groups, and takes down  *)
(* again (node/mod.rs: start, update_tun_addr, tcp_handler; routing_table, *)
(* nat, tun, sys_route): items of the routing table, the address of the    *)
(* TUN device, NAT rules for the networks it offers, routes of the system. *)
(* One task per group does so when the group starts, whenever its          *)
(* automatic address has changed, and when the process ends.  Every        *)
(* command it runs may fail.                                               *)
(***************************************************************************)
EXTENDS Integers, Sequences, SequencesExt, FiniteSetsExt

CONSTANTS
    Group,          \* the groups of the node
    Manual,         \* group -> the lease of its configuration, or Nothing
    Leases,         \* group -> what its server assigns: a set of [addr, cidr]
    AllowedIps,     \* group -> sequence of networks it offers
    Ips,            \* sequence of [group, gateway, cidr]: the subnet routes
    BITS,           \* bits of an address
    Nothing

UNSPECIFIED == 0
NoLease == [addr |-> UNSPECIFIED, cidr |-> [net |-> 0, len |-> 0]]
Address == 0 .. 2^BITS - 1
Network == [net : Address, len : 0 .. BITS]
Item == [cidr : Network, gateway : Address, if : Group,
         kind : {"IpsRoute", "VirtualRange", "AllowedIpsRoute"}]

ASSUME NodeHostAssumption ==
    /\ Group \subseteq Nat
    /\ BITS \in Nat /\ UNSPECIFIED \in Address
    /\ DOMAIN Manual = Group
    /\ \A g \in Group : Manual[g] \in Leases[g] \cup {Nothing}
    /\ \A g \in Group : Leases[g] \subseteq [addr : Address \ {UNSPECIFIED}, cidr : Network]
    /\ \A g \in Group : AllowedIps[g] \in Seq(Network)
    /\ Ips \in Seq([group : Group, gateway : Address, cidr : Network])
    /\ Nothing \notin [addr : Address, cidr : Network] \cup Item

(* What the networks of the groups have to be for the device and the NAT   *)
(* table, which the groups share, not to mix them up: no address is        *)
(* assigned to two groups, no network offered by two.                      *)
GroupsAreApart ==
    \A g, h \in Group : g # h =>
        /\ \A l \in Leases[g], k \in Leases[h] : l.addr # k.addr
        /\ \A j \in DOMAIN AllowedIps[g], k \in DOMAIN AllowedIps[h] :
              AllowedIps[g][j] # AllowedIps[h][k]

VARIABLES
    pc,         \* group -> what its task does next
    lease,      \* group -> the address it registers (tun_addr), or Nothing
    update,     \* group -> [old, new]: the change of address under way
    table,      \* the routing table, as array.rs keeps it
    hash,       \* the same table, as hash.rs keeps it
    addr,       \* group -> the address of the interface ...
    cidr,       \* ... and its range
    connected,  \* group -> server_is_connected
    ips,        \* the addresses of the TUN device
    nat,        \* the NAT rules: <<network offered, range of the group>>
    isAddNat,   \* group -> is_add_nat
    routes,     \* the routes of the system, as indices into Ips
    synced,     \* group -> sys_route_is_sync
    ending,     \* is the process ending?
    failed      \* history: a command has failed

tables == <<table, hash>>
host == <<ips, nat, isAddNat, routes, synced>>
vars == <<pc, lease, update, tables, addr, cidr, connected, host, ending, failed>>

----------------------------------------------------------------------------
(* Routing tables *)

(* Ipv4Net::trunc: the network of length len that has a, without host bits. *)
Trunc(a, len) ==
    LET size == 2^(BITS - len) IN [net |-> (a \div size) * size, len |-> len]

(* Ipv4Net::contains, of a network that may be written with host bits. *)
InNet(c, a) == Trunc(a, c.len) = Trunc(c.net, c.len)

NoHostBits(c) == c = Trunc(c.net, c.len)

(* Mutant: an item goes to the front. *)
AddToFront(t, i) == <<i>> \o t

(* ArrayRoutingTable: longer prefixes first; among equals, the oldest. *)
Add(t, i) == InsertAt(t, 1 + Cardinality({j \in DOMAIN t : t[j].cidr.len >= i.cidr.len}), i)

At(t, Holds(_)) == LET J == {j \in DOMAIN t : Holds(t[j])} IN IF J = {} THEN 0 ELSE Min(J)

Find(t, a) ==
    LET j == At(t, LAMBDA i : InNet(i.cidr, a)) IN IF j = 0 THEN Nothing ELSE t[j]

(* Mutant: whatever has the network goes. *)
ReplaceAnyKind(t, r) ==
    LET j == At(t, LAMBDA i : i.cidr = r.cidr)
    IN  Add(IF j = 0 THEN t ELSE RemoveAt(t, j), r.item)

(* update_route: the item that has the network r.cidr goes if it is of the *)
(* kind of the new one, which is added.                                    *)
Replace(t, r) ==
    LET j == At(t, LAMBDA i : i.cidr = r.cidr)
        without == IF j = 0 THEN t ELSE RemoveAt(t, j)
        kept == IF j # 0 /\ t[j].kind # r.item.kind THEN Add(without, t[j]) ELSE without
    IN  Add(kept, r.item)

(* HashRoutingTable: one item per network. *)
HashAdd(h, i) == [c \in DOMAIN h \cup {i.cidr} |-> IF c = i.cidr THEN i ELSE h[c]]

(* Only networks without host bits are looked up. *)
HashFind(h, a) ==
    LET L == {l \in 0 .. BITS : Trunc(a, l) \in DOMAIN h}
    IN  IF L = {} THEN Nothing ELSE h[Trunc(a, Max(L))]

HashReplace(h, r) ==
    LET without == [c \in DOMAIN h \ {r.cidr} |-> h[c]]
        kept == IF r.cidr \in DOMAIN h /\ h[r.cidr].kind # r.item.kind THEN h ELSE without
    IN  HashAdd(kept, r.item)

(* find_route: gateways are followed until one is on link. *)
FindRoute(t, a) ==
    LET Hop[n \in 0 .. 5] == [d \in Address |->
            LET i == Find(t, d)
            IN  CASE i = Nothing -> Nothing
                  [] i # Nothing /\ i.gateway = UNSPECIFIED -> [to |-> d, if |-> i.if]
                  [] OTHER -> IF n = 0 THEN Nothing ELSE Hop[n - 1][i.gateway]]
    IN  Hop[5][a]

IpsItem(k) ==
    [cidr |-> Ips[k].cidr, gateway |-> Ips[k].gateway, if |-> Ips[k].group, kind |-> "IpsRoute"]

RangeItem(g, c) == [cidr |-> c, gateway |-> UNSPECIFIED, if |-> g, kind |-> "VirtualRange"]

OfferItem(g, c, a) == [cidr |-> c, gateway |-> a, if |-> g, kind |-> "AllowedIpsRoute"]

(* What update_tun_addr replaces: the range of the group; and, as they     *)
(* lead to the node's own address, the networks it offers.                 *)
Replacements(g, old, new) ==
    LET range == [cidr |-> old.cidr, item |-> RangeItem(g, new.cidr)]
        offer(c) == [cidr |-> c, item |-> OfferItem(g, c, new.addr)]
    IN  (IF new.cidr # old.cidr THEN <<range>> ELSE <<>>)
        \o (IF new.addr # old.addr
            THEN [k \in DOMAIN AllowedIps[g] |-> offer(AllowedIps[g][k])] ELSE <<>>)

(* The items that may be in the table, which of them stand for the same    *)
(* thing at different times, and which networks have an address in common. *)
AnyItem ==
    {i \in Item :
        \/ \E k \in DOMAIN Ips : i = IpsItem(k)
        \/ \E g \in Group : \E l \in Leases[g] :
              \/ i = RangeItem(g, l.cidr)
              \/ \E k \in DOMAIN AllowedIps[g] : i = OfferItem(g, AllowedIps[g][k], l.addr)}

SameThing(i, j) ==
    i.kind = j.kind /\ i.if = j.if /\ (i.kind = "VirtualRange" \/ i.cidr = j.cidr)

Meet(c, d) == \E a \in Address : InNet(c, a) /\ InNet(d, a)

(* No two networks are one: of two items with one network, only one can be *)
(* found, and the two tables differ in which.  Nor is the range of a group *)
(* that of a group without address, which is what is replaced at first.    *)
NetworksDiffer ==
    /\ \A j, k \in DOMAIN Ips : Ips[j].cidr = Ips[k].cidr => j = k
    /\ \A i, j \in AnyItem : i.cidr = j.cidr => SameThing(i, j)
    /\ \A g \in Group : \A l \in Leases[g] : l.cidr # NoLease.cidr

(* The range of a group has its address; and it, and what the group        *)
(* offers, meets no network of another item but shorter ones of subnet     *)
(* routes.                                                                 *)
NetworksAreApart ==
    /\ \A g \in Group : \A l \in Leases[g] : InNet(l.cidr, l.addr)
    /\ \A i, j \in AnyItem : i.kind # "IpsRoute" /\ Meet(i.cidr, j.cidr) =>
          SameThing(i, j) \/ (j.kind = "IpsRoute" /\ j.cidr.len < i.cidr.len)

----------------------------------------------------------------------------
Rules(g, c) == {<<AllowedIps[g][k], c>> : k \in DOMAIN AllowedIps[g]}
FirstRules(g, c, k) == {<<AllowedIps[g][j], c>> : j \in 1 .. k}

Init ==
    /\ pc = [g \in Group |-> "start"]
    /\ lease = Manual
    /\ update = [g \in Group |-> Nothing]
    /\ table = FoldLeft(Add, <<>>, [k \in DOMAIN Ips |-> IpsItem(k)])
    /\ hash = FoldLeft(HashAdd, [c \in {} |-> Nothing], [k \in DOMAIN Ips |-> IpsItem(k)])
    /\ addr = [g \in Group |-> UNSPECIFIED]
    /\ cidr = [g \in Group |-> NoLease.cidr]
    /\ connected = [g \in Group |-> FALSE]
    /\ ips = {} /\ nat = {} /\ routes = {}
    /\ isAddNat = [g \in Group |-> FALSE]
    /\ synced = [g \in Group |-> FALSE]
    /\ ending = FALSE /\ failed = FALSE

GoTo(g, label) == pc' = [pc EXCEPT ![g] = label]

(* A command fails: the error is non-retryable, and ends the process. *)
Fail(g) ==
    /\ GoTo(g, "failed")
    /\ failed' = TRUE /\ ending' = TRUE

Runs == UNCHANGED <<failed, ending>>

Begin(g, l) ==
    /\ update' = [update EXCEPT ![g] = [old |-> [addr |-> addr[g], cidr |-> cidr[g]], new |-> l]]
    /\ GoTo(g, "table")

Start(g) ==
    /\ pc[g] = "start"
    /\ \/ Manual[g] = Nothing /\ GoTo(g, "register") /\ UNCHANGED update
       \/ Manual[g] # Nothing /\ Begin(g, Manual[g])
    /\ UNCHANGED <<lease, tables, addr, cidr, connected, host>> /\ Runs

(* Mutant: the address is cleared instead of forgotten. *)
RefusedClears(g) ==
    /\ pc[g] = "register" /\ Manual[g] = Nothing /\ lease[g] # Nothing
    /\ lease' = [lease EXCEPT ![g] = NoLease]
    /\ UNCHANGED <<pc, update, tables, addr, cidr, connected, host>> /\ Runs

(* The server refuses an automatic address that it assigned earlier. *)
Refused(g) ==
    /\ pc[g] = "register" /\ Manual[g] = Nothing /\ lease[g] # Nothing
    /\ lease' = [lease EXCEPT ![g] = Nothing]
    /\ UNCHANGED <<pc, update, tables, addr, cidr, connected, host>> /\ Runs

Registered(g) ==
    /\ pc[g] = "register"
    /\ \/ /\ lease[g] # Nothing
          /\ GoTo(g, "routes")
          /\ UNCHANGED <<lease, update>>
       \/ /\ lease[g] = Nothing
          /\ \E l \in Leases[g] : lease' = [lease EXCEPT ![g] = l] /\ Begin(g, l)
    /\ UNCHANGED <<tables, addr, cidr, connected, host>> /\ Runs

(* update_tun_addr: rcu *)
UpdateTable(g) ==
    LET u == update[g]
        all == Replacements(g, u.old, u.new)
    IN
    /\ pc[g] = "table"
    /\ table' = FoldLeft(Replace, table, all)
    /\ hash' = FoldLeft(HashReplace, hash, all)
    /\ GoTo(g, IF u.old = u.new THEN "del_nat" ELSE "delete_addr")
    /\ UNCHANGED <<lease, update, addr, cidr, connected, host>> /\ Runs

DeleteAddr(g) ==
    LET a == update[g].old.addr IN
    /\ pc[g] = "delete_addr"
    /\ \/ ips' = ips \ {a} /\ GoTo(g, "add_addr") /\ Runs
       \/ a \in ips /\ Fail(g) /\ UNCHANGED ips
    /\ UNCHANGED <<lease, update, tables, addr, cidr, connected, nat, isAddNat, routes, synced>>

AddAddr(g) ==
    LET a == update[g].new.addr IN
    /\ pc[g] = "add_addr"
    /\ \/ ips' = ips \cup {a} /\ GoTo(g, "store_addr") /\ Runs
       \/ a \notin ips /\ Fail(g) /\ UNCHANGED ips
    /\ UNCHANGED <<lease, update, tables, addr, cidr, connected, nat, isAddNat, routes, synced>>

StoreAddr(g) ==
    /\ pc[g] = "store_addr"
    /\ addr' = [addr EXCEPT ![g] = update[g].new.addr]
    /\ GoTo(g, "store_cidr")
    /\ UNCHANGED <<lease, update, tables, cidr, connected, host>> /\ Runs

StoreCidr(g) ==
    /\ pc[g] = "store_cidr"
    /\ cidr' = [cidr EXCEPT ![g] = update[g].new.cidr]
    /\ GoTo(g, "del_nat")
    /\ UNCHANGED <<lease, update, tables, addr, connected, host>> /\ Runs

(* Mutant: the rules are looked up under the new range. *)
DelNatOfNew(g) ==
    LET u == update[g]
        needed == AllowedIps[g] # <<>> /\ u.old.cidr # u.new.cidr /\ isAddNat[g]
    IN
    /\ pc[g] = "del_nat"
    /\ IF needed THEN nat' = nat \ Rules(g, u.new.cidr) ELSE UNCHANGED nat
    /\ isAddNat' = [isAddNat EXCEPT ![g] = @ /\ ~needed]
    /\ GoTo(g, "add_nat") /\ Runs
    /\ UNCHANGED <<lease, update, tables, addr, cidr, connected, ips, routes, synced>>

(* del_nat: the rules go one by one, and the first that fails ends it. *)
DelNat(g) ==
    LET u == update[g]
        needed == AllowedIps[g] # <<>> /\ u.old.cidr # u.new.cidr /\ isAddNat[g]
    IN
    /\ pc[g] = "del_nat"
    /\ \/ /\ IF needed THEN nat' = nat \ Rules(g, u.old.cidr) ELSE UNCHANGED nat
          /\ isAddNat' = [isAddNat EXCEPT ![g] = @ /\ ~needed]
          /\ GoTo(g, "add_nat") /\ Runs
       \/ /\ needed
          /\ \E k \in 0 .. Len(AllowedIps[g]) - 1 : nat' = nat \ FirstRules(g, u.old.cidr, k)
          /\ Fail(g) /\ UNCHANGED isAddNat
    /\ UNCHANGED <<lease, update, tables, addr, cidr, connected, ips, routes, synced>>

(* Mutant: is_add_nat is not set by the first rules. *)
AddNatForgets(g) ==
    LET needed == AllowedIps[g] # <<>> /\ ~isAddNat[g] IN
    /\ pc[g] = "add_nat"
    /\ IF needed THEN nat' = nat \cup Rules(g, update[g].new.cidr) ELSE UNCHANGED nat
    /\ update' = [update EXCEPT ![g] = Nothing]
    /\ GoTo(g, IF Manual[g] # Nothing THEN "register" ELSE "routes") /\ Runs
    /\ UNCHANGED <<lease, tables, addr, cidr, connected, ips, isAddNat, routes, synced>>

(* add_nat; at the start the group goes on to register, later it has. *)
AddNat(g) ==
    LET c == update[g].new.cidr
        needed == AllowedIps[g] # <<>> /\ ~isAddNat[g]
    IN
    /\ pc[g] = "add_nat"
    /\ \/ /\ IF needed THEN nat' = nat \cup Rules(g, c) ELSE UNCHANGED nat
          /\ isAddNat' = [isAddNat EXCEPT ![g] = @ \/ needed]
          /\ GoTo(g, IF Manual[g] # Nothing THEN "register" ELSE "routes") /\ Runs
          /\ update' = [update EXCEPT ![g] = Nothing]
       \/ /\ needed
          /\ \E k \in 0 .. Len(AllowedIps[g]) - 1 : nat' = nat \cup FirstRules(g, c, k)
          /\ Fail(g) /\ UNCHANGED <<update, isAddNat>>
    /\ UNCHANGED <<lease, tables, addr, cidr, connected, ips, routes, synced>>

(* The routes of the system are added once, then the group has joined. *)
Join(g) ==
    LET mine == {k \in DOMAIN Ips : Ips[k].group = g} IN
    /\ pc[g] = "routes"
    /\ \/ /\ routes' = IF synced[g] THEN routes ELSE routes \cup mine
          /\ synced' = [synced EXCEPT ![g] = TRUE]
          /\ connected' = [connected EXCEPT ![g] = TRUE]
          /\ GoTo(g, "joined") /\ Runs
       \/ /\ ~synced[g] /\ mine # {}
          /\ \E some \in SUBSET mine : some # mine /\ routes' = routes \cup some
          /\ Fail(g) /\ UNCHANGED <<synced, connected>>
    /\ UNCHANGED <<lease, update, tables, addr, cidr, ips, nat, isAddNat>>

(* The connection ends; the task sleeps, and registers again. *)
Leave(g) ==
    /\ pc[g] = "joined"
    /\ connected' = [connected EXCEPT ![g] = FALSE]
    /\ GoTo(g, "register")
    /\ UNCHANGED <<lease, update, tables, addr, cidr, host>> /\ Runs

Signal ==
    /\ ending' = TRUE
    /\ UNCHANGED <<pc, lease, update, tables, addr, cidr, connected, host, failed>>

(* A task is dropped where it awaits something.  Its defer! removes the    *)
(* NAT rules of the range that the interface has now.                      *)
Cleanup(g) ==
    /\ ending /\ pc[g] \in {"start", "register", "routes", "joined", "failed"}
    /\ GoTo(g, "gone")
    /\ \/ /\ nat' = IF isAddNat[g] THEN nat \ Rules(g, cidr[g]) ELSE nat
          /\ ~isAddNat[g] \/ Rules(g, cidr[g]) \subseteq nat
          /\ UNCHANGED failed
       \/ /\ isAddNat[g] /\ failed' = TRUE
          /\ \E k \in 0 .. Len(AllowedIps[g]) - 1 :
                /\ FirstRules(g, cidr[g], k) \subseteq nat
                /\ nat' = nat \ FirstRules(g, cidr[g], k)
    /\ UNCHANGED <<lease, update, tables, addr, cidr, connected, ips, isAddNat, routes,
                   synced, ending>>

Next ==
    \/ \E g \in Group : Start(g) \/ Refused(g) \/ Registered(g) \/ UpdateTable(g)
    \/ \E g \in Group : DeleteAddr(g) \/ AddAddr(g) \/ StoreAddr(g) \/ StoreCidr(g)
    \/ \E g \in Group : DelNat(g) \/ AddNat(g) \/ Join(g) \/ Leave(g) \/ Cleanup(g)
    \/ Signal

Spec == Init /\ [][Next]_vars

----------------------------------------------------------------------------
Label == {"start", "register", "table", "delete_addr", "add_addr", "store_addr", "store_cidr",
          "del_nat", "add_nat", "routes", "joined", "failed", "gone"}

Updating == {"table", "delete_addr", "add_addr", "store_addr", "store_cidr", "del_nat", "add_nat"}

(* A group registers and sets up nothing but what its server assigned; the *)
(* TUN device never gets another kind of address.                          *)
TypeOK ==
    /\ pc \in [Group -> Label]
    /\ \A g \in Group : lease[g] \in Leases[g] \cup {Nothing}
    /\ \A g \in Group : pc[g] \in Updating =>
          update[g] \in [old : [addr : Address, cidr : Network], new : Leases[g]]
    /\ addr \in [Group -> Address] /\ cidr \in [Group -> Network]
    /\ connected \in [Group -> BOOLEAN] /\ isAddNat \in [Group -> BOOLEAN]
    /\ synced \in [Group -> BOOLEAN]
    /\ ips \subseteq Address \ {UNSPECIFIED} /\ routes \subseteq DOMAIN Ips
    /\ ending \in BOOLEAN /\ failed \in BOOLEAN

(* While packets of a group are handled (server_is_connected), all that    *)
(* was set up belongs to the address that the group has registered: the    *)
(* address and the range of the interface, the address of the TUN device,  *)
(* the NAT rules, which are those of this range and of no earlier one, and *)
(* the routes of the system.                                               *)
ConnectedIsConsistent ==
    \A g \in Group : connected[g] =>
        /\ lease[g] = [addr |-> addr[g], cidr |-> cidr[g]]
        /\ addr[g] \in ips
        /\ ~ending => {r \in nat : \E k \in DOMAIN AllowedIps[g] : r[1] = AllowedIps[g][k]}
                      = Rules(g, cidr[g])
        /\ {k \in DOMAIN Ips : Ips[k].group = g} \subseteq routes

(* While packets of a group are handled, those for its range go to the     *)
(* member they are for, by its own interface; and what the node offers it  *)
(* takes: packets for its allowed_ips go to the address that it has now,   *)
(* not to the one it had before.  No change of address leaves an item of   *)
(* an earlier address behind, or the same item twice, and none loses a     *)
(* subnet route of the configuration, not even the default route, which    *)
(* equals the range of a group without address.                            *)
NetworksServed ==
    /\ \A g \in Group : connected[g] =>
        /\ \A a \in Address : InNet(cidr[g], a) => FindRoute(table, a) = [to |-> a, if |-> g]
        /\ \A k \in DOMAIN AllowedIps[g], a \in Address :
              InNet(AllowedIps[g][k], a) => FindRoute(table, a) = [to |-> addr[g], if |-> g]
        /\ \A j \in DOMAIN table : table[j].if = g /\ table[j].kind # "IpsRoute" =>
              \/ table[j] = RangeItem(g, cidr[g])
              \/ \E k \in DOMAIN AllowedIps[g] :
                    table[j] = OfferItem(g, AllowedIps[g][k], addr[g])
    /\ \A j, k \in DOMAIN table : table[j] = table[k] => j = k
    /\ \A k \in DOMAIN Ips : \E j \in DOMAIN table : table[j] = IpsItem(k)

(* The hash table finds what the array would find if it had only the items *)
(* whose network is written without host bits: after any changes of        *)
(* address neither has an item that the other lacks, and among the         *)
(* networks that have an address both prefer the longest.                  *)
TablesAgree ==
    \A a \in Address :
        LET j == At(table, LAMBDA i : i.cidr = Trunc(a, i.cidr.len))
        IN  HashFind(hash, a) = IF j = 0 THEN Nothing ELSE table[j]

(* A process that has ended leaves no NAT rule on its host, whenever it is *)
(* told to end and however often addresses have changed, unless one of its *)
(* commands has failed.                                                    *)
NothingLeftBehind == (\A g \in Group : pc[g] = "gone") /\ ~failed => nat = {}
===============================================================================
