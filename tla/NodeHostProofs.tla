---------------------------- MODULE NodeHostProofs ----------------------------
(***************************************************************************)
(* For any groups, addresses, networks, changes of address and failures of *)
(* commands: what the tasks of a node add to the NAT rules of its host     *)
(* they remove again; a group sets up only what its server assigned; while *)
(* it handles packets, all of it belongs to the address it has now; and    *)
(* the routing tables have the items of the leases the groups have, no     *)
(* others, and find the same ones.                                         *)
(***************************************************************************)
EXTENDS NodeHost, WellFoundedInduction, FiniteSetTheorems, TLAPS

TypeInv ==
    /\ DOMAIN pc = Group /\ DOMAIN update = Group /\ DOMAIN cidr = Group
    /\ isAddNat \in [Group -> BOOLEAN]

(* The locations of an update_tun_addr before and after the range of the   *)
(* interface is the new one.                                               *)
Before == {"table", "delete_addr", "add_addr", "store_addr", "store_cidr"}
After == {"del_nat", "add_nat"}

UpdateIsCurrent ==
    \A g \in Group :
        /\ pc[g] \in Before => update[g].old.cidr = cidr[g]
        /\ pc[g] \in After => update[g].new.cidr = cidr[g]

(* The range that the rules of a group have: until they are replaced, the  *)
(* one that the interface had.                                             *)
NatCidr(g) == IF pc[g] = "del_nat" THEN update[g].old.cidr ELSE cidr[g]

Owns(g, r) == isAddNat[g] /\ pc[g] # "gone" /\ r \in Rules(g, NatCidr(g))

(* As long as no command has failed, a group that knows of it and has not  *)
(* ended is behind every rule.                                             *)
RulesAreOwned == ~failed => \A r \in nat : \E g \in Group : Owns(g, r)

IInv == TypeInv /\ UpdateIsCurrent /\ RulesAreOwned

----------------------------------------------------------------------------
LEMMA InitIInv == Init => IInv
  BY DEF Init, IInv, TypeInv, UpdateIsCurrent, RulesAreOwned, Before, After

(* A step of a group that changes neither its ownership nor the rules. *)
LEMMA KeepsRules ==
    ASSUME RulesAreOwned, UNCHANGED <<nat, isAddNat>>, failed' \/ ~failed,
           \A g \in Group : pc'[g] # "gone" \/ pc[g] = "gone",
           \A g \in Group : NatCidr(g)' = NatCidr(g)
    PROVE  RulesAreOwned'
  BY DEF RulesAreOwned, Owns, Rules

LEMMA StepIInv == IInv /\ [Next]_vars => IInv'
  <1> SUFFICES ASSUME IInv, [Next]_vars PROVE IInv'
    OBVIOUS
  <1> USE DEF IInv, TypeInv, GoTo, Runs, Before, After
  <1>1. ASSUME NEW g \in Group, NEW l, Begin(g, l), pc[g] \in {"start", "register"},
               UNCHANGED <<cidr, host, failed>>
        PROVE  IInv'
    <2>1. UpdateIsCurrent'
      BY <1>1 DEF Begin, UpdateIsCurrent
    <2>2. RulesAreOwned'
      BY <1>1, KeepsRules DEF Begin, NatCidr, host
    <2>3. QED
      BY <1>1, <2>1, <2>2 DEF Begin, host
  <1>2. ASSUME NEW g \in Group, pc' = [pc EXCEPT ![g] = pc'[g]],
               pc[g] \notin Before \cup After, pc'[g] \notin Before \cup After \cup {"gone"},
               UNCHANGED <<update, cidr, nat, isAddNat, failed>>
        PROVE  IInv'
    <2>1. UpdateIsCurrent'
      BY <1>2 DEF UpdateIsCurrent
    <2>2. RulesAreOwned'
      BY <1>2, KeepsRules DEF NatCidr
    <2>3. QED
      BY <1>2, <2>1, <2>2
  <1>3. ASSUME NEW g \in Group, Start(g) PROVE IInv'
    BY <1>1, <1>2, <1>3 DEF Start, host
  <1>4. ASSUME NEW g \in Group, Refused(g) PROVE IInv'
    <2>1. UNCHANGED <<pc, update, cidr, nat, isAddNat, failed>>
      BY <1>4 DEF Refused, host
    <2>2. QED
      BY <2>1 DEF UpdateIsCurrent, RulesAreOwned, Owns, NatCidr, Rules
  <1>5. ASSUME NEW g \in Group, Registered(g) PROVE IInv'
    BY <1>1, <1>2, <1>5 DEF Registered, host
  <1>6. ASSUME NEW g \in Group, UpdateTable(g) PROVE IInv'
    <2>1. UpdateIsCurrent'
      BY <1>6 DEF UpdateTable, UpdateIsCurrent
    <2>2. RulesAreOwned'
      BY <1>6, KeepsRules DEF UpdateTable, UpdateIsCurrent, NatCidr, host
    <2>3. QED
      BY <1>6, <2>1, <2>2 DEF UpdateTable, host
  <1>7. ASSUME NEW g \in Group, DeleteAddr(g) \/ AddAddr(g) \/ StoreAddr(g) PROVE IInv'
    <2>1. /\ pc[g] \in {"delete_addr", "add_addr", "store_addr"}
          /\ pc' = [pc EXCEPT ![g] = pc'[g]]
          /\ pc'[g] \in {"add_addr", "store_addr", "store_cidr", "failed"}
          /\ UNCHANGED <<update, cidr, nat, isAddNat>>
          /\ failed' \/ UNCHANGED failed
      BY <1>7 DEF DeleteAddr, AddAddr, StoreAddr, Fail, host
    <2>2. UpdateIsCurrent'
      BY <2>1 DEF UpdateIsCurrent
    <2>3. RulesAreOwned'
      BY <2>1 DEF RulesAreOwned, Owns, NatCidr, Rules
    <2>4. QED
      BY <2>1, <2>2, <2>3
  <1>8. ASSUME NEW g \in Group, StoreCidr(g) PROVE IInv'
    <2>1. UpdateIsCurrent'
      BY <1>8 DEF StoreCidr, UpdateIsCurrent
    <2>2. RulesAreOwned'
      BY <1>8, KeepsRules DEF StoreCidr, UpdateIsCurrent, NatCidr, host
    <2>3. QED
      BY <1>8, <2>1, <2>2 DEF StoreCidr, host
  <1>9. ASSUME NEW g \in Group, DelNat(g) PROVE IInv'
    <2> DEFINE needed == /\ AllowedIps[g] # <<>>
                         /\ update[g].old.cidr # update[g].new.cidr
                         /\ isAddNat[g]
    <2>1. CASE failed'
      BY <1>9, <2>1 DEF DelNat, Fail, UpdateIsCurrent, RulesAreOwned
    <2>2. CASE ~failed'
      <3>1. /\ pc[g] = "del_nat" /\ pc' = [pc EXCEPT ![g] = "add_nat"]
            /\ nat' = IF needed THEN nat \ Rules(g, update[g].old.cidr) ELSE nat
            /\ isAddNat' = [isAddNat EXCEPT ![g] = @ /\ ~needed]
            /\ UNCHANGED <<update, cidr, failed>>
        BY <1>9, <2>2 DEF DelNat, Fail
      <3>2. UpdateIsCurrent'
        BY <3>1 DEF UpdateIsCurrent
      <3>3. ASSUME NEW r \in nat' PROVE \E h \in Group : Owns(h, r)'
        <4>1. PICK h \in Group : Owns(h, r)
          BY <2>2, <3>1, <3>3 DEF RulesAreOwned
        <4>2. CASE h # g
          BY <3>1, <4>1, <4>2 DEF Owns, NatCidr, Rules
        <4>3. CASE h = g
          <5>1. isAddNat[g] /\ r \in Rules(g, update[g].old.cidr)
            BY <3>1, <4>1, <4>3 DEF Owns, NatCidr
          <5>2. AllowedIps[g] # <<>>
            BY <5>1 DEF Rules
          <5>3. ~needed
            BY <3>1, <3>3, <5>1
          <5>4. update[g].old.cidr = cidr[g]
            BY <3>1, <5>1, <5>2, <5>3 DEF UpdateIsCurrent
          <5>5. isAddNat'[g] /\ pc'[g] = "add_nat"
            BY <3>1, <5>1, <5>3
          <5>6. QED
            BY <3>1, <5>1, <5>4, <5>5 DEF Owns, NatCidr, Rules
        <4>4. QED
          BY <4>2, <4>3
      <3>4. QED
        BY <3>1, <3>2, <3>3 DEF RulesAreOwned
    <2>3. QED
      BY <2>1, <2>2
  <1>10. ASSUME NEW g \in Group, AddNat(g) PROVE IInv'
    <2> DEFINE needed == AllowedIps[g] # <<>> /\ ~isAddNat[g]
    <2>1. CASE failed'
      BY <1>10, <2>1 DEF AddNat, Fail, UpdateIsCurrent, RulesAreOwned
    <2>2. CASE ~failed'
      <3>1. /\ pc[g] = "add_nat" /\ pc' = [pc EXCEPT ![g] = pc'[g]]
            /\ pc'[g] \in {"register", "routes"}
            /\ nat' = IF needed THEN nat \cup Rules(g, update[g].new.cidr) ELSE nat
            /\ isAddNat' = [isAddNat EXCEPT ![g] = @ \/ needed]
            /\ update' = [update EXCEPT ![g] = Nothing]
            /\ UNCHANGED <<cidr, failed>>
        BY <1>10, <2>2 DEF AddNat, Fail
      <3>2. UpdateIsCurrent'
        BY <3>1 DEF UpdateIsCurrent
      <3>3. ASSUME NEW r \in nat' PROVE \E h \in Group : Owns(h, r)'
        <4>1. CASE r \in nat
          <5>1. PICK h \in Group : Owns(h, r)
            BY <2>2, <3>1, <4>1 DEF RulesAreOwned
          <5>2. QED
            BY <3>1, <5>1 DEF Owns, NatCidr, Rules
        <4>2. CASE r \notin nat
          <5>1. needed /\ r \in Rules(g, update[g].new.cidr)
            BY <3>1, <3>3, <4>2
          <5>2. update[g].new.cidr = cidr[g]
            BY <3>1 DEF UpdateIsCurrent
          <5>3. isAddNat'[g]
            BY <3>1, <5>1
          <5>4. QED
            BY <3>1, <5>1, <5>2, <5>3 DEF Owns, NatCidr, Rules
        <4>3. QED
          BY <4>1, <4>2
      <3>4. QED
        BY <3>1, <3>2, <3>3 DEF RulesAreOwned
    <2>3. QED
      BY <2>1, <2>2
  <1>11. ASSUME NEW g \in Group, Join(g) PROVE IInv'
    <2>1. CASE failed'
      BY <1>11, <2>1 DEF Join, Fail, UpdateIsCurrent, RulesAreOwned
    <2>2. CASE ~failed'
      BY <1>2, <1>11, <2>2 DEF Join, Fail
    <2>3. QED
      BY <2>1, <2>2
  <1>12. ASSUME NEW g \in Group, Leave(g) PROVE IInv'
    BY <1>2, <1>12 DEF Leave, host
  <1>13. ASSUME NEW g \in Group, Cleanup(g) PROVE IInv'
    <2>1. /\ pc[g] \notin Before \cup After /\ pc' = [pc EXCEPT ![g] = "gone"]
          /\ UNCHANGED <<update, cidr, isAddNat>>
      BY <1>13 DEF Cleanup
    <2>2. UpdateIsCurrent'
      BY <2>1 DEF UpdateIsCurrent
    <2>3. ASSUME ~failed', NEW r \in nat' PROVE \E h \in Group : Owns(h, r)'
      <3>1. /\ ~failed
            /\ nat' = IF isAddNat[g] THEN nat \ Rules(g, cidr[g]) ELSE nat
        BY <1>13, <2>3 DEF Cleanup
      <3>2. PICK h \in Group : Owns(h, r)
        BY <2>3, <3>1 DEF RulesAreOwned
      <3>3. h # g
        BY <2>1, <2>3, <3>1, <3>2 DEF Owns, NatCidr
      <3>4. QED
        BY <2>1, <3>2, <3>3 DEF Owns, NatCidr, Rules
    <2>4. QED
      BY <2>1, <2>2, <2>3 DEF RulesAreOwned
  <1>14. CASE UNCHANGED vars
    BY <1>14 DEF vars, host, UpdateIsCurrent, RulesAreOwned, Owns, NatCidr, Rules
  <1>15. ASSUME Signal PROVE IInv'
    BY <1>15 DEF Signal, host, UpdateIsCurrent, RulesAreOwned, Owns, NatCidr, Rules
  <1>16. QED
    BY <1>3, <1>4, <1>5, <1>6, <1>7, <1>8, <1>9, <1>10, <1>11, <1>12, <1>13, <1>14, <1>15
    DEF Next

(* Whatever groups a node has, whenever it is told to end and however      *)
(* often addresses have changed: without a failed command no NAT rule is   *)
(* left when all its tasks are gone.                                       *)
THEOREM RulesAreRemoved == Spec => []NothingLeftBehind
  <1>1. IInv => NothingLeftBehind
    BY DEF IInv, RulesAreOwned, Owns, NothingLeftBehind
  <1>2. QED
    BY <1>1, InitIInv, StepIInv, PTL DEF Spec

----------------------------------------------------------------------------
(* What a group has set up, by where its task is. *)
Own(g) == {UNSPECIFIED} \cup {l.addr : l \in Leases[g]}
Mine(g) == {k \in DOMAIN Ips : Ips[k].group = g}

HostTyped ==
    /\ pc \in [Group -> Label]
    /\ DOMAIN lease = Group /\ DOMAIN update = Group
    /\ addr \in [Group -> Address] /\ cidr \in [Group -> Network]
    /\ connected \in [Group -> BOOLEAN] /\ isAddNat \in [Group -> BOOLEAN]
    /\ synced \in [Group -> BOOLEAN]
    /\ ips \subseteq Address \ {UNSPECIFIED} /\ routes \subseteq DOMAIN Ips
    /\ ending \in BOOLEAN /\ failed \in BOOLEAN

(* The lease, the update under way and the interface of a group. *)
InterfaceFollows(g) ==
    /\ lease[g] \in Leases[g] \cup {Nothing}
    /\ addr[g] \in Own(g)
    /\ pc[g] = "start" => lease[g] = Manual[g]
    /\ pc[g] \in Updating =>
          /\ update[g] \in [old : [addr : Own(g), cidr : Network], new : Leases[g]]
          /\ lease[g] = update[g].new
    /\ pc[g] = "table" => update[g].old = [addr |-> addr[g], cidr |-> cidr[g]]
    /\ pc[g] \in {"store_cidr", "del_nat", "add_nat"} => addr[g] = update[g].new.addr
    /\ pc[g] \in {"del_nat", "add_nat"} => cidr[g] = update[g].new.cidr

(* Where a group has set up what its lease says, and is done with it. *)
Settled(g) ==
    \/ pc[g] = "register" /\ lease[g] # Nothing
    \/ pc[g] \in {"routes", "joined"} \/ connected[g]

SettledFollows(g) ==
    /\ Settled(g) => lease[g] = [addr |-> addr[g], cidr |-> cidr[g]]
    /\ connected[g] => pc[g] \in {"joined", "gone"} /\ synced[g]
    /\ synced[g] => Mine(g) \subseteq routes

(* The device has the address of the interface, except between the         *)
(* commands that replace it.                                               *)
OnDevice(g) ==
    /\ (pc[g] \in {"start", "register", "table", "routes", "joined"} \/ connected[g])
         /\ addr[g] # UNSPECIFIED => addr[g] \in ips
    /\ pc[g] \in {"store_addr", "store_cidr", "del_nat", "add_nat"} => update[g].new.addr \in ips

(* Of the rules for its networks there are those that is_add_nat tells of. *)
Offered(g) == {AllowedIps[g][k] : k \in DOMAIN AllowedIps[g]}
RulesOf(g) == {r \in nat : r[1] \in Offered(g)}

NatFollows(g) ==
    ~ending =>
        /\ pc[g] \notin {"gone", "failed"}
        /\ RulesOf(g) = IF isAddNat[g] THEN Rules(g, NatCidr(g)) ELSE {}
        /\ Settled(g) => AllowedIps[g] = <<>> \/ isAddNat[g]

GroupsFollow == \A g \in Group : InterfaceFollows(g) /\ SettledFollows(g)

HostInv == HostTyped /\ GroupsFollow
SharedInv == \A g \in Group : OnDevice(g) /\ NatFollows(g)

----------------------------------------------------------------------------
LEMMA LeasesAre ==
    /\ UNSPECIFIED \in Address /\ NoLease.cidr \in Network /\ NoLease.addr = UNSPECIFIED
    /\ \A g \in Group : Own(g) \subseteq Address /\ UNSPECIFIED \in Own(g)
    /\ \A g \in Group : \A l \in Leases[g] :
         /\ l \in [addr : Address \ {UNSPECIFIED}, cidr : Network]
         /\ l.addr \in Own(g) /\ l.addr \in Address \ {UNSPECIFIED} /\ l.cidr \in Network
         /\ l = [addr |-> l.addr, cidr |-> l.cidr] /\ l # Nothing
  <1>1. UNSPECIFIED \in Address /\ 0 \in 0 .. BITS
    BY NodeHostAssumption
  <1>2. NoLease.cidr \in Network /\ NoLease.addr = UNSPECIFIED
    BY <1>1 DEF NoLease, Network, UNSPECIFIED
  <1>3. ASSUME NEW g \in Group, NEW l \in Leases[g]
        PROVE  /\ l \in [addr : Address \ {UNSPECIFIED}, cidr : Network]
               /\ l.addr \in Own(g) /\ l.addr \in Address \ {UNSPECIFIED} /\ l.cidr \in Network
               /\ l = [addr |-> l.addr, cidr |-> l.cidr] /\ l # Nothing
    BY NodeHostAssumption DEF Own
  <1>4. ASSUME NEW g \in Group PROVE Own(g) \subseteq Address /\ UNSPECIFIED \in Own(g)
    BY <1>1, <1>3 DEF Own
  <1>5. QED
    BY <1>1, <1>2, <1>3, <1>4

LEMMA InitHost == Init => HostInv
  <1> SUFFICES ASSUME Init PROVE HostInv
    OBVIOUS
  <1>1. HostTyped
    BY LeasesAre, NodeHostAssumption DEF Init, HostTyped, Label
  <1>2. ASSUME NEW g \in Group PROVE InterfaceFollows(g) /\ SettledFollows(g)
    <2>1. pc[g] = "start" /\ lease[g] = Manual[g] /\ ~connected[g] /\ ~synced[g]
          /\ addr[g] = UNSPECIFIED
      BY DEF Init
    <2>2. QED
      BY <2>1, LeasesAre, NodeHostAssumption
      DEF InterfaceFollows, SettledFollows, Settled, Updating
  <1>3. QED
    BY <1>1, <1>2 DEF HostInv, GroupsFollow

(* A step of the task of g leaves what the other groups have alone. *)
Same(h) ==
    /\ pc'[h] = pc[h] /\ lease'[h] = lease[h] /\ update'[h] = update[h]
    /\ addr'[h] = addr[h] /\ cidr'[h] = cidr[h]
    /\ connected'[h] = connected[h] /\ synced'[h] = synced[h]

LEMMA GroupStep ==
    ASSUME HostInv, HostTyped', NEW g \in Group, routes \subseteq routes',
           \A h \in Group \ {g} : Same(h),
           InterfaceFollows(g)', SettledFollows(g)'
    PROVE  HostInv'
  <1>1. ASSUME NEW h \in Group, h # g PROVE InterfaceFollows(h)' /\ SettledFollows(h)'
    <2>1. InterfaceFollows(h) /\ SettledFollows(h) /\ Same(h)
      BY <1>1 DEF HostInv, GroupsFollow
    <2>2. InterfaceFollows(h)'
      BY <2>1 DEF InterfaceFollows, Same
    <2>3. SettledFollows(h)'
      BY <2>1 DEF SettledFollows, Settled, Same, Mine
    <2>4. QED
      BY <2>2, <2>3
  <1>2. QED
    BY <1>1 DEF HostInv, GroupsFollow

(* update_tun_addr begins. *)
LEMMA BeginHost ==
    ASSUME HostInv, NEW g \in Group, pc[g] \in {"start", "register"}, NEW l \in Leases[g],
           Begin(g, l), DOMAIN lease' = Group, lease'[g] = l,
           \A h \in Group \ {g} : lease'[h] = lease[h],
           UNCHANGED <<addr, cidr, connected, ips, routes, synced, isAddNat, ending, failed>>
    PROVE  HostInv'
  <1> DEFINE u == [old |-> [addr |-> addr[g], cidr |-> cidr[g]], new |-> l]
  <1>1. /\ pc' = [pc EXCEPT ![g] = "table"] /\ update' = [update EXCEPT ![g] = u]
        /\ HostTyped /\ InterfaceFollows(g) /\ SettledFollows(g)
    BY DEF Begin, GoTo, HostInv, GroupsFollow
  <1>2. u \in [old : [addr : Own(g), cidr : Network], new : Leases[g]]
    BY <1>1 DEF InterfaceFollows, HostTyped
  <1>3. HostTyped'
    BY <1>1 DEF HostTyped, Label
  <1>4. \A h \in Group \ {g} : Same(h)
    BY <1>1 DEF Same, HostTyped
  <1>5. pc'[g] = "table" /\ update'[g] = u
    BY <1>1 DEF HostTyped
  <1>6. InterfaceFollows(g)'
    BY <1>1, <1>2, <1>5 DEF InterfaceFollows
  <1>7. SettledFollows(g)'
    BY <1>1, <1>5 DEF SettledFollows, Settled, Mine
  <1>8. QED
    BY <1>3, <1>4, <1>6, <1>7, GroupStep

(* A command fails: nothing is set up any more. *)
LEMMA FailHost ==
    ASSUME HostInv, NEW g \in Group, pc[g] \notin {"joined", "gone"}, Fail(g),
           UNCHANGED <<lease, update, addr, cidr, connected, isAddNat, synced>>,
           ips' \subseteq Address \ {UNSPECIFIED}, routes' \subseteq DOMAIN Ips,
           routes \subseteq routes'
    PROVE  HostInv'
  <1>1. /\ pc' = [pc EXCEPT ![g] = "failed"] /\ failed' = TRUE /\ ending' = TRUE
        /\ HostTyped /\ InterfaceFollows(g) /\ SettledFollows(g)
    BY DEF Fail, GoTo, HostInv, GroupsFollow
  <1>2. HostTyped'
    BY <1>1 DEF HostTyped, Label
  <1>3. \A h \in Group \ {g} : Same(h)
    BY <1>1 DEF Same, HostTyped
  <1>4. pc'[g] = "failed"
    BY <1>1 DEF HostTyped
  <1>5. InterfaceFollows(g)'
    BY <1>1, <1>4 DEF InterfaceFollows, Updating
  <1>6. SettledFollows(g)'
    BY <1>1, <1>4 DEF SettledFollows, Settled, Mine
  <1>7. QED
    BY <1>2, <1>3, <1>5, <1>6, GroupStep

(* The task goes on, and nothing that is set up changes. *)
LEMMA GoesOnHost ==
    ASSUME HostInv, NEW g \in Group, NEW label \in Label, pc' = [pc EXCEPT ![g] = label],
           UNCHANGED <<lease, addr, cidr, connected, routes, synced>>,
           isAddNat' \in [Group -> BOOLEAN], ips' \subseteq Address \ {UNSPECIFIED},
           UNCHANGED <<ending, failed>>,
           DOMAIN update' = Group, \A h \in Group \ {g} : update'[h] = update[h],
           \/ /\ pc[g] \in Updating /\ label \in Updating \ {"table"} /\ update'[g] = update[g]
              /\ label = "store_cidr" => addr[g] = update[g].new.addr
              /\ label \in {"del_nat", "add_nat"} =>
                    update[g].new = [addr |-> addr[g], cidr |-> cidr[g]]
           \/ /\ label \in {"register", "routes"} /\ pc[g] \notin {"joined", "gone"}
              /\ lease[g] = [addr |-> addr[g], cidr |-> cidr[g]] \/ lease[g] = Nothing
              /\ lease[g] # Nothing \/ label = "register"
    PROVE  HostInv'
  <1>1. HostTyped /\ InterfaceFollows(g) /\ SettledFollows(g)
    BY DEF HostInv, GroupsFollow
  <1>2. HostTyped'
    BY <1>1 DEF HostTyped
  <1>3. \A h \in Group \ {g} : Same(h)
    BY <1>1 DEF Same, HostTyped
  <1>4. pc'[g] = label
    BY <1>1 DEF HostTyped
  <1>5. InterfaceFollows(g)'
    BY <1>1, <1>4 DEF InterfaceFollows, Updating
  <1>6. SettledFollows(g)'
    BY <1>1, <1>4 DEF SettledFollows, Settled, Mine, Updating
  <1>7. QED
    BY <1>2, <1>3, <1>5, <1>6, GroupStep

LEMMA StoreHost ==
    ASSUME HostInv, IInv, NEW g \in Group, StoreAddr(g) \/ StoreCidr(g)
    PROVE  HostInv'
  <1>1. HostTyped /\ InterfaceFollows(g) /\ SettledFollows(g)
    BY DEF HostInv, GroupsFollow
  <1>2. /\ pc[g] \in Updating /\ update[g].new \in Leases[g] /\ lease[g] = update[g].new
        /\ ~connected[g]
    BY <1>1 DEF StoreAddr, StoreCidr, Updating, InterfaceFollows, SettledFollows
  <1>3. /\ update[g].new.addr \in Own(g) /\ update[g].new.addr \in Address
        /\ update[g].new.cidr \in Network
    BY <1>2, LeasesAre
  <1>4. /\ UNCHANGED <<lease, update, connected, ips, routes, synced, isAddNat, ending, failed>>
        /\ \/ /\ pc[g] = "store_addr" /\ pc' = [pc EXCEPT ![g] = "store_cidr"]
              /\ addr' = [addr EXCEPT ![g] = update[g].new.addr] /\ UNCHANGED cidr
           \/ /\ pc[g] = "store_cidr" /\ pc' = [pc EXCEPT ![g] = "del_nat"]
              /\ cidr' = [cidr EXCEPT ![g] = update[g].new.cidr] /\ UNCHANGED addr
    BY DEF StoreAddr, StoreCidr, GoTo, Runs, host
  <1>5. HostTyped'
    BY <1>1, <1>3, <1>4 DEF HostTyped, Label
  <1>6. \A h \in Group \ {g} : Same(h)
    BY <1>1, <1>4 DEF Same, HostTyped
  <1>7. InterfaceFollows(g)'
    BY <1>1, <1>2, <1>3, <1>4 DEF InterfaceFollows, Updating, HostTyped
  <1>8. SettledFollows(g)'
    BY <1>1, <1>2, <1>4 DEF SettledFollows, Settled, Mine, HostTyped
  <1>9. QED
    BY <1>4, <1>5, <1>6, <1>7, <1>8, GroupStep

LEMMA JoinHost ==
    ASSUME HostInv, NEW g \in Group, Join(g)
    PROVE  HostInv'
  <1>1. HostTyped /\ InterfaceFollows(g) /\ SettledFollows(g) /\ pc[g] = "routes"
    BY DEF HostInv, GroupsFollow, Join
  <1>2. CASE Fail(g)
    <2>1. /\ UNCHANGED <<lease, update, addr, cidr, ips, isAddNat>>
          /\ UNCHANGED <<synced, connected>> \/ pc' = [pc EXCEPT ![g] = "joined"]
          /\ routes \subseteq routes' /\ routes' \subseteq DOMAIN Ips
      BY <1>1 DEF Join, GoTo, HostTyped
    <2>2. UNCHANGED <<synced, connected>>
      BY <1>1, <1>2, <2>1 DEF Fail, GoTo, HostTyped
    <2>3. QED
      BY <1>1, <1>2, <2>1, <2>2, FailHost DEF HostTyped
  <1>3. CASE ~Fail(g)
    <2>1. /\ routes' = IF synced[g] THEN routes ELSE routes \cup Mine(g)
          /\ synced' = [synced EXCEPT ![g] = TRUE]
          /\ connected' = [connected EXCEPT ![g] = TRUE]
          /\ pc' = [pc EXCEPT ![g] = "joined"]
          /\ UNCHANGED <<lease, update, addr, cidr, ips, isAddNat, ending, failed>>
      BY <1>3 DEF Join, GoTo, Runs, Mine
    <2>2. HostTyped'
      BY <1>1, <2>1 DEF HostTyped, Label, Mine
    <2>3. \A h \in Group \ {g} : Same(h)
      BY <1>1, <2>1 DEF Same, HostTyped
    <2>4. InterfaceFollows(g)'
      BY <1>1, <2>1 DEF InterfaceFollows, Updating, HostTyped
    <2>5. Mine(g) \subseteq routes' /\ routes \subseteq routes'
      BY <1>1, <2>1 DEF SettledFollows
    <2>6. SettledFollows(g)'
      BY <1>1, <2>1, <2>5 DEF SettledFollows, Settled, Mine, HostTyped
    <2>7. QED
      BY <2>2, <2>3, <2>4, <2>5, <2>6, GroupStep
  <1>4. QED
    BY <1>2, <1>3

LEMMA EndHost ==
    ASSUME HostInv, NEW g \in Group, Leave(g) \/ Cleanup(g)
    PROVE  HostInv'
  <1>1. HostTyped /\ InterfaceFollows(g) /\ SettledFollows(g)
    BY DEF HostInv, GroupsFollow
  <1>2. /\ \/ /\ pc[g] = "joined" /\ pc' = [pc EXCEPT ![g] = "register"]
              /\ connected' = [connected EXCEPT ![g] = FALSE]
           \/ pc' = [pc EXCEPT ![g] = "gone"] /\ UNCHANGED connected
        /\ UNCHANGED <<lease, update, addr, cidr, ips, routes, synced, isAddNat, ending>>
        /\ failed' \in BOOLEAN
    BY <1>1 DEF Leave, Cleanup, GoTo, Runs, host, HostTyped
  <1>3. HostTyped'
    BY <1>1, <1>2 DEF HostTyped, Label
  <1>4. \A h \in Group \ {g} : Same(h)
    BY <1>1, <1>2 DEF Same, HostTyped
  <1>5. InterfaceFollows(g)'
    BY <1>1, <1>2 DEF InterfaceFollows, Updating, HostTyped
  <1>6. SettledFollows(g)'
    BY <1>1, <1>2 DEF SettledFollows, Settled, Mine, HostTyped
  <1>7. QED
    BY <1>2, <1>3, <1>4, <1>5, <1>6, GroupStep

LEMMA UpdateHost ==
    ASSUME HostInv, IInv, NEW g \in Group,
           UpdateTable(g) \/ DeleteAddr(g) \/ AddAddr(g) \/ DelNat(g) \/ AddNat(g)
    PROVE  HostInv'
  <1>1. HostTyped /\ InterfaceFollows(g) /\ SettledFollows(g)
    BY DEF HostInv, GroupsFollow
  <1>2. /\ pc[g] \in Updating \ {"store_addr", "store_cidr"}
        /\ UNCHANGED <<lease, addr, cidr, connected, routes, synced>>
    BY DEF UpdateTable, DeleteAddr, AddAddr, DelNat, AddNat, Updating, host
  <1>3. /\ update[g].new \in Leases[g] /\ lease[g] = update[g].new
        /\ update[g].new.addr \in Address \ {UNSPECIFIED}
    BY <1>1, <1>2, LeasesAre DEF InterfaceFollows
  <1>4. isAddNat' \in [Group -> BOOLEAN] /\ ips' \subseteq Address \ {UNSPECIFIED}
    <2>1. isAddNat' = isAddNat \/ \E b \in BOOLEAN : isAddNat' = [isAddNat EXCEPT ![g] = b]
      BY <1>1 DEF UpdateTable, DeleteAddr, AddAddr, DelNat, AddNat, host, HostTyped
    <2>2. ips' \subseteq ips \cup {update[g].new.addr}
      BY DEF UpdateTable, DeleteAddr, AddAddr, DelNat, AddNat, host
    <2>3. QED
      BY <1>1, <1>3, <2>1, <2>2 DEF HostTyped
  <1>5. CASE Fail(g)
    <2>1. UNCHANGED <<update, isAddNat>>
      BY <1>1, <1>5
      DEF UpdateTable, DeleteAddr, AddAddr, DelNat, AddNat, host, Fail, GoTo, HostTyped
    <2>2. QED
      BY <1>1, <1>2, <1>4, <1>5, <2>1, FailHost DEF HostTyped, Updating
  <1>6. CASE ~Fail(g)
    <2>1. UNCHANGED <<ending, failed>>
      BY <1>6 DEF UpdateTable, DeleteAddr, AddAddr, DelNat, AddNat, Runs
    <2>2. CASE UpdateTable(g)
      <3>1. /\ pc[g] = "table" /\ UNCHANGED update
            /\ pc' = [pc EXCEPT ![g] = IF update[g].old = update[g].new THEN "del_nat"
                                        ELSE "delete_addr"]
        BY <2>2 DEF UpdateTable, GoTo
      <3>2. update[g].old = [addr |-> addr[g], cidr |-> cidr[g]]
        BY <1>1, <3>1 DEF InterfaceFollows
      <3>3. QED
        BY <1>1, <1>2, <1>4, <2>1, <3>1, <3>2, GoesOnHost DEF HostTyped, Label, Updating
    <2>3. CASE DeleteAddr(g) \/ AddAddr(g)
      <3>1. /\ UNCHANGED update
            /\ \E label \in {"add_addr", "store_addr"} : pc' = [pc EXCEPT ![g] = label]
        BY <1>6, <2>3 DEF DeleteAddr, AddAddr, GoTo
      <3>2. QED
        BY <1>1, <1>2, <1>4, <2>1, <3>1, GoesOnHost DEF HostTyped, Label, Updating
    <2>4. CASE DelNat(g)
      <3>1. pc[g] = "del_nat" /\ UNCHANGED update /\ pc' = [pc EXCEPT ![g] = "add_nat"]
        BY <1>6, <2>4 DEF DelNat, GoTo
      <3>2. update[g].new = [addr |-> addr[g], cidr |-> cidr[g]]
        BY <1>1, <1>3, <3>1, LeasesAre DEF InterfaceFollows
      <3>3. QED
        BY <1>1, <1>2, <1>4, <2>1, <3>1, <3>2, GoesOnHost DEF HostTyped, Label, Updating
    <2>5. CASE AddNat(g)
      <3>1. /\ pc[g] = "add_nat" /\ update' = [update EXCEPT ![g] = Nothing]
            /\ \E label \in {"register", "routes"} : pc' = [pc EXCEPT ![g] = label]
        BY <1>6, <2>5 DEF AddNat, GoTo
      <3>2. lease[g] = [addr |-> addr[g], cidr |-> cidr[g]] /\ lease[g] # Nothing
        BY <1>1, <1>3, <3>1, LeasesAre DEF InterfaceFollows
      <3>3. QED
        BY <1>1, <1>2, <1>4, <2>1, <3>1, <3>2, GoesOnHost DEF HostTyped, Label, Updating
    <2>6. QED
      BY <1>2, <2>2, <2>3, <2>4, <2>5 DEF StoreAddr, StoreCidr
  <1>7. QED
    BY <1>5, <1>6

LEMMA RegisterHost ==
    ASSUME HostInv, NEW g \in Group, Start(g) \/ Refused(g) \/ Registered(g)
    PROVE  HostInv'
  <1>1. HostTyped /\ InterfaceFollows(g) /\ SettledFollows(g)
    BY DEF HostInv, GroupsFollow
  <1>2. /\ pc[g] \in {"start", "register"}
        /\ UNCHANGED <<addr, cidr, connected, ips, routes, synced, isAddNat, ending, failed>>
    BY DEF Start, Refused, Registered, host, Runs
  <1>3. ASSUME NEW l \in Leases[g], Begin(g, l), lease' = [lease EXCEPT ![g] = l]
        PROVE  HostInv'
    BY <1>1, <1>2, <1>3, BeginHost DEF HostTyped
  <1>4. CASE Start(g)
    <2>1. CASE Manual[g] # Nothing
      <3>1. Manual[g] \in Leases[g] /\ Begin(g, Manual[g]) /\ UNCHANGED lease
            /\ lease[g] = Manual[g]
        BY <1>1, <1>4, <2>1, NodeHostAssumption DEF Start, Begin, GoTo, InterfaceFollows, HostTyped
      <3>2. QED
        BY <1>1, <1>2, <3>1, BeginHost DEF HostTyped
    <2>2. CASE Manual[g] = Nothing
      <3>1. pc' = [pc EXCEPT ![g] = "register"] /\ UNCHANGED <<lease, update>>
            /\ lease[g] = Nothing
        BY <1>1, <1>4, <2>2 DEF Start, GoTo, InterfaceFollows
      <3>2. QED
        BY <1>1, <1>2, <3>1, GoesOnHost DEF HostTyped, Label
    <2>3. QED
      BY <2>1, <2>2
  <1>5. CASE Refused(g)
    <2>1. pc[g] = "register" /\ lease' = [lease EXCEPT ![g] = Nothing] /\ UNCHANGED <<pc, update>>
      BY <1>5 DEF Refused
    <2>2. HostTyped'
      BY <1>1, <1>2, <2>1 DEF HostTyped
    <2>3. \A h \in Group \ {g} : Same(h)
      BY <1>1, <1>2, <2>1 DEF Same, HostTyped
    <2>4. InterfaceFollows(g)'
      BY <1>1, <1>2, <2>1 DEF InterfaceFollows, Updating, HostTyped
    <2>5. SettledFollows(g)'
      BY <1>1, <1>2, <2>1 DEF SettledFollows, Settled, Mine, HostTyped
    <2>6. QED
      BY <1>2, <2>2, <2>3, <2>4, <2>5, GroupStep
  <1>6. CASE Registered(g)
    <2>1. CASE lease[g] # Nothing
      <3>1. /\ pc[g] = "register" /\ pc' = [pc EXCEPT ![g] = "routes"]
            /\ UNCHANGED <<lease, update>>
        BY <1>6, <2>1 DEF Registered, GoTo
      <3>2. lease[g] = [addr |-> addr[g], cidr |-> cidr[g]]
        BY <1>1, <2>1, <3>1 DEF SettledFollows, Settled
      <3>3. QED
        BY <1>1, <1>2, <2>1, <3>1, <3>2, GoesOnHost DEF HostTyped, Label
    <2>2. CASE lease[g] = Nothing
      BY <1>3, <1>6, <2>2 DEF Registered
    <2>3. QED
      BY <2>1, <2>2
  <1>7. QED
    BY <1>4, <1>5, <1>6

LEMMA StepHost == IInv /\ HostInv /\ [Next]_vars => HostInv'
  <1> SUFFICES ASSUME IInv, HostInv, [Next]_vars PROVE HostInv'
    OBVIOUS
  <1>1. CASE Signal \/ UNCHANGED vars
    <2>1. /\ UNCHANGED <<pc, lease, update, addr, cidr, connected, ips, routes, isAddNat, synced>>
          /\ UNCHANGED failed /\ ending' \in BOOLEAN
      BY <1>1 DEF Signal, vars, host, HostInv, HostTyped
    <2>2. HostTyped'
      BY <2>1 DEF HostInv, HostTyped
    <2>3. ASSUME NEW g \in Group PROVE InterfaceFollows(g)' /\ SettledFollows(g)'
      BY <2>1
      DEF HostInv, GroupsFollow, InterfaceFollows, SettledFollows, Settled, Mine
    <2>4. QED
      BY <2>2, <2>3 DEF HostInv, GroupsFollow
  <1>2. QED
    BY <1>1, RegisterHost, UpdateHost, StoreHost, JoinHost, EndHost DEF Next

LEMMA HostAlways == Spec => [](IInv /\ HostInv)
  <1>1. Init => IInv /\ HostInv
    BY InitIInv, InitHost
  <1>2. IInv /\ HostInv /\ [Next]_vars => (IInv /\ HostInv)'
    BY StepIInv, StepHost
  <1>3. QED
    BY <1>1, <1>2, PTL DEF Spec

(* Whatever fails and whoever is told to end when, a group registers and   *)
(* sets up only what its server assigned.                                  *)
THEOREM HostIsTyped == Spec => []TypeOK
  <1>1. HostInv => TypeOK
    <2> SUFFICES ASSUME HostInv PROVE TypeOK
      OBVIOUS
    <2>1. ASSUME NEW g \in Group
          PROVE  /\ lease[g] \in Leases[g] \cup {Nothing}
                 /\ pc[g] \in Updating =>
                      update[g] \in [old : [addr : Address, cidr : Network], new : Leases[g]]
      BY LeasesAre DEF HostInv, GroupsFollow, InterfaceFollows
    <2>2. QED
      BY <2>1 DEF HostInv, HostTyped, TypeOK
  <1>2. QED
    BY <1>1, HostAlways, PTL

----------------------------------------------------------------------------
(* The TUN device and the NAT table, which the groups share. *)
Act(g) ==
    \/ Start(g) \/ Refused(g) \/ Registered(g) \/ UpdateTable(g)
    \/ DeleteAddr(g) \/ AddAddr(g) \/ StoreAddr(g) \/ StoreCidr(g)
    \/ DelNat(g) \/ AddNat(g) \/ Join(g) \/ Leave(g) \/ Cleanup(g)

(* What a step of g may change that other groups rely on. *)
Spares(g) ==
    /\ \A h \in Group \ {g} : Same(h) /\ isAddNat'[h] = isAddNat[h]
    /\ ips \ Own(g) \subseteq ips'
    /\ \A r : r[1] \notin Offered(g) => (r \in nat <=> r \in nat')
    /\ ending => ending'

LEMMA RulesAreOffered ==
    ASSUME NEW g \in Group, NEW c
    PROVE  /\ \A r \in Rules(g, c) : r[1] \in Offered(g)
           /\ \A k \in 0 .. Len(AllowedIps[g]) - 1 : FirstRules(g, c, k) \subseteq Rules(g, c)
           /\ AllowedIps[g] = <<>> => Rules(g, c) = {}
  <1>1. AllowedIps[g] \in Seq(Network)
    BY NodeHostAssumption
  <1>2. \A k \in 0 .. Len(AllowedIps[g]) - 1 : 1 .. k \subseteq DOMAIN AllowedIps[g]
    BY <1>1
  <1>3. QED
    BY <1>2 DEF Rules, FirstRules, Offered

LEMMA StepSpares ==
    ASSUME HostInv, NEW g \in Group, Act(g)
    PROVE  Spares(g)
  <1>1. HostTyped /\ InterfaceFollows(g)
    BY DEF HostInv, GroupsFollow
  <1> USE <1>1 DEF GoTo, Fail, Runs, Begin, host
  <1>2. CASE Start(g) \/ Refused(g) \/ Registered(g)
    BY <1>2 DEF Start, Refused, Registered, Spares, Same, HostTyped
  <1>3. CASE UpdateTable(g) \/ StoreAddr(g) \/ StoreCidr(g) \/ Leave(g)
    BY <1>3 DEF UpdateTable, StoreAddr, StoreCidr, Leave, Spares, Same, HostTyped
  <1>4. CASE DeleteAddr(g) \/ AddAddr(g)
    <2>1. DeleteAddr(g) => update[g].old.addr \in Own(g)
      BY DEF DeleteAddr, InterfaceFollows, Updating
    <2>2. QED
      BY <1>4, <2>1 DEF DeleteAddr, AddAddr, Spares, Same, HostTyped
  <1>5. CASE Join(g)
    BY <1>5 DEF Join, Spares, Same, HostTyped
  <1>6. CASE DelNat(g) \/ AddNat(g) \/ Cleanup(g)
    <2>1. /\ \A h \in Group \ {g} : Same(h) /\ isAddNat'[h] = isAddNat[h]
          /\ UNCHANGED ips /\ (ending => ending')
      BY <1>6 DEF DelNat, AddNat, Cleanup, Same, HostTyped
    <2>2. \E R : /\ nat' = nat \/ nat' = nat \ R \/ nat' = nat \cup R
                 /\ \A r \in R : r[1] \in Offered(g)
      <3>1. CASE DelNat(g)
        BY <3>1, RulesAreOffered DEF DelNat
      <3>2. CASE AddNat(g)
        <4>1. \/ nat' = nat \/ nat' = nat \cup Rules(g, update[g].new.cidr)
              \/ \E k \in 0 .. Len(AllowedIps[g]) - 1 :
                    nat' = nat \cup FirstRules(g, update[g].new.cidr, k)
          BY <3>2 DEF AddNat
        <4>2. QED
          BY <4>1, RulesAreOffered
      <3>3. CASE Cleanup(g)
        BY <3>3, RulesAreOffered DEF Cleanup
      <3>4. QED
        BY <1>6, <3>1, <3>2, <3>3
    <2>3. QED
      BY <2>1, <2>2 DEF Spares
  <1>7. QED
    BY <1>2, <1>3, <1>4, <1>5, <1>6 DEF Act

(* It is enough to look at the group that takes the step. *)
LEMMA SharedStep ==
    ASSUME GroupsAreApart, HostInv, SharedInv, NEW g \in Group, Spares(g),
           OnDevice(g)', NatFollows(g)'
    PROVE  SharedInv'
  <1>1. ASSUME NEW h \in Group, h # g PROVE OnDevice(h)' /\ NatFollows(h)'
    <2>1. Same(h) /\ isAddNat'[h] = isAddNat[h] /\ InterfaceFollows(h)
      BY <1>1 DEF Spares, HostInv, GroupsFollow
    <2>2. OnDevice(h)'
      <3>1. \A a \in Own(h) \ {UNSPECIFIED} : a \in ips => a \in ips'
        BY <1>1 DEF GroupsAreApart, Own, Spares
      <3>2. addr[h] \in Own(h)
        BY <2>1 DEF InterfaceFollows
      <3>3. pc[h] \in Updating => update[h].new.addr \in Own(h) \ {UNSPECIFIED}
        BY <2>1, LeasesAre DEF InterfaceFollows
      <3>4. OnDevice(h)
        BY DEF SharedInv
      <3>5. QED
        BY <2>1, <3>1, <3>2, <3>3, <3>4 DEF OnDevice, Same, Updating
    <2>3. NatFollows(h)'
      <3>1. RulesOf(h)' = RulesOf(h)
        <4>1. \A x \in Offered(h) : x \notin Offered(g)
          BY <1>1 DEF GroupsAreApart, Offered
        <4>2. QED
          BY <4>1 DEF RulesOf, Offered, Spares
      <3>2. NatFollows(h) /\ (ending => ending')
        BY DEF SharedInv, Spares
      <3>3. QED
        BY <2>1, <3>1, <3>2 DEF NatFollows, Settled, NatCidr, Rules, Same
    <2>4. QED
      BY <2>2, <2>3
  <1>2. QED
    BY <1>1 DEF SharedInv

LEMMA StepDevice ==
    ASSUME HostInv, HostInv', SharedInv, NEW g \in Group, Act(g)
    PROVE  OnDevice(g)'
  <1>1. /\ HostTyped /\ InterfaceFollows(g) /\ SettledFollows(g) /\ SettledFollows(g)'
        /\ OnDevice(g) /\ InterfaceFollows(g)'
    BY DEF HostInv, GroupsFollow, SharedInv
  <1> USE <1>1 DEF GoTo, Fail, Runs, Begin, host
  <1>2. CASE Start(g) \/ Refused(g) \/ Registered(g)
    BY <1>2 DEF Start, Refused, Registered, OnDevice, HostTyped
  <1>3. CASE UpdateTable(g)
    <2>1. /\ pc[g] = "table" /\ pc'[g] \in {"del_nat", "delete_addr"}
          /\ pc'[g] = "del_nat" => update[g].old = update[g].new
          /\ UNCHANGED <<update, addr, ips, connected>>
      BY <1>3 DEF UpdateTable, HostTyped
    <2>2. pc'[g] = "del_nat" => update[g].new.addr = addr[g] /\ addr[g] # UNSPECIFIED
      BY <2>1, LeasesAre DEF InterfaceFollows, Updating
    <2>3. QED
      BY <2>1, <2>2 DEF OnDevice, SettledFollows
  <1>4. CASE DeleteAddr(g) \/ AddAddr(g)
    BY <1>4 DEF DeleteAddr, AddAddr, OnDevice, SettledFollows, HostTyped
  <1>5. CASE StoreAddr(g) \/ StoreCidr(g) \/ DelNat(g)
    BY <1>5 DEF StoreAddr, StoreCidr, DelNat, OnDevice, SettledFollows, HostTyped
  <1>6. CASE AddNat(g)
    <2>1. pc[g] = "add_nat" /\ UNCHANGED <<addr, ips, connected>>
          /\ pc'[g] \in {"register", "routes", "failed"}
      BY <1>6 DEF AddNat, HostTyped
    <2>2. addr[g] \in ips
      BY <2>1 DEF OnDevice, InterfaceFollows
    <2>3. QED
      BY <2>1, <2>2 DEF OnDevice
  <1>7. CASE Join(g) \/ Leave(g) \/ Cleanup(g)
    BY <1>7 DEF Join, Leave, Cleanup, OnDevice, SettledFollows, HostTyped
  <1>8. QED
    BY <1>2, <1>3, <1>4, <1>5, <1>6, <1>7 DEF Act

LEMMA StepNat ==
    ASSUME IInv, HostInv, HostInv', SharedInv, NEW g \in Group, Act(g)
    PROVE  NatFollows(g)'
  <1> SUFFICES ASSUME ~ending' PROVE NatFollows(g)'
    BY DEF NatFollows
  <1>1. /\ HostTyped /\ InterfaceFollows(g) /\ SettledFollows(g) /\ SettledFollows(g)'
        /\ NatFollows(g) /\ ~ending
        /\ pc[g] \in Before => update[g].old.cidr = cidr[g]
    BY StepSpares DEF HostInv, GroupsFollow, SharedInv, Spares, IInv, UpdateIsCurrent
  <1>2. ~Fail(g) /\ ~Cleanup(g)
    BY <1>1 DEF Fail, Cleanup
  <1>3. ASSUME UNCHANGED <<nat, isAddNat>>, NatCidr(g)' = NatCidr(g),
               pc'[g] \notin {"gone", "failed"}, Settled(g)' => Settled(g)
        PROVE  NatFollows(g)'
    BY <1>1, <1>3 DEF NatFollows, RulesOf, Offered, Rules
  <1> USE DEF GoTo, Runs, Begin, host
  <1>4. CASE Start(g) \/ Refused(g) \/ Registered(g)
    <2>1. /\ UNCHANGED <<nat, isAddNat, cidr, connected>> /\ pc[g] \in {"start", "register"}
          /\ pc'[g] \in {"register", "table", "routes"}
          /\ Settled(g)' => Settled(g)
      BY <1>1, <1>4 DEF Start, Refused, Registered, HostTyped, Settled, InterfaceFollows
    <2>2. QED
      BY <1>3, <2>1 DEF NatCidr
  <1>5. CASE UpdateTable(g) \/ StoreAddr(g) \/ StoreCidr(g)
    <2>1. /\ UNCHANGED <<nat, isAddNat, update, connected>> /\ pc[g] \in Before
          /\ pc'[g] \in Updating
          /\ IF pc'[g] = "del_nat" THEN TRUE ELSE cidr'[g] = cidr[g]
      BY <1>1, <1>5 DEF UpdateTable, StoreAddr, StoreCidr, HostTyped, Before, Updating
    <2>2. ~Settled(g)'
      BY <1>1, <2>1 DEF Settled, SettledFollows, Updating
    <2>3. QED
      BY <1>1, <1>3, <2>1, <2>2 DEF NatCidr, Before, Updating
  <1>6. CASE DeleteAddr(g) \/ AddAddr(g)
    <2>1. /\ UNCHANGED <<nat, isAddNat, cidr, connected>> /\ pc[g] \in {"delete_addr", "add_addr"}
          /\ pc'[g] \in {"add_addr", "store_addr"}
      BY <1>1, <1>2, <1>6 DEF DeleteAddr, AddAddr, HostTyped
    <2>2. QED
      BY <1>3, <2>1 DEF NatCidr, Settled
  <1>7. CASE DelNat(g)
    <2> DEFINE needed == /\ AllowedIps[g] # <<>>
                         /\ update[g].old.cidr # update[g].new.cidr
                         /\ isAddNat[g]
    <2>1. /\ pc[g] = "del_nat" /\ pc'[g] = "add_nat" /\ UNCHANGED <<cidr, connected>>
          /\ nat' = IF needed THEN nat \ Rules(g, update[g].old.cidr) ELSE nat
          /\ isAddNat'[g] = (isAddNat[g] /\ ~needed)
          /\ cidr[g] = update[g].new.cidr
      BY <1>1, <1>2, <1>7 DEF DelNat, HostTyped, InterfaceFollows
    <2>2. ~Settled(g)'
      BY <1>1, <2>1 DEF Settled, SettledFollows
    <2>3. RulesOf(g) = IF isAddNat[g] THEN Rules(g, update[g].old.cidr) ELSE {}
      BY <1>1, <2>1 DEF NatFollows, NatCidr
    <2>4. NatCidr(g)' = cidr[g]
      BY <2>1 DEF NatCidr
    <2>5. CASE needed
      BY <2>1, <2>2, <2>3, <2>5 DEF NatFollows, RulesOf, Offered
    <2>6. CASE ~needed
      <3>1. /\ isAddNat'[g] = isAddNat[g]
            /\ isAddNat[g] => Rules(g, update[g].old.cidr) = Rules(g, cidr[g])
        <4>1. CASE AllowedIps[g] = <<>>
          BY <1>1, <2>1, <4>1, RulesAreOffered DEF HostTyped
        <4>2. CASE AllowedIps[g] # <<>>
          BY <1>1, <2>1, <2>6, <4>2 DEF HostTyped
        <4>3. QED
          BY <4>1, <4>2
      <3>2. RulesOf(g)' = RulesOf(g) /\ Rules(g, NatCidr(g))' = Rules(g, cidr[g])
        BY <2>1, <2>4, <2>6 DEF RulesOf, Offered, Rules
      <3>3. QED
        BY <2>1, <2>2, <2>3, <3>1, <3>2 DEF NatFollows
    <2>7. QED
      BY <2>5, <2>6
  <1>8. CASE AddNat(g)
    <2> DEFINE needed == AllowedIps[g] # <<>> /\ ~isAddNat[g]
    <2>1. /\ pc[g] = "add_nat" /\ pc'[g] \in {"register", "routes"} /\ UNCHANGED cidr
          /\ nat' = IF needed THEN nat \cup Rules(g, update[g].new.cidr) ELSE nat
          /\ isAddNat'[g] = (isAddNat[g] \/ needed)
          /\ cidr[g] = update[g].new.cidr
      BY <1>1, <1>2, <1>8 DEF AddNat, HostTyped, InterfaceFollows
    <2>2. RulesOf(g) = IF isAddNat[g] THEN Rules(g, cidr[g]) ELSE {}
      BY <1>1, <2>1 DEF NatFollows, NatCidr
    <2>3. RulesOf(g)' = IF needed THEN RulesOf(g) \cup Rules(g, cidr[g]) ELSE RulesOf(g)
      BY <2>1, RulesAreOffered DEF RulesOf, Offered
    <2>4. Rules(g, NatCidr(g))' = Rules(g, cidr[g])
      BY <2>1 DEF NatCidr, Rules
    <2>5. AllowedIps[g] = <<>> \/ isAddNat'[g]
      BY <2>1
    <2>6. QED
      BY <2>1, <2>2, <2>3, <2>4, <2>5, RulesAreOffered DEF NatFollows
  <1>9. CASE Join(g) \/ Leave(g)
    <2>1. /\ UNCHANGED <<nat, isAddNat, cidr>> /\ pc[g] \in {"routes", "joined"}
          /\ pc'[g] \in {"joined", "register"}
      BY <1>1, <1>2, <1>9 DEF Join, Leave, HostTyped
    <2>2. QED
      BY <1>3, <2>1 DEF NatCidr, Settled
  <1>10. QED
    BY <1>2, <1>4, <1>5, <1>6, <1>7, <1>8, <1>9 DEF Act

LEMMA InitShared == Init => SharedInv
  BY DEF Init, SharedInv, OnDevice, NatFollows, RulesOf, Settled, NatCidr

LEMMA StepShared ==
    ASSUME GroupsAreApart, IInv, HostInv, HostInv', SharedInv, [Next]_vars
    PROVE  SharedInv'
  <1>1. ASSUME NEW g \in Group, Act(g) PROVE SharedInv'
    BY <1>1, StepSpares, StepDevice, StepNat, SharedStep
  <1>2. CASE Signal \/ UNCHANGED vars
    <2>1. /\ UNCHANGED <<pc, lease, update, addr, cidr, connected, ips, nat, isAddNat>>
          /\ ending => ending'
      BY <1>2 DEF Signal, vars, host
    <2>2. ASSUME NEW g \in Group PROVE OnDevice(g)' /\ NatFollows(g)'
      BY <2>1 DEF SharedInv, OnDevice, NatFollows, RulesOf, Offered, Rules, NatCidr, Settled
    <2>3. QED
      BY <2>2 DEF SharedInv
  <1>3. QED
    BY <1>1, <1>2 DEF Next, Act

(* Whatever addresses the servers assign, whichever commands fail, and     *)
(* whatever the tasks of the other groups do meanwhile: while packets of a *)
(* group are handled, the interface, the TUN device, the NAT rules and the *)
(* routes of the system are those of the address that it has registered,   *)
(* if the networks of the groups are apart.                                *)
THEOREM ConsistentWhileConnected ==
    ASSUME GroupsAreApart
    PROVE  Spec => []ConnectedIsConsistent
  <1>1. ASSUME HostInv, SharedInv PROVE ConnectedIsConsistent
    <2> SUFFICES ASSUME NEW g \in Group, connected[g]
                 PROVE  /\ lease[g] = [addr |-> addr[g], cidr |-> cidr[g]]
                        /\ addr[g] \in ips
                        /\ ~ending => {r \in nat : \E k \in DOMAIN AllowedIps[g] :
                                          r[1] = AllowedIps[g][k]} = Rules(g, cidr[g])
                        /\ Mine(g) \subseteq routes
      BY DEF ConnectedIsConsistent, Mine
    <2>1. InterfaceFollows(g) /\ SettledFollows(g) /\ OnDevice(g) /\ NatFollows(g)
      BY <1>1 DEF HostInv, GroupsFollow, SharedInv
    <2>2. /\ lease[g] = [addr |-> addr[g], cidr |-> cidr[g]] /\ Mine(g) \subseteq routes
          /\ pc[g] \in {"joined", "gone"} /\ Settled(g)
      BY <2>1 DEF SettledFollows, Settled
    <2>3. addr[g] # UNSPECIFIED
      <3>1. lease[g] # Nothing
        BY <1>1, <2>2, NodeHostAssumption DEF HostInv, HostTyped
      <3>2. lease[g] \in Leases[g]
        BY <2>1, <3>1 DEF InterfaceFollows
      <3>3. lease[g].addr # UNSPECIFIED
        BY <3>2, LeasesAre
      <3>4. QED
        BY <2>2, <3>3
    <2>4. addr[g] \in ips
      BY <2>1, <2>3 DEF OnDevice
    <2>5. ~ending => RulesOf(g) = Rules(g, cidr[g])
      BY <2>1, <2>2, RulesAreOffered DEF NatFollows, NatCidr
    <2>6. QED
      BY <2>2, <2>4, <2>5 DEF RulesOf, Offered
  <1>2. Init => IInv /\ HostInv /\ SharedInv
    BY InitIInv, InitHost, InitShared
  <1>3. IInv /\ HostInv /\ SharedInv /\ [Next]_vars => (IInv /\ HostInv /\ SharedInv)'
    BY StepIInv, StepHost, StepShared
  <1>4. QED
    BY <1>1, <1>2, <1>3, PTL DEF Spec
----------------------------------------------------------------------------
(* Every set of numbers that is not empty has a least one. *)
Less == {p \in Nat \X Nat : p[1] < p[2]}

LEMMA LeastNumber ==
    ASSUME NEW T, T \subseteq Nat, T # {}
    PROVE  \E x \in T : \A y \in T : x <= y
  <1>1. IsWellFoundedOn(Less, Nat)
    BY NatLessThanWellFounded DEF OpToRel, Less
  <1>2. \E x \in T : \A y \in T : <<y, x>> \notin Less
    BY <1>1, WFMin
  <1>3. \A x, y \in Nat : <<y, x>> \notin Less <=> x <= y
    BY DEF Less
  <1>4. QED
    BY <1>2, <1>3

(* A set of numbers with 0 and with the successor of each of its numbers   *)
(* below n has all up to n.                                                *)
LEMMA Induction ==
    ASSUME NEW n \in Nat, NEW S, 0 \in S, \A k \in 0 .. n - 1 : k \in S => k + 1 \in S
    PROVE  0 .. n \subseteq S
  <1> DEFINE T == (0 .. n) \ S
  <1> SUFFICES ASSUME T # {} PROVE FALSE
    OBVIOUS
  <1>1. PICK x \in T : \A y \in T : x <= y
    <2> HIDE DEF T
    <2>1. T \subseteq Nat
      BY DEF T
    <2>2. QED
      BY <2>1, LeastNumber
  <1>2. x \in 1 .. n /\ x - 1 \in 0 .. n - 1 /\ x - 1 \notin T
    BY <1>1
  <1>3. x - 1 \in S /\ (x - 1) + 1 = x
    BY <1>2
  <1>4. QED
    BY <1>2, <1>3

LEMMA MinIs ==
    ASSUME NEW T, T \subseteq Nat, T # {}
    PROVE  Min(T) \in T /\ \A y \in T : Min(T) <= y
  BY LeastNumber DEF Min

LEMMA MaxIs ==
    ASSUME NEW n \in Nat, NEW T, T \subseteq 1 .. n, T # {}
    PROVE  Max(T) \in T /\ \A y \in T : y <= Max(T)
  <1> DEFINE U == {n - y : y \in T}
  <1>1. U \subseteq Nat /\ U # {}
    <2>1. \A y \in T : y \in 1 .. n /\ n - y \in Nat
      OBVIOUS
    <2>2. QED
      BY <2>1
  <1>2. PICK u \in U : \A v \in U : u <= v
    <2> HIDE DEF U
    <2>1. QED BY <1>1, LeastNumber
  <1>3. PICK x \in T : u = n - x
    OBVIOUS
  <1>4. ASSUME NEW y \in T PROVE x >= y
    <2>1. n - y \in U /\ x \in 1 .. n /\ y \in 1 .. n
      OBVIOUS
    <2>2. n - x <= n - y
      BY <1>2, <1>3, <2>1
    <2>3. QED
      BY <2>1, <2>2
  <1>5. \E z \in T : \A y \in T : z >= y
    BY <1>4
  <1>6. Max(T) \in T /\ \A y \in T : Max(T) >= y
    BY <1>5 DEF Max
  <1>7. \A y \in T : y \in 1 .. n
    OBVIOUS
  <1>8. QED
    BY <1>6, <1>7

(* A fold over a sequence of length n, as a recursive function on the sets *)
(* of its indices.                                                         *)
IsFold(f, base, step, n) ==
    f = [s \in SUBSET (1 .. n) |->
            IF s = {} THEN base ELSE step[f[s \ {Max(s)}], Max(s)]]

LEMMA FoldExists ==
    ASSUME NEW n \in Nat, NEW base, NEW step
    PROVE  \E f : IsFold(f, base, step, n)
  <1> DEFINE S == {k \in Nat : \E f : IsFold(f, base, step, k)}
  <1>1. 0 \in S
    <2> DEFINE f == [s \in {{}} |-> base]
    <2>1. SUBSET (1 .. 0) = {{}}
      OBVIOUS
    <2>2. IsFold(f, base, step, 0)
      BY <2>1 DEF IsFold
    <2>3. QED
      BY <2>2
  <1>2. ASSUME NEW k \in 0 .. n - 1, k \in S PROVE k + 1 \in S
    <2>1. PICK f : IsFold(f, base, step, k)
      BY <1>2
    <2> DEFINE D == SUBSET (1 .. k + 1)
               g == [s \in D |-> IF k + 1 \in s THEN step[f[s \ {k + 1}], k + 1] ELSE f[s]]
    <2>2. ASSUME NEW s \in D
          PROVE  g[s] = IF s = {} THEN base ELSE step[g[s \ {Max(s)}], Max(s)]
      <3>1. CASE k + 1 \in s
        <4>1. Max(s) = k + 1
          <5>1. k + 1 \in Nat /\ s \subseteq 1 .. k + 1 /\ s # {}
            BY <3>1
          <5>2. Max(s) \in s /\ k + 1 <= Max(s)
            BY <3>1, <5>1, MaxIs
          <5>3. Max(s) \in 1 .. k + 1
            BY <5>1, <5>2
          <5>4. QED
            BY <5>2, <5>3
        <4>2. s \ {k + 1} \in D /\ k + 1 \notin s \ {k + 1}
          OBVIOUS
        <4>3. QED
          BY <3>1, <4>1, <4>2
      <3>2. CASE k + 1 \notin s
        <4>1. s \in SUBSET (1 .. k)
          BY <3>2
        <4>2. g[s] = f[s]
          BY <3>2
        <4>3. f[s] = IF s = {} THEN base ELSE step[f[s \ {Max(s)}], Max(s)]
          BY <2>1, <4>1 DEF IsFold
        <4>4. g[s \ {Max(s)}] = f[s \ {Max(s)}]
          BY <3>2
        <4>5. QED
          BY <4>2, <4>3, <4>4
      <3>3. QED
        BY <3>1, <3>2
    <2>3. IsFold(g, base, step, k + 1)
      <3> HIDE DEF g
      <3>1. g = [s \in D |-> g[s]]
        BY DEF g
      <3>2. g = [s \in D |-> IF s = {} THEN base ELSE step[g[s \ {Max(s)}], Max(s)]]
        BY <2>2, <3>1
      <3>3. QED
        BY <3>2 DEF IsFold
    <2>4. \E h : IsFold(h, base, step, k + 1)
      BY <2>3
    <2>5. k + 1 \in Nat
      OBVIOUS
    <2>6. QED
      BY <2>4, <2>5
  <1>3. n \in S
    <2> HIDE DEF S
    <2>1. 0 .. n \subseteq S
      BY <1>1, <1>2, Induction
    <2>2. QED BY <2>1
  <1>4. QED
    BY <1>3

(* The values that a fold goes through. *)
LEMMA FoldGoesOn ==
    ASSUME NEW n \in Nat, NEW base, NEW step, NEW f, IsFold(f, base, step, n)
    PROVE  /\ f[1 .. 0] = base
           /\ \A k \in 1 .. n : f[1 .. k] = step[f[1 .. k - 1], k]
  <1>1. f[1 .. 0] = base
    <2>1. 1 .. 0 = {}
      OBVIOUS
    <2>2. QED
      BY <2>1 DEF IsFold
  <1>2. ASSUME NEW k \in 1 .. n PROVE f[1 .. k] = step[f[1 .. k - 1], k]
    <2>1. Max(1 .. k) = k
      <3>1. k \in Nat /\ 1 .. k \subseteq 1 .. k /\ 1 .. k # {} /\ k \in 1 .. k
        OBVIOUS
      <3>2. Max(1 .. k) \in 1 .. k /\ k <= Max(1 .. k)
        BY <3>1, MaxIs
      <3>3. QED
        BY <3>2
    <2>2. (1 .. k) \ {k} = 1 .. k - 1
      OBVIOUS
    <2>3. 1 .. k \in SUBSET (1 .. n) /\ 1 .. k # {}
      OBVIOUS
    <2>4. QED
      BY <2>1, <2>2, <2>3 DEF IsFold
  <1>3. QED
    BY <1>1, <1>2

(* The values of a fold stay in a set that its steps do not leave. *)
StaysIn(step, V, n) == \A v \in V, i \in 1 .. n : step[v, i] \in V

LEMMA FoldIsTyped ==
    ASSUME NEW n \in Nat, NEW base, NEW step, NEW f, IsFold(f, base, step, n),
           NEW V, base \in V, StaysIn(step, V, n)
    PROVE  \A s \in SUBSET (1 .. n) : f[s] \in V
  <1> DEFINE S == {k \in Nat : \A s \in SUBSET (1 .. k) : s \in SUBSET (1 .. n) => f[s] \in V}
  <1>1. 0 \in S
    <2>1. \A s \in SUBSET (1 .. 0) : s = {}
      OBVIOUS
    <2>2. f[{}] = base
      BY DEF IsFold
    <2>3. QED
      BY <2>1, <2>2
  <1>2. ASSUME NEW k \in 0 .. n - 1, k \in S PROVE k + 1 \in S
    <2>1. ASSUME NEW s \in SUBSET (1 .. k + 1), s \in SUBSET (1 .. n), s # {}
          PROVE  f[s] \in V
      <3>1. Max(s) \in s /\ \A y \in s : y <= Max(s)
        BY <2>1, MaxIs
      <3>2. s \ {Max(s)} \in SUBSET (1 .. k)
        <4>1. ASSUME NEW y \in s, y # Max(s) PROVE y \in 1 .. k
          <5>1. y \in 1 .. k + 1 /\ Max(s) \in 1 .. k + 1
            BY <3>1, Zenon
          <5>2. y <= Max(s) /\ k \in Nat
            BY <3>1
          <5>3. QED
            BY <4>1, <5>1, <5>2
        <4>2. QED
          BY <4>1
      <3>3. s \ {Max(s)} \in SUBSET (1 .. n) /\ Max(s) \in 1 .. n
        BY <2>1, <3>1
      <3>4. f[s \ {Max(s)}] \in V
        BY <1>2, <3>2, <3>3
      <3>5. f[s] = step[f[s \ {Max(s)}], Max(s)]
        BY <2>1 DEF IsFold
      <3>6. QED
        BY <3>3, <3>4, <3>5 DEF StaysIn
    <2>2. f[{}] \in V
      BY DEF IsFold
    <2>3. \A s \in SUBSET (1 .. k + 1) : s \in SUBSET (1 .. n) => f[s] \in V
      BY <2>1, <2>2
    <2>4. k + 1 \in Nat
      OBVIOUS
    <2>5. QED
      BY <2>3, <2>4
  <1>3. 0 .. n \subseteq S
    <2> HIDE DEF S
    <2>1. QED
      BY <1>1, <1>2, Induction
  <1>4. n \in S
    <2> HIDE DEF S
    <2>1. QED
      BY <1>3
  <1>5. QED
    BY <1>4

----------------------------------------------------------------------------
(* Sequences *)
LEMMA InsertIs ==
    ASSUME NEW S, NEW s \in Seq(S), NEW i \in 1 .. Len(s) + 1, NEW e \in S
    PROVE  /\ InsertAt(s, i, e) \in Seq(S) /\ Len(InsertAt(s, i, e)) = Len(s) + 1
           /\ \A j \in 1 .. Len(s) + 1 :
                 InsertAt(s, i, e)[j] = IF j < i THEN s[j] ELSE IF j = i THEN e ELSE s[j - 1]
  <1> DEFINE a == SubSeq(s, 1, i - 1)
             b == SubSeq(s, i, Len(s))
  <1>1. Len(s) \in Nat /\ i \in Nat
    OBVIOUS
  <1>2. /\ a \in Seq(S) /\ Len(a) = i - 1 /\ \A j \in 1 .. i - 1 : a[j] = s[j]
        /\ b \in Seq(S) /\ Len(b) = Len(s) + 1 - i
        /\ \A j \in 1 .. Len(s) + 1 - i : b[j] = s[i + j - 1]
    OBVIOUS
  <1>3. InsertAt(s, i, e) = (a \o <<e>>) \o b
    BY DEF InsertAt
  <1> HIDE DEF a, b
  <1>4. /\ a \o <<e>> \in Seq(S) /\ Len(a \o <<e>>) = i
        /\ \A j \in 1 .. i : (a \o <<e>>)[j] = IF j < i THEN s[j] ELSE e
    BY <1>2
  <1> DEFINE c == a \o <<e>>
  <1> HIDE DEF c
  <1>5. c \in Seq(S) /\ Len(c) = i /\ \A j \in 1 .. i : c[j] = IF j < i THEN s[j] ELSE e
    BY <1>4 DEF c
  <1>6. c \o b \in Seq(S) /\ Len(c \o b) = Len(s) + 1
    <2>1. c \in Seq(S) /\ b \in Seq(S) /\ Len(c) + Len(b) = Len(s) + 1
      BY <1>1, <1>2, <1>5
    <2>2. c \o b \in Seq(S) /\ Len(c \o b) = Len(c) + Len(b)
      BY <2>1
    <2>3. QED
      BY <2>1, <2>2
  <1>7. ASSUME NEW j \in 1 .. Len(s) + 1
        PROVE  (c \o b)[j] = IF j < i THEN s[j] ELSE IF j = i THEN e ELSE s[j - 1]
    <2>1. j \in Nat
      OBVIOUS
    <2>2. CASE j <= i
      <3>1. j \in 1 .. i /\ (c \o b)[j] = c[j]
        BY <1>1, <1>2, <1>5, <2>1, <2>2
      <3>2. QED
        BY <1>1, <1>5, <2>1, <3>1
    <2>3. CASE ~(j <= i)
      <3>1. j - i \in 1 .. Len(s) + 1 - i /\ i + (j - i) - 1 = j - 1 /\ ~(j < i) /\ j # i
        BY <1>1, <2>1, <2>3
      <3>2. (c \o b)[j] = b[j - i]
        BY <1>1, <1>2, <1>5, <2>1, <2>3
      <3>3. b[j - i] = s[j - 1]
        BY <1>2, <3>1
      <3>4. QED
        BY <3>1, <3>2, <3>3
    <2>4. QED
      BY <2>2, <2>3, Zenon
  <1>8. QED
    BY <1>3, <1>6, <1>7 DEF c

LEMMA RemoveIs ==
    ASSUME NEW S, NEW s \in Seq(S), NEW i \in 1 .. Len(s)
    PROVE  /\ RemoveAt(s, i) \in Seq(S) /\ Len(RemoveAt(s, i)) = Len(s) - 1
           /\ \A j \in 1 .. Len(s) - 1 :
                 RemoveAt(s, i)[j] = IF j < i THEN s[j] ELSE s[j + 1]
  <1> DEFINE a == SubSeq(s, 1, i - 1)
             b == SubSeq(s, i + 1, Len(s))
  <1>1. Len(s) \in Nat /\ i \in Nat /\ i >= 1
    OBVIOUS
  <1>2. /\ a \in Seq(S) /\ Len(a) = i - 1 /\ \A j \in 1 .. i - 1 : a[j] = s[j]
        /\ b \in Seq(S) /\ Len(b) = Len(s) - i
        /\ \A j \in 1 .. Len(s) - i : b[j] = s[i + j]
    OBVIOUS
  <1>3. RemoveAt(s, i) = a \o b
    BY DEF RemoveAt
  <1> HIDE DEF a, b
  <1>4. a \o b \in Seq(S) /\ Len(a \o b) = Len(s) - 1
    <2>1. a \in Seq(S) /\ b \in Seq(S) /\ Len(a) + Len(b) = Len(s) - 1
      BY <1>1, <1>2
    <2>2. a \o b \in Seq(S) /\ Len(a \o b) = Len(a) + Len(b)
      BY <2>1
    <2>3. QED
      BY <2>1, <2>2
  <1>5. ASSUME NEW j \in 1 .. Len(s) - 1
        PROVE  (a \o b)[j] = IF j < i THEN s[j] ELSE s[j + 1]
    <2>1. j \in Nat /\ j >= 1
      OBVIOUS
    <2>2. CASE j < i
      <3>1. j \in 1 .. i - 1 /\ (a \o b)[j] = a[j]
        BY <1>1, <1>2, <2>1, <2>2
      <3>2. QED
        BY <1>2, <2>2, <3>1
    <2>3. CASE ~(j < i)
      <3>1. j - (i - 1) \in 1 .. Len(s) - i /\ i + (j - (i - 1)) = j + 1
        BY <1>1, <2>1, <2>3
      <3>2. (a \o b)[j] = b[j - (i - 1)]
        BY <1>1, <1>2, <2>1, <2>3
      <3>3. b[j - (i - 1)] = s[j + 1]
        BY <1>2, <3>1
      <3>4. QED
        BY <2>3, <3>2, <3>3
    <2>4. QED
      BY <2>2, <2>3, Zenon
  <1>6. QED
    BY <1>3, <1>4, <1>5

(* A set of indices with all before each of its own. *)
LEMMA FrontIs ==
    ASSUME NEW n \in Nat, NEW T, T \subseteq 1 .. n, \A j \in T : 1 .. j \subseteq T
    PROVE  Cardinality(T) \in 0 .. n /\ T = 1 .. Cardinality(T)
  <1> DEFINE U == (1 .. n + 1) \ T
  <1>1. U \subseteq Nat /\ n + 1 \in U
    OBVIOUS
  <1>2. PICK u \in U : \A v \in U : u <= v
    <2> HIDE DEF U
    <2>1. QED
      BY <1>1, LeastNumber
  <1>3. u \in 1 .. n + 1 /\ u \notin T /\ \A v \in 1 .. n + 1 : v \notin T => u <= v
    BY <1>2
  <1>4. T = 1 .. u - 1
    <2>1. ASSUME NEW v \in T PROVE v \in 1 .. u - 1
      <3>1. v \in 1 .. n /\ u \notin 1 .. v
        BY <1>3
      <3>2. QED
        BY <1>3, <3>1
    <2>2. ASSUME NEW v \in 1 .. u - 1 PROVE v \in T
      <3>1. v \in 1 .. n + 1 /\ ~(u <= v)
        BY <1>3
      <3>2. QED
        BY <1>3, <3>1
    <2>3. QED
      BY <2>1, <2>2
  <1>5. Cardinality(1 .. u - 1) = u - 1
    BY <1>3, FS_Interval
  <1>6. QED
    BY <1>3, <1>4, <1>5

----------------------------------------------------------------------------
(* A routing table that has the items I. *)
Length(t, j) == t[j].cidr.len

ArrayIs(t, I) ==
    /\ t \in Seq(Item)
    /\ \A j, k \in DOMAIN t : j < k => Length(t, k) <= Length(t, j)
    /\ \A j, k \in DOMAIN t : t[j] = t[k] => j = k
    /\ I = {t[j] : j \in DOMAIN t}

HashIs(h, I) ==
    /\ h \in [{i.cidr : i \in I} -> I]
    /\ \A i \in I : h[i.cidr] = i

(* No two items have one network. *)
Apart(I) == \A i, j \in I : i.cidr = j.cidr => i = j

LEMMA ItemIs ==
    ASSUME NEW i \in Item
    PROVE  i.cidr \in Network /\ i.cidr.len \in Nat
  <1>1. BITS \in Nat
    BY NodeHostAssumption
  <1>2. QED
    BY <1>1 DEF Item, Network

LEMMA LengthIsNumber ==
    ASSUME NEW t \in Seq(Item), NEW j \in DOMAIN t
    PROVE  Length(t, j) \in Nat /\ t[j] \in Item
  <1>1. t[j] \in Item
    OBVIOUS
  <1>2. QED
    BY <1>1, ItemIs DEF Length

Place(t, i) == 1 + Cardinality({j \in DOMAIN t : t[j].cidr.len >= i.cidr.len})

LEMMA PlaceIs ==
    ASSUME NEW t \in Seq(Item), NEW i \in Item
    PROVE  /\ Place(t, i) \in 1 .. Len(t) + 1
           /\ (\A j, k \in DOMAIN t : j < k => Length(t, k) <= Length(t, j))
              => \A j \in DOMAIN t : j < Place(t, i) <=> Length(t, j) >= i.cidr.len
  <1> DEFINE T == {j \in DOMAIN t : t[j].cidr.len >= i.cidr.len}
  <1>1. T \subseteq 1 .. Len(t) /\ Len(t) \in Nat /\ DOMAIN t = 1 .. Len(t)
    OBVIOUS
  <1>2. Cardinality(T) \in 0 .. Len(t)
    <2>1. IsFiniteSet(1 .. Len(t)) /\ Cardinality(1 .. Len(t)) = Len(t)
      BY <1>1, FS_Interval
    <2>2. IsFiniteSet(T) /\ Cardinality(T) <= Len(t)
      BY <1>1, <2>1, FS_Subset
    <2>3. QED
      BY <1>1, <2>2, FS_CardinalityType
  <1>3. ASSUME \A j, k \in DOMAIN t : j < k => Length(t, k) <= Length(t, j)
        PROVE  T = 1 .. Cardinality(T)
    <2>1. ASSUME NEW j \in T, NEW k \in 1 .. j PROVE k \in T
      <3>1. j \in DOMAIN t /\ k \in DOMAIN t /\ Length(t, j) >= i.cidr.len
        BY <1>1 DEF Length
      <3>2. k = j \/ k < j
        BY <1>1
      <3>3. Length(t, k) >= Length(t, j)
        BY <1>3, <3>1, <3>2, LengthIsNumber
      <3>4. Length(t, k) \in Nat /\ Length(t, j) \in Nat /\ i.cidr.len \in Nat
        BY <3>1, LengthIsNumber, ItemIs
      <3>5. QED
        BY <3>1, <3>3, <3>4 DEF Length
    <2>2. \A j \in T : 1 .. j \subseteq T
      BY <2>1
    <2>3. QED
      BY <1>1, <2>2, FrontIs
  <1>4. Place(t, i) = 1 + Cardinality(T)
    BY DEF Place
  <1>5. ASSUME \A j, k \in DOMAIN t : j < k => Length(t, k) <= Length(t, j), NEW j \in DOMAIN t
        PROVE  j < Place(t, i) <=> Length(t, j) >= i.cidr.len
    <2>1. j \in T <=> Length(t, j) >= i.cidr.len
      BY DEF Length
    <2>2. j \in T <=> j \in 1 .. Cardinality(T)
      BY <1>3, <1>5
    <2> HIDE DEF T
    <2>3. j \in Nat /\ j >= 1
      BY <1>1
    <2>4. QED
      BY <1>2, <1>4, <2>1, <2>2, <2>3
  <1>6. Place(t, i) \in 1 .. Len(t) + 1
    BY <1>1, <1>2, <1>4
  <1>7. QED
    BY <1>5, <1>6

LEMMA AddIs ==
    ASSUME NEW t \in Seq(Item), NEW i \in Item
    PROVE  /\ Add(t, i) \in Seq(Item) /\ Len(Add(t, i)) = Len(t) + 1
           /\ \A j \in 1 .. Len(t) + 1 :
                 Add(t, i)[j] = IF j < Place(t, i) THEN t[j]
                                ELSE IF j = Place(t, i) THEN i ELSE t[j - 1]
  <1>1. Add(t, i) = InsertAt(t, Place(t, i), i)
    BY DEF Add, Place
  <1>2. Place(t, i) \in 1 .. Len(t) + 1
    BY PlaceIs
  <1>3. ASSUME NEW k \in 1 .. Len(t) + 1, NEW u, u = InsertAt(t, k, i)
        PROVE  /\ u \in Seq(Item) /\ Len(u) = Len(t) + 1
               /\ \A j \in 1 .. Len(t) + 1 : u[j] = IF j < k THEN t[j] ELSE IF j = k THEN i ELSE t[j - 1]
    BY <1>3, InsertIs, SMTT(60)
  <1>4. QED
    BY <1>1, <1>2, <1>3, SMTT(60)

LEMMA ArrayAdds ==
    ASSUME NEW t, NEW I, ArrayIs(t, I), NEW i \in Item, i \notin I
    PROVE  ArrayIs(Add(t, i), I \cup {i})
  <1> DEFINE u == Add(t, i)
             p == Place(t, i)
             n == Len(t)
  <1>1. t \in Seq(Item) /\ n \in Nat /\ DOMAIN t = 1 .. n /\ p \in 1 .. n + 1
    BY PlaceIs DEF ArrayIs
  <1>2. /\ u \in Seq(Item) /\ DOMAIN u = 1 .. n + 1
        /\ \A j \in 1 .. n + 1 : u[j] = IF j < p THEN t[j] ELSE IF j = p THEN i ELSE t[j - 1]
    <2>1. u \in Seq(Item) /\ Len(u) = n + 1
      BY <1>1, AddIs
    <2>2. \A j \in 1 .. n + 1 : u[j] = IF j < p THEN t[j] ELSE IF j = p THEN i ELSE t[j - 1]
      BY <1>1, AddIs
    <2>3. QED
      BY <2>1, <2>2
  <1>3. \A j \in DOMAIN t : j < p <=> Length(t, j) >= i.cidr.len
    BY <1>1, PlaceIs DEF ArrayIs
  <1>4. i.cidr.len \in Nat /\ \A j \in DOMAIN t : Length(t, j) \in Nat
    BY <1>1, LengthIsNumber, ItemIs
  <1>5. \A j, k \in DOMAIN t : j < k => Length(t, k) <= Length(t, j)
    BY DEF ArrayIs
  <1>6. \A j, k \in DOMAIN t : t[j] = t[k] => j = k
    BY DEF ArrayIs
  <1>7. \A j \in DOMAIN t : t[j] # i
    BY DEF ArrayIs
  <1> DEFINE from(j) == IF j < p THEN j ELSE j - 1
  <1>8. ASSUME NEW j \in 1 .. n + 1, j # p
        PROVE  from(j) \in DOMAIN t /\ u[j] = t[from(j)]
    BY <1>1, <1>2, <1>8
  <1>9. u[p] = i
    BY <1>1, <1>2
  <1> HIDE DEF u, p, n
  <1>10. ASSUME NEW j \in 1 .. n + 1, NEW k \in 1 .. n + 1, j < k
         PROVE  Length(u, k) <= Length(u, j)
    <2>1. j \in Nat /\ k \in Nat /\ p \in Nat
      BY <1>1
    <2>2. CASE j = p
      <3>1. from(k) \in DOMAIN t /\ Length(u, k) = Length(t, from(k)) /\ Length(u, j) = i.cidr.len
        BY <1>8, <1>9, <1>10, <2>1, <2>2 DEF Length
      <3>2. ~(from(k) < p)
        BY <1>10, <2>1, <2>2
      <3>3. ~(Length(t, from(k)) >= i.cidr.len)
        BY <1>3, <3>1, <3>2
      <3>4. QED
        BY <1>4, <3>1, <3>3
    <2>3. CASE k = p
      <3>1. from(j) \in DOMAIN t /\ Length(u, j) = Length(t, from(j)) /\ Length(u, k) = i.cidr.len
        BY <1>8, <1>9, <1>10, <2>1, <2>3 DEF Length
      <3>2. from(j) < p
        BY <1>10, <2>1, <2>3
      <3>3. Length(t, from(j)) >= i.cidr.len
        BY <1>3, <3>1, <3>2
      <3>4. QED
        BY <1>4, <3>1, <3>3
    <2>4. CASE j # p /\ k # p
      <3>1. /\ from(j) \in DOMAIN t /\ Length(u, j) = Length(t, from(j))
            /\ from(k) \in DOMAIN t /\ Length(u, k) = Length(t, from(k))
        BY <1>8, <2>4 DEF Length
      <3>2. from(j) < from(k)
        BY <1>10, <2>1, <2>4
      <3>3. QED
        BY <1>5, <3>1, <3>2
    <2>5. QED
      BY <2>2, <2>3, <2>4
  <1>11. ASSUME NEW j \in 1 .. n + 1, NEW k \in 1 .. n + 1, u[j] = u[k]
         PROVE  j = k
    <2>1. j \in Nat /\ k \in Nat /\ p \in Nat
      BY <1>1
    <2>2. CASE j = p \/ k = p
      <3>1. ASSUME NEW x \in 1 .. n + 1, x # p PROVE u[x] # i
        BY <1>7, <1>8, <3>1
      <3>2. QED
        BY <1>9, <1>11, <2>2, <3>1
    <2>3. CASE j # p /\ k # p
      <3>1. from(j) \in DOMAIN t /\ from(k) \in DOMAIN t /\ t[from(j)] = t[from(k)]
        BY <1>8, <1>11, <2>3
      <3>2. from(j) = from(k)
        BY <1>6, <3>1
      <3>3. QED
        BY <2>1, <2>3, <3>2
    <2>4. QED
      BY <2>2, <2>3
  <1>12. I \cup {i} = {u[j] : j \in 1 .. n + 1}
    <2>1. ASSUME NEW j \in DOMAIN t PROVE \E k \in 1 .. n + 1 : u[k] = t[j]
      <3> DEFINE k == IF j < p THEN j ELSE j + 1
      <3>1. k \in 1 .. n + 1 /\ k # p /\ from(k) = j
        BY <1>1
      <3>2. QED
        BY <1>8, <3>1
    <2>2. I = {t[j] : j \in DOMAIN t}
      BY DEF ArrayIs
    <2>3. ASSUME NEW x \in I \cup {i} PROVE \E k \in 1 .. n + 1 : u[k] = x
      BY <1>1, <1>9, <2>1, <2>2
    <2>4. ASSUME NEW k \in 1 .. n + 1 PROVE u[k] \in I \cup {i}
      BY <1>8, <1>9, <2>2
    <2>5. QED
      BY <2>3, <2>4
  <1>13. QED
    BY <1>2, <1>10, <1>11, <1>12 DEF ArrayIs, u

LEMMA ArrayRemoves ==
    ASSUME NEW t, NEW I, ArrayIs(t, I), NEW i \in DOMAIN t
    PROVE  ArrayIs(RemoveAt(t, i), I \ {t[i]})
  <1> DEFINE u == RemoveAt(t, i)
             n == Len(t)
             from(j) == IF j < i THEN j ELSE j + 1
  <1>1. t \in Seq(Item) /\ n \in Nat /\ DOMAIN t = 1 .. n /\ i \in 1 .. n
    BY DEF ArrayIs
  <1>2. /\ u \in Seq(Item) /\ DOMAIN u = 1 .. n - 1
        /\ \A j \in 1 .. n - 1 : u[j] = t[from(j)]
    <2>1. /\ u \in Seq(Item) /\ Len(u) = n - 1
          /\ \A j \in 1 .. n - 1 : u[j] = IF j < i THEN t[j] ELSE t[j + 1]
      BY <1>1, RemoveIs
    <2>2. QED
      BY <2>1
  <1>3. \A j, k \in DOMAIN t : j < k => Length(t, k) <= Length(t, j)
    BY DEF ArrayIs
  <1>4. \A j, k \in DOMAIN t : t[j] = t[k] => j = k
    BY DEF ArrayIs
  <1>5. \A j \in 1 .. n - 1 : from(j) \in 1 .. n /\ from(j) # i
    BY <1>1
  <1>6. \A j, k \in 1 .. n - 1 : (j < k => from(j) < from(k)) /\ (from(j) = from(k) => j = k)
    BY <1>1
  <1>7. \A k \in 1 .. n : k # i => \E j \in 1 .. n - 1 : from(j) = k
    <2>1. ASSUME NEW k \in 1 .. n, k # i PROVE \E j \in 1 .. n - 1 : from(j) = k
      <3> DEFINE j == IF k < i THEN k ELSE k - 1
      <3>1. j \in 1 .. n - 1 /\ from(j) = k
        BY <1>1, <2>1
      <3>2. QED
        BY <3>1
    <2>2. QED
      BY <2>1
  <1> HIDE DEF u, n, from
  <1>8. ASSUME NEW j \in 1 .. n - 1, NEW k \in 1 .. n - 1, j < k
        PROVE  Length(u, k) <= Length(u, j)
    <2>1. from(j) \in DOMAIN t /\ from(k) \in DOMAIN t /\ from(j) < from(k)
      BY <1>1, <1>5, <1>6, <1>8
    <2>2. Length(u, j) = Length(t, from(j)) /\ Length(u, k) = Length(t, from(k))
      BY <1>2 DEF Length
    <2>3. QED
      BY <1>3, <2>1, <2>2
  <1>9. ASSUME NEW j \in 1 .. n - 1, NEW k \in 1 .. n - 1, u[j] = u[k]
        PROVE  j = k
    <2>1. from(j) = from(k)
      BY <1>1, <1>2, <1>4, <1>5, <1>9
    <2>2. QED
      BY <1>6, <2>1
  <1>10. I \ {t[i]} = {u[j] : j \in 1 .. n - 1}
    <2>1. I = {t[j] : j \in 1 .. n}
      BY <1>1 DEF ArrayIs
    <2>2. ASSUME NEW j \in 1 .. n - 1 PROVE u[j] \in I \ {t[i]}
      <3>1. u[j] = t[from(j)] /\ from(j) \in 1 .. n /\ from(j) # i
        BY <1>2, <1>5
      <3>2. t[from(j)] # t[i]
        BY <1>1, <1>4, <3>1
      <3>3. QED
        BY <2>1, <3>1, <3>2
    <2>3. ASSUME NEW x \in I \ {t[i]} PROVE \E j \in 1 .. n - 1 : u[j] = x
      <3>1. PICK k \in 1 .. n : x = t[k]
        BY <2>1
      <3>2. PICK j \in 1 .. n - 1 : from(j) = k
        BY <1>7, <3>1
      <3>3. QED
        BY <1>2, <3>1, <3>2
    <2>4. QED
      BY <2>2, <2>3
  <1>11. QED
    BY <1>2, <1>8, <1>9, <1>10 DEF ArrayIs, u

(* What update_route makes of the items. *)
Others(I, r) == {i \in I : i.cidr # r.cidr \/ i.kind # r.item.kind}

LEMMA ArrayReplaces ==
    ASSUME NEW t, NEW I, ArrayIs(t, I), Apart(I), NEW r \in [cidr : Network, item : Item],
           r.item \notin Others(I, r)
    PROVE  ArrayIs(Replace(t, r), Others(I, r) \cup {r.item})
  <1> DEFINE J == {j \in DOMAIN t : t[j].cidr = r.cidr}
             j == IF J = {} THEN 0 ELSE Min(J)
             without == IF j = 0 THEN t ELSE RemoveAt(t, j)
             kept == IF j # 0 /\ t[j].kind # r.item.kind THEN Add(without, t[j]) ELSE without
  <1>1. /\ t \in Seq(Item) /\ DOMAIN t \subseteq Nat \ {0} /\ r.item \in Item
        /\ I = {t[k] : k \in DOMAIN t}
    BY DEF ArrayIs
  <1>2. Replace(t, r) = Add(kept, r.item)
    BY DEF Replace, At
  <1>3. ArrayIs(kept, Others(I, r))
    <2>1. CASE J = {}
      <3>1. Others(I, r) = I
        BY <1>1, <2>1 DEF Others
      <3>2. kept = t
        BY <2>1
      <3>3. QED
        BY <3>1, <3>2
    <2>2. CASE J # {}
      <3>1. j = Min(J) /\ j \in J
        <4>1. J \subseteq Nat
          BY <1>1
        <4>2. Min(J) \in J
          <5> HIDE DEF J
          <5>1. QED
            BY <2>2, <4>1, MinIs
        <4>3. QED
          BY <2>2, <4>2
      <3> DEFINE x == t[j]
      <3>2. j \in DOMAIN t /\ j # 0 /\ x \in I /\ x \in Item /\ x.cidr = r.cidr
        <4>1. j \in DOMAIN t /\ x.cidr = r.cidr
          BY <3>1
        <4> HIDE DEF j, J
        <4>2. j # 0 /\ x \in I /\ x \in Item
          BY <1>1, <4>1, LengthIsNumber
        <4>3. QED
          BY <4>1, <4>2
      <3>3. \A i \in I : i.cidr = r.cidr => i = x
        BY <3>2 DEF Apart
      <3>4. without = RemoveAt(t, j)
        BY <3>2
      <3>5. kept = IF x.kind # r.item.kind THEN Add(without, x) ELSE without
        BY <3>2
      <3> HIDE DEF J, j, without, kept, x
      <3>6. ArrayIs(without, I \ {x})
        BY <3>2, <3>4, ArrayRemoves DEF x
      <3>7. CASE x.kind # r.item.kind
        <4>1. Others(I, r) = (I \ {x}) \cup {x}
          BY <3>2, <3>3, <3>7 DEF Others
        <4>2. ArrayIs(Add(without, x), (I \ {x}) \cup {x})
          BY <3>2, <3>6, ArrayAdds
        <4>3. QED
          BY <3>5, <3>7, <4>1, <4>2
      <3>8. CASE x.kind = r.item.kind
        <4>1. Others(I, r) = I \ {x}
          BY <3>2, <3>3, <3>8 DEF Others
        <4>2. QED
          BY <3>5, <3>6, <3>8, <4>1
      <3>9. QED
        BY <3>7, <3>8
    <2>3. QED
      BY <2>1, <2>2
  <1> HIDE DEF kept
  <1>4. QED
    BY <1>1, <1>2, <1>3, ArrayAdds

LEMMA HashAdds ==
    ASSUME NEW h, NEW I, HashIs(h, I), NEW i, \A x \in I : x.cidr # i.cidr
    PROVE  HashIs(HashAdd(h, i), I \cup {i})
  <1> DEFINE u == HashAdd(h, i)
  <1>1. DOMAIN u = {x.cidr : x \in I \cup {i}}
    BY DEF HashIs, HashAdd
  <1>2. \A x \in I \cup {i} : u[x.cidr] = x
    BY DEF HashIs, HashAdd
  <1>3. u = [c \in DOMAIN u |-> u[c]]
    BY DEF HashAdd
  <1> HIDE DEF u
  <1>4. u \in [{x.cidr : x \in I \cup {i}} -> I \cup {i}]
    BY <1>1, <1>2, <1>3
  <1>5. QED
    BY <1>2, <1>4 DEF HashIs, u

LEMMA HashReplaces ==
    ASSUME NEW h, NEW I, HashIs(h, I), NEW r, \A x \in Others(I, r) : x.cidr # r.item.cidr
    PROVE  HashIs(HashReplace(h, r), Others(I, r) \cup {r.item})
  <1> DEFINE without == [c \in DOMAIN h \ {r.cidr} |-> h[c]]
             kept == IF r.cidr \in DOMAIN h /\ h[r.cidr].kind # r.item.kind THEN h ELSE without
  <1>1. HashReplace(h, r) = HashAdd(kept, r.item)
    BY DEF HashReplace
  <1>2. DOMAIN h = {x.cidr : x \in I} /\ \A x \in I : h[x.cidr] = x
    BY DEF HashIs
  <1>3. HashIs(kept, Others(I, r))
    <2>1. CASE r.cidr \in DOMAIN h /\ h[r.cidr].kind # r.item.kind
      <3>1. \A x \in I : x.cidr = r.cidr => x.kind # r.item.kind
        BY <1>2, <2>1
      <3>2. Others(I, r) = I
        BY <3>1 DEF Others
      <3>3. QED
        BY <2>1, <3>2
    <2>2. CASE ~(r.cidr \in DOMAIN h /\ h[r.cidr].kind # r.item.kind)
      <3>1. \A x \in I : x.cidr = r.cidr => x.kind = r.item.kind
        BY <1>2, <2>2
      <3>2. Others(I, r) = {x \in I : x.cidr # r.cidr}
        BY <3>1 DEF Others
      <3>3. DOMAIN without = {x.cidr : x \in Others(I, r)}
        BY <1>2, <3>2
      <3>4. \A x \in Others(I, r) : without[x.cidr] = x
        BY <1>2, <3>2
      <3>5. without = [c \in DOMAIN without |-> without[c]]
        OBVIOUS
      <3>6. kept = without
        BY <2>2
      <3> HIDE DEF without, kept
      <3>7. without \in [{x.cidr : x \in Others(I, r)} -> Others(I, r)]
        BY <3>3, <3>4, <3>5
      <3>8. QED
        BY <3>4, <3>6, <3>7 DEF HashIs
    <2>3. QED
      BY <2>1, <2>2
  <1> HIDE DEF kept
  <1>4. QED
    BY <1>1, <1>3, HashAdds

(* The first item of a set S in the array has the longest network of S. *)
LEMMA FirstIsLongest ==
    ASSUME NEW t, NEW I, ArrayIs(t, I), NEW S, S \subseteq I,
           NEW J, J = {k \in DOMAIN t : t[k] \in S}
    PROVE  IF S = {} THEN J = {}
           ELSE /\ J # {} /\ Min(J) # 0
                /\ t[Min(J)] \in S
                /\ \A i \in S : i.cidr.len <= t[Min(J)].cidr.len
  <1>1. t \in Seq(Item) /\ DOMAIN t \subseteq Nat \ {0} /\ I = {t[k] : k \in DOMAIN t}
    BY DEF ArrayIs
  <1>2. CASE S = {}
    BY <1>2
  <1>3. CASE S # {}
    <2>1. J # {} /\ J \subseteq Nat \ {0} /\ J \subseteq DOMAIN t
      BY <1>1, <1>3
    <2>2. Min(J) \in J /\ \A k \in J : Min(J) <= k
      BY <2>1, MinIs
    <2> DEFINE j == Min(J)
    <2> HIDE DEF j
    <2>3. j \in J /\ (\A k \in J : j <= k) /\ j \in DOMAIN t /\ t[j] \in S /\ j \in Nat \ {0}
      BY <2>1, <2>2 DEF j
    <2>4. ASSUME NEW i \in S PROVE i.cidr.len <= t[j].cidr.len
      <3>1. PICK k \in DOMAIN t : i = t[k]
        BY <1>1
      <3>2. k \in J
        BY <3>1
      <3>3. k = j \/ j < k
        <4>1. j <= k /\ j \in Nat /\ k \in Nat
          BY <1>1, <2>3, <3>2
        <4>2. QED
          BY <4>1
      <3>4. Length(t, k) <= Length(t, j)
        BY <1>1, <2>3, <3>3, LengthIsNumber DEF ArrayIs
      <3>5. QED
        BY <3>1, <3>4 DEF Length
    <2>5. QED
      BY <1>3, <2>1, <2>3, <2>4 DEF j
  <1>4. QED
    BY <1>2, <1>3

(* What the tables find: the item with the longest of the networks that    *)
(* have the address.                                                       *)
Serves(I, a) == {i \in I : InNet(i.cidr, a)}

LEMMA ArrayFinds ==
    ASSUME NEW t, NEW I, ArrayIs(t, I), NEW a
    PROVE  IF Serves(I, a) = {} THEN Find(t, a) = Nothing
           ELSE /\ Find(t, a) \in Serves(I, a)
                /\ \A i \in Serves(I, a) : i.cidr.len <= Find(t, a).cidr.len
  <1> DEFINE J == {k \in DOMAIN t : InNet(t[k].cidr, a)}
             j == IF J = {} THEN 0 ELSE Min(J)
  <1>1. Find(t, a) = IF j = 0 THEN Nothing ELSE t[j]
    BY DEF Find, At
  <1>2. J = {k \in DOMAIN t : t[k] \in Serves(I, a)}
    BY DEF ArrayIs, Serves
  <1>3. Serves(I, a) \subseteq I
    BY DEF Serves
  <1> HIDE DEF J
  <1>4. IF Serves(I, a) = {} THEN J = {}
        ELSE /\ J # {} /\ Min(J) # 0
             /\ t[Min(J)] \in Serves(I, a)
             /\ \A i \in Serves(I, a) : i.cidr.len <= t[Min(J)].cidr.len
    BY <1>2, <1>3, FirstIsLongest
  <1>5. QED
    BY <1>1, <1>4

(* The first item of the array whose network is that of the address. *)
FindTruncated(t, a) ==
    LET j == At(t, LAMBDA i : i.cidr = Trunc(a, i.cidr.len))
    IN  IF j = 0 THEN Nothing ELSE t[j]

LEMMA FindsAgree ==
    ASSUME NEW t, NEW h, NEW I, ArrayIs(t, I), HashIs(h, I), NEW a
    PROVE  HashFind(h, a) = FindTruncated(t, a)
  <1> DEFINE S == {i \in I : i.cidr = Trunc(a, i.cidr.len)}
             J == {k \in DOMAIN t : t[k].cidr = Trunc(a, t[k].cidr.len)}
             j == IF J = {} THEN 0 ELSE Min(J)
             L == {l \in 0 .. BITS : Trunc(a, l) \in DOMAIN h}
  <1>1. FindTruncated(t, a) = IF j = 0 THEN Nothing ELSE t[j]
    BY DEF FindTruncated, At
  <1>2. HashFind(h, a) = IF L = {} THEN Nothing ELSE h[Trunc(a, Max(L))]
    BY DEF HashFind
  <1>3. J = {k \in DOMAIN t : t[k] \in S}
    BY DEF ArrayIs
  <1>4. DOMAIN h = {i.cidr : i \in I} /\ \A i \in I : h[i.cidr] = i
    BY DEF HashIs
  <1>5. \A l : Trunc(a, l).len = l
    BY DEF Trunc
  <1>6. \A i \in S : i \in I /\ i.cidr = Trunc(a, i.cidr.len) /\ i.cidr.len \in L
    <2>1. ASSUME NEW i \in S PROVE i.cidr.len \in L
      <3>1. i.cidr.len \in 0 .. BITS
        <4>1. i \in Item
          BY DEF ArrayIs
        <4>2. QED
          BY <4>1 DEF Item, Network
      <3>2. QED
        BY <1>4, <3>1
    <2>2. QED
      BY <2>1
  <1>7. \A l \in L : \E i \in S : i.cidr.len = l
    BY <1>4, <1>5
  <1>8. L \subseteq Int
    BY NodeHostAssumption
  <1>9. S \subseteq I
    OBVIOUS
  <1> HIDE DEF S, J, L
  <1>10. CASE S = {}
    BY <1>1, <1>2, <1>3, <1>7, <1>9, <1>10, FirstIsLongest
  <1>11. CASE S # {}
    <2> DEFINE i == t[Min(J)]
    <2>1. i \in S /\ (\A x \in S : x.cidr.len <= i.cidr.len) /\ FindTruncated(t, a) = i
      BY <1>1, <1>3, <1>9, <1>11, FirstIsLongest
    <2> HIDE DEF i
    <2>2. i.cidr.len \in L /\ \A l \in L : l <= i.cidr.len
      BY <1>6, <1>7, <2>1
    <2>3. Max(L) = i.cidr.len
      <3>1. ASSUME NEW l \in L, \A x \in L : l >= x PROVE l = i.cidr.len
        <4>1. l \in Int /\ i.cidr.len \in Int /\ l <= i.cidr.len /\ l >= i.cidr.len
          BY <1>8, <2>2, <3>1
        <4>2. QED
          BY <4>1
      <3>2. \A x \in L : i.cidr.len >= x
        BY <1>8, <2>2
      <3>3. QED
        BY <2>2, <3>1, <3>2 DEF Max
    <2>4. h[Trunc(a, Max(L))] = i
      BY <1>4, <1>6, <2>1, <2>3
    <2>5. QED
      BY <1>2, <2>1, <2>2, <2>4
  <1>12. QED
    BY <1>10, <1>11

----------------------------------------------------------------------------
(* Many additions and replacements, one after the other. *)
Replacement == [cidr : Network, item : Item]
HashTable == UNION {[D -> Item] : D \in SUBSET Network}

LEMMA FrontsAre ==
    ASSUME NEW n \in Nat, NEW k \in 1 .. n
    PROVE  /\ 1 .. k \in SUBSET (1 .. n) /\ 1 .. k # {}
           /\ Max(1 .. k) = k /\ (1 .. k) \ {Max(1 .. k)} = 1 .. k - 1
  <1>1. k \in Nat /\ 1 .. k \subseteq 1 .. k /\ 1 .. k # {} /\ k \in 1 .. k
    OBVIOUS
  <1>2. Max(1 .. k) \in 1 .. k /\ k <= Max(1 .. k)
    BY <1>1, MaxIs
  <1>3. Max(1 .. k) = k
    BY <1>2
  <1>4. QED
    BY <1>3

LEMMA ReplaceIsTyped ==
    ASSUME NEW t \in Seq(Item), NEW r \in Replacement
    PROVE  Replace(t, r) \in Seq(Item)
  <1> DEFINE J == {j \in DOMAIN t : t[j].cidr = r.cidr}
             j == IF J = {} THEN 0 ELSE Min(J)
             without == IF j = 0 THEN t ELSE RemoveAt(t, j)
             kept == IF j # 0 /\ t[j].kind # r.item.kind THEN Add(without, t[j]) ELSE without
  <1>1. Replace(t, r) = Add(kept, r.item)
    BY DEF Replace, At
  <1>2. j # 0 => j \in DOMAIN t
    <2>1. J # {} => Min(J) \in J
      <3>1. J \subseteq Nat
        OBVIOUS
      <3> HIDE DEF J
      <3>2. QED
        BY <3>1, MinIs
    <2>2. QED
      BY <2>1
  <1> HIDE DEF j
  <1>3. without \in Seq(Item)
    BY <1>2, RemoveIs
  <1>4. j # 0 => t[j] \in Item
    BY <1>2, LengthIsNumber
  <1> HIDE DEF without
  <1>5. kept \in Seq(Item)
    BY <1>3, <1>4, AddIs
  <1> HIDE DEF kept
  <1>6. QED
    BY <1>1, <1>5, AddIs DEF Replacement

LEMMA HashAddIsTyped ==
    ASSUME NEW h \in HashTable, NEW i \in Item
    PROVE  HashAdd(h, i) \in HashTable
  <1>1. PICK D \in SUBSET Network : h \in [D -> Item]
    BY DEF HashTable
  <1>2. i.cidr \in Network
    BY ItemIs
  <1>3. HashAdd(h, i) \in [D \cup {i.cidr} -> Item]
    BY <1>1 DEF HashAdd
  <1>4. QED
    BY <1>1, <1>2, <1>3 DEF HashTable

LEMMA HashReplaceIsTyped ==
    ASSUME NEW h \in HashTable, NEW r \in Replacement
    PROVE  HashReplace(h, r) \in HashTable
  <1> DEFINE without == [c \in DOMAIN h \ {r.cidr} |-> h[c]]
             kept == IF r.cidr \in DOMAIN h /\ h[r.cidr].kind # r.item.kind THEN h ELSE without
  <1>1. PICK D \in SUBSET Network : h \in [D -> Item]
    BY DEF HashTable
  <1>2. without \in [D \ {r.cidr} -> Item]
    BY <1>1
  <1>3. without \in HashTable
    BY <1>2 DEF HashTable
  <1> HIDE DEF without
  <1>4. kept \in HashTable
    BY <1>3
  <1> HIDE DEF kept
  <1>5. HashReplace(h, r) = HashAdd(kept, r.item)
    BY DEF HashReplace, kept, without
  <1>6. QED
    BY <1>4, <1>5, HashAddIsTyped DEF Replacement

LEMMA Adds ==
    ASSUME NEW t \in Seq(Item), NEW all \in Seq(Item)
    PROVE  \E T : /\ T[0] = t /\ \A k \in 1 .. Len(all) : T[k] = Add(T[k - 1], all[k])
                  /\ FoldLeft(Add, t, all) = T[Len(all)]
  <1> DEFINE n == Len(all)
             V == Seq(Item)
             step == [p \in V \X (1 .. n) |-> Add(p[1], all[p[2]])]
             Fold(f) == f = [s \in SUBSET DOMAIN all |->
                                IF s = {} THEN t ELSE Add(f[s \ {Max(s)}], all[Max(s)])]
             g == CHOOSE f : Fold(f)
  <1>1. n \in Nat /\ DOMAIN all = 1 .. n
    OBVIOUS
  <1>2. StaysIn(step, V, n)
    <2>1. ASSUME NEW x \in V, NEW k \in 1 .. n PROVE step[x, k] \in V
      <3> HIDE DEF V, n
      <3>1. step[x, k] = Add(x, all[k])
        OBVIOUS
      <3> HIDE DEF step
      <3>2. all[k] \in Item
        BY DEF n
      <3>3. QED
        BY <3>1, <3>2, AddIs DEF V
    <2> HIDE DEF step, V, n
    <2>2. QED
      BY <2>1 DEF StaysIn
  <1>3. PICK f : IsFold(f, t, step, n)
    <2> HIDE DEF step, n
    <2>1. QED
      BY <1>1, FoldExists
  <1>4. \A s \in SUBSET (1 .. n) : f[s] \in V
    <2> HIDE DEF step, n
    <2>1. t \in V
      OBVIOUS
    <2> HIDE DEF V
    <2>2. QED
      BY <1>1, <1>2, <1>3, <2>1, FoldIsTyped
  <1>5. Fold(f)
    <2>1. ASSUME NEW s \in SUBSET (1 .. n), s # {}
          PROVE  step[f[s \ {Max(s)}], Max(s)] = Add(f[s \ {Max(s)}], all[Max(s)])
      <3>1. Max(s) \in 1 .. n
        <4> HIDE DEF n
        <4>1. QED
          BY <1>1, <2>1, MaxIs
      <3>2. f[s \ {Max(s)}] \in V
        BY <1>4
      <3> HIDE DEF V, n
      <3>3. QED
        BY <3>1, <3>2
    <2> HIDE DEF step, n, V
    <2>2. f = [s \in SUBSET (1 .. n) |->
                  IF s = {} THEN t ELSE step[f[s \ {Max(s)}], Max(s)]]
      BY <1>3 DEF IsFold
    <2>3. QED
      BY <1>1, <2>1, <2>2
  <1>6. Fold(g)
    <2> HIDE DEF Fold
    <2>1. QED
      BY <1>5
  <1>7. FoldLeft(Add, t, all) = g[DOMAIN all]
    BY DEF FoldLeft, MapThenFoldSet
  <1> HIDE DEF g, n
  <1>8. \A s \in SUBSET (1 .. n) :
           g[s] = IF s = {} THEN t ELSE Add(g[s \ {Max(s)}], all[Max(s)])
    BY <1>1, <1>6
  <1>9. g[1 .. 0] = t
    <2>1. 1 .. 0 = {}
      OBVIOUS
    <2>2. QED
      BY <1>8, <2>1
  <1>10. ASSUME NEW k \in 1 .. n PROVE g[1 .. k] = Add(g[1 .. k - 1], all[k])
    BY <1>1, <1>8, FrontsAre
  <1> DEFINE T == [k \in 0 .. n |-> g[1 .. k]]
  <1>11. /\ T[0] = t /\ T[n] = g[1 .. n]
         /\ \A k \in 1 .. n : T[k] = g[1 .. k] /\ T[k - 1] = g[1 .. k - 1]
    BY <1>1, <1>9
  <1>12. QED
    BY <1>1, <1>7, <1>10, <1>11 DEF n

LEMMA HashAddsAll ==
    ASSUME NEW t \in HashTable, NEW all \in Seq(Item)
    PROVE  \E T : /\ T[0] = t /\ \A k \in 1 .. Len(all) : T[k] = HashAdd(T[k - 1], all[k])
                  /\ FoldLeft(HashAdd, t, all) = T[Len(all)]
  <1> DEFINE n == Len(all)
             V == HashTable
             step == [p \in V \X (1 .. n) |-> HashAdd(p[1], all[p[2]])]
             Fold(f) == f = [s \in SUBSET DOMAIN all |->
                                IF s = {} THEN t ELSE HashAdd(f[s \ {Max(s)}], all[Max(s)])]
             g == CHOOSE f : Fold(f)
  <1>1. n \in Nat /\ DOMAIN all = 1 .. n
    OBVIOUS
  <1>2. StaysIn(step, V, n)
    <2>1. ASSUME NEW x \in V, NEW k \in 1 .. n PROVE step[x, k] \in V
      <3> HIDE DEF V, n
      <3>1. step[x, k] = HashAdd(x, all[k])
        OBVIOUS
      <3> HIDE DEF step
      <3>2. all[k] \in Item
        BY DEF n
      <3>3. QED
        BY <3>1, <3>2, HashAddIsTyped DEF V
    <2> HIDE DEF step, V, n
    <2>2. QED
      BY <2>1 DEF StaysIn
  <1>3. PICK f : IsFold(f, t, step, n)
    <2> HIDE DEF step, n
    <2>1. QED
      BY <1>1, FoldExists
  <1>4. \A s \in SUBSET (1 .. n) : f[s] \in V
    <2> HIDE DEF step, n
    <2>1. t \in V
      OBVIOUS
    <2> HIDE DEF V
    <2>2. QED
      BY <1>1, <1>2, <1>3, <2>1, FoldIsTyped
  <1>5. Fold(f)
    <2>1. ASSUME NEW s \in SUBSET (1 .. n), s # {}
          PROVE  step[f[s \ {Max(s)}], Max(s)] = HashAdd(f[s \ {Max(s)}], all[Max(s)])
      <3>1. Max(s) \in 1 .. n
        <4> HIDE DEF n
        <4>1. QED
          BY <1>1, <2>1, MaxIs
      <3>2. f[s \ {Max(s)}] \in V
        BY <1>4
      <3> HIDE DEF V, n
      <3>3. QED
        BY <3>1, <3>2
    <2> HIDE DEF step, n, V
    <2>2. f = [s \in SUBSET (1 .. n) |->
                  IF s = {} THEN t ELSE step[f[s \ {Max(s)}], Max(s)]]
      BY <1>3 DEF IsFold
    <2>3. QED
      BY <1>1, <2>1, <2>2
  <1>6. Fold(g)
    <2> HIDE DEF Fold
    <2>1. QED
      BY <1>5
  <1>7. FoldLeft(HashAdd, t, all) = g[DOMAIN all]
    BY DEF FoldLeft, MapThenFoldSet
  <1> HIDE DEF g, n
  <1>8. \A s \in SUBSET (1 .. n) :
           g[s] = IF s = {} THEN t ELSE HashAdd(g[s \ {Max(s)}], all[Max(s)])
    BY <1>1, <1>6
  <1>9. g[1 .. 0] = t
    <2>1. 1 .. 0 = {}
      OBVIOUS
    <2>2. QED
      BY <1>8, <2>1
  <1>10. ASSUME NEW k \in 1 .. n PROVE g[1 .. k] = HashAdd(g[1 .. k - 1], all[k])
    BY <1>1, <1>8, FrontsAre
  <1> DEFINE T == [k \in 0 .. n |-> g[1 .. k]]
  <1>11. /\ T[0] = t /\ T[n] = g[1 .. n]
         /\ \A k \in 1 .. n : T[k] = g[1 .. k] /\ T[k - 1] = g[1 .. k - 1]
    BY <1>1, <1>9
  <1>12. QED
    BY <1>1, <1>7, <1>10, <1>11 DEF n

LEMMA ReplacesAll ==
    ASSUME NEW t \in Seq(Item), NEW all \in Seq(Replacement)
    PROVE  \E T : /\ T[0] = t /\ \A k \in 1 .. Len(all) : T[k] = Replace(T[k - 1], all[k])
                  /\ FoldLeft(Replace, t, all) = T[Len(all)]
  <1> DEFINE n == Len(all)
             V == Seq(Item)
             step == [p \in V \X (1 .. n) |-> Replace(p[1], all[p[2]])]
             Fold(f) == f = [s \in SUBSET DOMAIN all |->
                                IF s = {} THEN t ELSE Replace(f[s \ {Max(s)}], all[Max(s)])]
             g == CHOOSE f : Fold(f)
  <1>1. n \in Nat /\ DOMAIN all = 1 .. n
    OBVIOUS
  <1>2. StaysIn(step, V, n)
    <2>1. ASSUME NEW x \in V, NEW k \in 1 .. n PROVE step[x, k] \in V
      <3> HIDE DEF V, n
      <3>1. step[x, k] = Replace(x, all[k])
        OBVIOUS
      <3> HIDE DEF step
      <3>2. all[k] \in Replacement
        BY DEF n
      <3>3. QED
        BY <3>1, <3>2, ReplaceIsTyped DEF V
    <2> HIDE DEF step, V, n
    <2>2. QED
      BY <2>1 DEF StaysIn
  <1>3. PICK f : IsFold(f, t, step, n)
    <2> HIDE DEF step, n
    <2>1. QED
      BY <1>1, FoldExists
  <1>4. \A s \in SUBSET (1 .. n) : f[s] \in V
    <2> HIDE DEF step, n
    <2>1. t \in V
      OBVIOUS
    <2> HIDE DEF V
    <2>2. QED
      BY <1>1, <1>2, <1>3, <2>1, FoldIsTyped
  <1>5. Fold(f)
    <2>1. ASSUME NEW s \in SUBSET (1 .. n), s # {}
          PROVE  step[f[s \ {Max(s)}], Max(s)] = Replace(f[s \ {Max(s)}], all[Max(s)])
      <3>1. Max(s) \in 1 .. n
        <4> HIDE DEF n
        <4>1. QED
          BY <1>1, <2>1, MaxIs
      <3>2. f[s \ {Max(s)}] \in V
        BY <1>4
      <3> HIDE DEF V, n
      <3>3. QED
        BY <3>1, <3>2
    <2> HIDE DEF step, n, V
    <2>2. f = [s \in SUBSET (1 .. n) |->
                  IF s = {} THEN t ELSE step[f[s \ {Max(s)}], Max(s)]]
      BY <1>3 DEF IsFold
    <2>3. QED
      BY <1>1, <2>1, <2>2
  <1>6. Fold(g)
    <2> HIDE DEF Fold
    <2>1. QED
      BY <1>5
  <1>7. FoldLeft(Replace, t, all) = g[DOMAIN all]
    BY DEF FoldLeft, MapThenFoldSet
  <1> HIDE DEF g, n
  <1>8. \A s \in SUBSET (1 .. n) :
           g[s] = IF s = {} THEN t ELSE Replace(g[s \ {Max(s)}], all[Max(s)])
    BY <1>1, <1>6
  <1>9. g[1 .. 0] = t
    <2>1. 1 .. 0 = {}
      OBVIOUS
    <2>2. QED
      BY <1>8, <2>1
  <1>10. ASSUME NEW k \in 1 .. n PROVE g[1 .. k] = Replace(g[1 .. k - 1], all[k])
    BY <1>1, <1>8, FrontsAre
  <1> DEFINE T == [k \in 0 .. n |-> g[1 .. k]]
  <1>11. /\ T[0] = t /\ T[n] = g[1 .. n]
         /\ \A k \in 1 .. n : T[k] = g[1 .. k] /\ T[k - 1] = g[1 .. k - 1]
    BY <1>1, <1>9
  <1>12. QED
    BY <1>1, <1>7, <1>10, <1>11 DEF n

LEMMA HashReplacesAll ==
    ASSUME NEW t \in HashTable, NEW all \in Seq(Replacement)
    PROVE  \E T : /\ T[0] = t /\ \A k \in 1 .. Len(all) : T[k] = HashReplace(T[k - 1], all[k])
                  /\ FoldLeft(HashReplace, t, all) = T[Len(all)]
  <1> DEFINE n == Len(all)
             V == HashTable
             step == [p \in V \X (1 .. n) |-> HashReplace(p[1], all[p[2]])]
             Fold(f) == f = [s \in SUBSET DOMAIN all |->
                                IF s = {} THEN t ELSE HashReplace(f[s \ {Max(s)}], all[Max(s)])]
             g == CHOOSE f : Fold(f)
  <1>1. n \in Nat /\ DOMAIN all = 1 .. n
    OBVIOUS
  <1>2. StaysIn(step, V, n)
    <2>1. ASSUME NEW x \in V, NEW k \in 1 .. n PROVE step[x, k] \in V
      <3> HIDE DEF V, n
      <3>1. step[x, k] = HashReplace(x, all[k])
        OBVIOUS
      <3> HIDE DEF step
      <3>2. all[k] \in Replacement
        BY DEF n
      <3>3. QED
        BY <3>1, <3>2, HashReplaceIsTyped DEF V
    <2> HIDE DEF step, V, n
    <2>2. QED
      BY <2>1 DEF StaysIn
  <1>3. PICK f : IsFold(f, t, step, n)
    <2> HIDE DEF step, n
    <2>1. QED
      BY <1>1, FoldExists
  <1>4. \A s \in SUBSET (1 .. n) : f[s] \in V
    <2> HIDE DEF step, n
    <2>1. t \in V
      OBVIOUS
    <2> HIDE DEF V
    <2>2. QED
      BY <1>1, <1>2, <1>3, <2>1, FoldIsTyped
  <1>5. Fold(f)
    <2>1. ASSUME NEW s \in SUBSET (1 .. n), s # {}
          PROVE  step[f[s \ {Max(s)}], Max(s)] = HashReplace(f[s \ {Max(s)}], all[Max(s)])
      <3>1. Max(s) \in 1 .. n
        <4> HIDE DEF n
        <4>1. QED
          BY <1>1, <2>1, MaxIs
      <3>2. f[s \ {Max(s)}] \in V
        BY <1>4
      <3> HIDE DEF V, n
      <3>3. QED
        BY <3>1, <3>2
    <2> HIDE DEF step, n, V
    <2>2. f = [s \in SUBSET (1 .. n) |->
                  IF s = {} THEN t ELSE step[f[s \ {Max(s)}], Max(s)]]
      BY <1>3 DEF IsFold
    <2>3. QED
      BY <1>1, <2>1, <2>2
  <1>6. Fold(g)
    <2> HIDE DEF Fold
    <2>1. QED
      BY <1>5
  <1>7. FoldLeft(HashReplace, t, all) = g[DOMAIN all]
    BY DEF FoldLeft, MapThenFoldSet
  <1> HIDE DEF g, n
  <1>8. \A s \in SUBSET (1 .. n) :
           g[s] = IF s = {} THEN t ELSE HashReplace(g[s \ {Max(s)}], all[Max(s)])
    BY <1>1, <1>6
  <1>9. g[1 .. 0] = t
    <2>1. 1 .. 0 = {}
      OBVIOUS
    <2>2. QED
      BY <1>8, <2>1
  <1>10. ASSUME NEW k \in 1 .. n PROVE g[1 .. k] = HashReplace(g[1 .. k - 1], all[k])
    BY <1>1, <1>8, FrontsAre
  <1> DEFINE T == [k \in 0 .. n |-> g[1 .. k]]
  <1>11. /\ T[0] = t /\ T[n] = g[1 .. n]
         /\ \A k \in 1 .. n : T[k] = g[1 .. k] /\ T[k - 1] = g[1 .. k - 1]
    BY <1>1, <1>9
  <1>12. QED
    BY <1>1, <1>7, <1>10, <1>11 DEF n
----------------------------------------------------------------------------
(* The items that the tables have when the groups have the leases L.  What *)
(* a change of address does to them goes through stages, between which a   *)
(* network may lead to the old address or to the new one, but no network   *)
(* to both.                                                                *)
Items(L) ==
    {IpsItem(k) : k \in DOMAIN Ips}
    \cup {RangeItem(g, L[g].cidr) : g \in {x \in Group : L[x] # NoLease}}
    \cup UNION {{OfferItem(g, AllowedIps[g][k], L[g].addr) : k \in DOMAIN AllowedIps[g]} :
                    g \in {x \in Group : L[x] # NoLease}}

Assigned(L) ==
    /\ L \in [Group -> [addr : Address, cidr : Network]]
    /\ \A g \in Group : L[g] \in Leases[g] \cup {NoLease}

LEMMA ItemsAre ==
    ASSUME NEW L, NEW i
    PROVE  i \in Items(L) <=>
              \/ \E k \in DOMAIN Ips : i = IpsItem(k)
              \/ \E g \in Group : L[g] # NoLease /\ i = RangeItem(g, L[g].cidr)
              \/ \E g \in Group : \E k \in DOMAIN AllowedIps[g] :
                    L[g] # NoLease /\ i = OfferItem(g, AllowedIps[g][k], L[g].addr)
  BY DEF Items

LEMMA ItemFields ==
    /\ \A k : /\ IpsItem(k).cidr = Ips[k].cidr /\ IpsItem(k).kind = "IpsRoute"
              /\ IpsItem(k).gateway = Ips[k].gateway /\ IpsItem(k).if = Ips[k].group
    /\ \A g, c : /\ RangeItem(g, c).cidr = c /\ RangeItem(g, c).kind = "VirtualRange"
                 /\ RangeItem(g, c).gateway = UNSPECIFIED /\ RangeItem(g, c).if = g
    /\ \A g, c, a : /\ OfferItem(g, c, a).cidr = c /\ OfferItem(g, c, a).kind = "AllowedIpsRoute"
                    /\ OfferItem(g, c, a).gateway = a /\ OfferItem(g, c, a).if = g
  BY DEF IpsItem, RangeItem, OfferItem

LEMMA NetworksAre ==
    /\ \A k \in DOMAIN Ips : IpsItem(k) \in Item /\ Ips[k].cidr \in Network
    /\ \A g \in Group : \A k \in DOMAIN AllowedIps[g] : AllowedIps[g][k] \in Network
    /\ \A g \in Group, c \in Network : RangeItem(g, c) \in Item
    /\ \A g \in Group, c \in Network, a \in Address : OfferItem(g, c, a) \in Item
  <1>1. ASSUME NEW k \in DOMAIN Ips PROVE IpsItem(k) \in Item /\ Ips[k].cidr \in Network
    <2>1. Ips[k] \in [group : Group, gateway : Address, cidr : Network]
      <3> DEFINE R == [group : Group, gateway : Address, cidr : Network]
      <3>1. Ips \in Seq(R)
        BY NodeHostAssumption
      <3> HIDE DEF R
      <3>2. Ips[k] \in R
        BY <3>1
      <3>3. QED
        BY <3>2 DEF R
    <2>2. QED
      BY <2>1 DEF IpsItem, Item
  <1>2. ASSUME NEW g \in Group, NEW k \in DOMAIN AllowedIps[g] PROVE AllowedIps[g][k] \in Network
    BY NodeHostAssumption
  <1>3. UNSPECIFIED \in Address
    BY NodeHostAssumption
  <1>4. \A g \in Group, c \in Network : RangeItem(g, c) \in Item
    BY <1>3 DEF RangeItem, Item
  <1>5. \A g \in Group, c \in Network, a \in Address : OfferItem(g, c, a) \in Item
    BY DEF OfferItem, Item
  <1>6. QED
    BY <1>1, <1>2, <1>4, <1>5

LEMMA AnyItemIs ==
    /\ \A k \in DOMAIN Ips : IpsItem(k) \in AnyItem
    /\ \A g \in Group : \A l \in Leases[g] :
          /\ RangeItem(g, l.cidr) \in AnyItem
          /\ \A k \in DOMAIN AllowedIps[g] : OfferItem(g, AllowedIps[g][k], l.addr) \in AnyItem
  <1>1. ASSUME NEW g \in Group, NEW l \in Leases[g]
        PROVE  RangeItem(g, l.cidr) \in Item
    BY LeasesAre, NetworksAre
  <1>2. ASSUME NEW g \in Group, NEW l \in Leases[g], NEW k \in DOMAIN AllowedIps[g]
        PROVE  OfferItem(g, AllowedIps[g][k], l.addr) \in Item
    BY LeasesAre, NetworksAre
  <1>3. QED
    BY <1>1, <1>2, NetworksAre DEF AnyItem

LEMMA ItemsAreSome ==
    ASSUME NEW L, Assigned(L)
    PROVE  Items(L) \subseteq AnyItem
  <1>1. ASSUME NEW i \in Items(L) PROVE i \in AnyItem
    <2>1. \A g \in Group : L[g] # NoLease => L[g] \in Leases[g]
      BY DEF Assigned
    <2>2. QED
      BY <2>1, ItemsAre, AnyItemIs
  <1>2. QED
    BY <1>1

(* Of the items for one lease per group, none stands for what another one  *)
(* stands for.                                                             *)
LEMMA ItemsDiffer ==
    ASSUME NEW L, NEW i \in Items(L), NEW j \in Items(L), SameThing(i, j), i.kind # "IpsRoute"
    PROVE  i = j
  <1>1. CASE i.kind = "VirtualRange"
    <2>1. PICK g \in Group : i = RangeItem(g, L[g].cidr)
      BY <1>1, ItemsAre, ItemFields
    <2>2. j.kind = "VirtualRange"
      BY <1>1 DEF SameThing
    <2>3. PICK h \in Group : j = RangeItem(h, L[h].cidr)
      BY <2>2, ItemsAre, ItemFields
    <2>4. g = h
      BY <2>1, <2>3, ItemFields DEF SameThing
    <2>5. QED
      BY <2>1, <2>3, <2>4
  <1>2. CASE i.kind # "VirtualRange"
    <2>1. PICK g \in Group : \E k \in DOMAIN AllowedIps[g] :
             i = OfferItem(g, AllowedIps[g][k], L[g].addr)
      BY <1>2, ItemsAre, ItemFields
    <2>2. j.kind # "VirtualRange" /\ j.kind # "IpsRoute" /\ i.cidr = j.cidr /\ i.if = j.if
      BY <1>2 DEF SameThing
    <2>3. PICK h \in Group : \E k \in DOMAIN AllowedIps[h] :
             j = OfferItem(h, AllowedIps[h][k], L[h].addr)
      BY <2>2, ItemsAre, ItemFields
    <2>4. g = h
      BY <2>1, <2>2, <2>3, ItemFields
    <2>5. i = OfferItem(g, i.cidr, L[g].addr) /\ j = OfferItem(g, j.cidr, L[g].addr)
      BY <2>1, <2>3, <2>4, ItemFields
    <2>6. QED
      BY <2>2, <2>5
  <1>3. QED
    BY <1>1, <1>2

LEMMA ItemsAreApart ==
    ASSUME NetworksDiffer, NEW L, Assigned(L)
    PROVE  Apart(Items(L))
  <1>1. ASSUME NEW i \in Items(L), NEW j \in Items(L), i.cidr = j.cidr PROVE i = j
    <2>1. SameThing(i, j)
      BY <1>1, ItemsAreSome DEF NetworksDiffer
    <2>2. CASE i.kind # "IpsRoute"
      BY <2>1, <2>2, ItemsDiffer
    <2>3. CASE i.kind = "IpsRoute"
      <3>1. j.kind = "IpsRoute"
        BY <2>1, <2>3 DEF SameThing
      <3>2. PICK a \in DOMAIN Ips : i = IpsItem(a)
        BY <2>3, ItemsAre, ItemFields
      <3>3. PICK b \in DOMAIN Ips : j = IpsItem(b)
        BY <3>1, ItemsAre, ItemFields
      <3>4. a = b
        BY <1>1, <3>2, <3>3, ItemFields DEF NetworksDiffer
      <3>5. QED
        BY <3>2, <3>3, <3>4
    <2>4. QED
      BY <2>2, <2>3
  <1>2. QED
    BY <1>1 DEF Apart

(* The replacements for a change of the lease of g from old to new. *)
LEMMA ReplacementsAre ==
    ASSUME NEW g \in Group, NEW old \in [addr : Address, cidr : Network], NEW new \in Leases[g],
           NEW all, all = Replacements(g, old, new)
    PROVE  /\ all \in Seq(Replacement)
           /\ \A j \in DOMAIN all :
                 \/ all[j] = [cidr |-> old.cidr, item |-> RangeItem(g, new.cidr)]
                    /\ new.cidr # old.cidr /\ j = 1
                 \/ \E k \in DOMAIN AllowedIps[g] :
                       all[j] = [cidr |-> AllowedIps[g][k],
                                 item |-> OfferItem(g, AllowedIps[g][k], new.addr)]
                       /\ new.addr # old.addr
           /\ new.cidr # old.cidr =>
                 \E j \in DOMAIN all :
                    all[j] = [cidr |-> old.cidr, item |-> RangeItem(g, new.cidr)]
           /\ new.addr # old.addr =>
                 \A k \in DOMAIN AllowedIps[g] : \E j \in DOMAIN all :
                    all[j] = [cidr |-> AllowedIps[g][k],
                              item |-> OfferItem(g, AllowedIps[g][k], new.addr)]
  <1> DEFINE range == [cidr |-> old.cidr, item |-> RangeItem(g, new.cidr)]
             offer(c) == [cidr |-> c, item |-> OfferItem(g, c, new.addr)]
             n == Len(AllowedIps[g])
             first == IF new.cidr # old.cidr THEN <<range>> ELSE <<>>
             offers == IF new.addr # old.addr
                       THEN [k \in DOMAIN AllowedIps[g] |-> offer(AllowedIps[g][k])] ELSE <<>>
  <1>1. all = first \o offers
    BY DEF Replacements
  <1>2. /\ AllowedIps[g] \in Seq(Network) /\ n \in Nat /\ DOMAIN AllowedIps[g] = 1 .. n
        /\ new.cidr \in Network /\ new.addr \in Address
    BY LeasesAre, NodeHostAssumption
  <1>3. range \in Replacement /\ \A k \in 1 .. n : offer(AllowedIps[g][k]) \in Replacement
    BY <1>2, NetworksAre DEF Replacement
  <1> HIDE DEF range, offer
  <1>4. /\ first \in Seq(Replacement)
        /\ Len(first) = IF new.cidr # old.cidr THEN 1 ELSE 0
        /\ new.cidr # old.cidr => first[1] = range
    BY <1>3
  <1>5. /\ offers \in Seq(Replacement)
        /\ Len(offers) = IF new.addr # old.addr THEN n ELSE 0
        /\ new.addr # old.addr => \A k \in 1 .. n : offers[k] = offer(AllowedIps[g][k])
    BY <1>2, <1>3
  <1> DEFINE m == Len(first)
  <1>6. m = IF new.cidr # old.cidr THEN 1 ELSE 0
    BY <1>4
  <1> HIDE DEF first, offers, n
  <1>7. /\ all \in Seq(Replacement) /\ Len(all) = m + Len(offers)
        /\ \A j \in 1 .. m + Len(offers) : all[j] = IF j <= m THEN first[j] ELSE offers[j - m]
    BY <1>1, <1>4, <1>5
  <1>8. m \in {0, 1} /\ Len(offers) \in Nat /\ DOMAIN all = 1 .. m + Len(offers)
    BY <1>4, <1>5, <1>7
  <1> HIDE DEF m
  <1>9. ASSUME NEW j \in DOMAIN all
        PROVE  \/ all[j] = range /\ new.cidr # old.cidr /\ j = 1
               \/ \E k \in 1 .. n : all[j] = offer(AllowedIps[g][k]) /\ new.addr # old.addr
    <2>1. CASE j <= m
      <3>1. j = 1 /\ m = 1
        BY <1>8, <2>1
      <3>2. new.cidr # old.cidr /\ first[1] = range
        BY <1>4, <1>6, <3>1
      <3>3. all[1] = first[1]
        BY <1>7, <1>8, <3>1
      <3>4. QED
        BY <3>1, <3>2, <3>3
    <2>2. CASE ~(j <= m)
      <3>1. j - m \in 1 .. Len(offers)
        BY <1>8, <2>2
      <3>2. new.addr # old.addr /\ j - m \in 1 .. n
        BY <1>5, <3>1
      <3>3. all[j] = offers[j - m]
        BY <1>7, <1>8, <2>2
      <3>4. QED
        BY <1>5, <3>2, <3>3
    <2>3. QED
      BY <2>1, <2>2
  <1>10. ASSUME new.cidr # old.cidr PROVE \E j \in DOMAIN all : all[j] = range
    <2>1. m = 1 /\ 1 \in DOMAIN all
      BY <1>4, <1>8, <1>10 DEF m
    <2>2. all[1] = range
      BY <1>4, <1>7, <1>8, <1>10, <2>1
    <2>3. QED
      BY <2>1, <2>2
  <1>11. ASSUME new.addr # old.addr, NEW k \in 1 .. n
         PROVE  \E j \in DOMAIN all : all[j] = offer(AllowedIps[g][k])
    <2>1. /\ m + k \in 1 .. m + Len(offers) /\ ~(m + k <= m) /\ (m + k) - m = k
      BY <1>2, <1>5, <1>8, <1>11
    <2>2. all[m + k] = offers[k]
      BY <1>7, <2>1
    <2>3. QED
      BY <1>5, <1>8, <1>11, <2>1, <2>2
  <1>12. QED
    BY <1>2, <1>7, <1>9, <1>10, <1>11 DEF range, offer

LEMMA ReplacementItems ==
    ASSUME NEW g \in Group, NEW old \in [addr : Address, cidr : Network], NEW new \in Leases[g],
           NEW all, all = Replacements(g, old, new), NEW j \in DOMAIN all
    PROVE  /\ all[j].item \in AnyItem /\ all[j].item.if = g /\ all[j].item.kind # "IpsRoute"
           /\ all[j].item.kind = "VirtualRange" =>
                 /\ all[j].cidr = old.cidr /\ all[j].item = RangeItem(g, new.cidr)
                 /\ new.cidr # old.cidr /\ j = 1
           /\ all[j].item.kind # "VirtualRange" =>
                 /\ all[j].item = OfferItem(g, all[j].cidr, new.addr)
                 /\ new.addr # old.addr
  <1>1. CASE all[j] = [cidr |-> old.cidr, item |-> RangeItem(g, new.cidr)]
             /\ new.cidr # old.cidr /\ j = 1
    BY <1>1, AnyItemIs, ItemFields
  <1>2. CASE \E k \in DOMAIN AllowedIps[g] :
                 all[j] = [cidr |-> AllowedIps[g][k],
                           item |-> OfferItem(g, AllowedIps[g][k], new.addr)]
                 /\ new.addr # old.addr
    BY <1>2, AnyItemIs, ItemFields
  <1>3. QED
    BY <1>1, <1>2, ReplacementsAre

(* The items after the first k replacements. *)
Kept(L, all, k) ==
    {i \in Items(L) : \A j \in 1 .. k : i.cidr # all[j].cidr \/ i.kind # all[j].item.kind}

Stage(L, all, k) == Kept(L, all, k) \cup {all[j].item : j \in 1 .. k}

LEMMA StageIsApart ==
    ASSUME NetworksDiffer, NEW L, Assigned(L), NEW g \in Group, NEW new \in Leases[g],
           NEW all, all = Replacements(g, L[g], new), NEW k \in Nat, 1 .. k \subseteq DOMAIN all
    PROVE  Stage(L, all, k) \subseteq AnyItem /\ Apart(Stage(L, all, k))
  <1>1. L[g] \in [addr : Address, cidr : Network]
    BY DEF Assigned
  <1>2. \A b \in DOMAIN all :
           /\ all[b].item.kind # "IpsRoute"
           /\ all[b].item.kind = "VirtualRange" =>
                 all[b].cidr = L[g].cidr /\ all[b].item = RangeItem(g, new.cidr)
    BY <1>1, ReplacementItems
  <1>3. Stage(L, all, k) \subseteq AnyItem
    BY <1>1, ItemsAreSome, ReplacementItems DEF Stage, Kept
  <1>4. ASSUME NEW i \in Stage(L, all, k), NEW j \in Stage(L, all, k),
               SameThing(i, j), i.kind # "IpsRoute"
        PROVE  i = j
    <2>1. CASE i \in Kept(L, all, k) /\ j \in Kept(L, all, k)
      BY <1>4, <2>1, ItemsDiffer DEF Kept
    <2>2. ASSUME NEW x \in Kept(L, all, k), NEW b \in 1 .. k PROVE ~SameThing(x, all[b].item)
      <3> SUFFICES ASSUME SameThing(x, all[b].item) PROVE FALSE
        OBVIOUS
      <3>1. /\ x \in Items(L) /\ b \in DOMAIN all
            /\ x.kind = all[b].item.kind /\ x.if = g /\ x.cidr # all[b].cidr
            /\ x.kind = "VirtualRange" \/ x.cidr = all[b].item.cidr
        BY <1>1, <2>2, ReplacementItems DEF Kept, SameThing
      <3>2. CASE x.kind = "VirtualRange"
        <4>1. all[b].cidr = L[g].cidr
          BY <1>2, <3>1, <3>2
        <4>2. x = RangeItem(g, L[g].cidr)
          BY <3>1, <3>2, ItemsAre, ItemFields
        <4>3. QED
          BY <3>1, <4>1, <4>2, ItemFields
      <3>3. CASE x.kind # "VirtualRange"
        <4>1. all[b].item = OfferItem(g, all[b].cidr, new.addr)
          BY <1>1, <3>1, <3>3, ReplacementItems
        <4>2. QED
          BY <3>1, <3>3, <4>1, ItemFields
      <3>4. QED
        BY <3>2, <3>3
    <2>3. ASSUME NEW a \in 1 .. k, NEW b \in 1 .. k, SameThing(all[a].item, all[b].item)
          PROVE  all[a].item = all[b].item
      <3>1. /\ a \in DOMAIN all /\ b \in DOMAIN all /\ all[a].item.kind = all[b].item.kind
            /\ all[a].item.kind = "VirtualRange" \/ all[a].item.cidr = all[b].item.cidr
        BY <2>3 DEF SameThing
      <3>2. CASE all[a].item.kind = "VirtualRange"
        BY <1>2, <3>1, <3>2
      <3>3. CASE all[a].item.kind # "VirtualRange"
        <4>1. /\ all[a].item = OfferItem(g, all[a].cidr, new.addr)
              /\ all[b].item = OfferItem(g, all[b].cidr, new.addr)
          BY <1>1, <3>1, <3>3, ReplacementItems
        <4>2. QED
          BY <3>1, <3>3, <4>1, ItemFields
      <3>4. QED
        BY <3>2, <3>3
    <2>4. SameThing(j, i)
      BY <1>4 DEF SameThing
    <2>5. QED
      BY <1>4, <2>1, <2>2, <2>3, <2>4 DEF Stage
  <1>5. ASSUME NEW i \in Stage(L, all, k), NEW j \in Stage(L, all, k), i.cidr = j.cidr
        PROVE  i = j
    <2>1. SameThing(i, j)
      BY <1>3, <1>5 DEF NetworksDiffer
    <2>2. CASE i.kind # "IpsRoute"
      BY <1>4, <2>1, <2>2
    <2>3. CASE i.kind = "IpsRoute"
      <3>1. i \in Items(L) /\ j \in Items(L) /\ j.kind = "IpsRoute"
        <4>1. i.kind = "IpsRoute" /\ j.kind = "IpsRoute"
          BY <2>1, <2>3 DEF SameThing
        <4>2. \A x \in Stage(L, all, k) : x.kind = "IpsRoute" => x \in Items(L)
          BY <1>2 DEF Stage, Kept
        <4>3. QED
          BY <4>1, <4>2
      <3>2. PICK a \in DOMAIN Ips : i = IpsItem(a)
        BY <2>3, <3>1, ItemsAre, ItemFields
      <3>3. PICK b \in DOMAIN Ips : j = IpsItem(b)
        BY <3>1, ItemsAre, ItemFields
      <3>4. a = b
        BY <1>5, <3>2, <3>3, ItemFields DEF NetworksDiffer
      <3>5. QED
        BY <3>2, <3>3, <3>4
    <2>4. QED
      BY <2>2, <2>3
  <1>6. QED
    BY <1>3, <1>5 DEF Apart

(* A replacement goes from one stage to the next. *)
Advances(L, all, k) ==
    LET K == Stage(L, all, k - 1)
    IN  /\ Stage(L, all, k) = Others(K, all[k]) \cup {all[k].item}
        /\ \A x \in Others(K, all[k]) : x.cidr # all[k].item.cidr

LEMMA StageGoesOn ==
    ASSUME NetworksDiffer, NEW L, Assigned(L), NEW g \in Group, NEW new \in Leases[g],
           NEW all, all = Replacements(g, L[g], new), NEW k \in 1 .. Len(all)
    PROVE  Advances(L, all, k)
  <1> DEFINE K == Stage(L, all, k - 1)
             r == all[k]
  <1>1. L[g] \in [addr : Address, cidr : Network]
    BY DEF Assigned
  <1>2. all \in Seq(Replacement) /\ Len(all) \in Nat /\ DOMAIN all = 1 .. Len(all)
    BY <1>1, ReplacementsAre
  <1>3. /\ k \in DOMAIN all /\ k - 1 \in Nat /\ k \in Nat
        /\ 1 .. k - 1 \subseteq DOMAIN all /\ 1 .. k \subseteq DOMAIN all
        /\ 1 .. k = (1 .. k - 1) \cup {k} /\ k \notin 1 .. k - 1
    BY <1>2
  <1>4. ASSUME NEW j \in 1 .. k - 1, all[j].item.cidr = r.cidr, all[j].item.kind = r.item.kind
        PROVE  all[j].item = r.item
    <2>1. j \in DOMAIN all /\ j # k
      BY <1>3
    <2>2. CASE r.item.kind = "VirtualRange"
      BY <1>1, <1>3, <1>4, <2>1, <2>2, ReplacementItems
    <2>3. CASE r.item.kind # "VirtualRange"
      <3>1. /\ all[j].item = OfferItem(g, all[j].cidr, new.addr)
            /\ r.item = OfferItem(g, r.cidr, new.addr)
        BY <1>1, <1>3, <1>4, <2>1, <2>3, ReplacementItems
      <3>2. QED
        BY <1>4, <3>1, ItemFields
    <2>4. QED
      BY <2>2, <2>3
  <1>5. Stage(L, all, k) = Others(K, r) \cup {r.item}
    <2>1. Kept(L, all, k) = {i \in Kept(L, all, k - 1) : i.cidr # r.cidr \/ i.kind # r.item.kind}
      BY <1>3 DEF Kept
    <2>2. {all[j].item : j \in 1 .. k} = {all[j].item : j \in 1 .. k - 1} \cup {r.item}
      BY <1>3
    <2>3. ASSUME NEW j \in 1 .. k - 1
          PROVE  all[j].item = r.item \/ all[j].item \in Others(K, r)
      <3>1. all[j].item \in K
        BY DEF Stage
      <3>2. QED
        BY <1>4, <3>1 DEF Others
    <2>4. Kept(L, all, k) \subseteq Others(K, r)
      BY <2>1 DEF Stage, Others
    <2>5. ASSUME NEW x \in Others(K, r)
          PROVE  x \in Kept(L, all, k) \/ x \in {all[j].item : j \in 1 .. k - 1}
      BY <2>1 DEF Stage, Others
    <2>6. QED
      BY <2>2, <2>3, <2>4, <2>5 DEF Stage
  <1>6. ASSUME NEW x \in Others(K, r), x.cidr = r.item.cidr
        PROVE  FALSE
    <2>1. x \in K /\ (x.cidr # r.cidr \/ x.kind # r.item.kind)
      BY DEF Others
    <2>2. x \in AnyItem /\ r.item \in AnyItem
      BY <1>1, <1>3, <1>6, StageIsApart, ReplacementItems DEF Others
    <2>4. SameThing(x, r.item)
      BY <1>6, <2>2 DEF NetworksDiffer
    <2>5. x \in Stage(L, all, k) /\ r.item \in Stage(L, all, k)
      BY <1>5
    <2>6. x = r.item
      BY <1>3, <1>6, <2>5, StageIsApart DEF Apart
    <2>7. x.cidr # r.cidr /\ x.kind = r.item.kind
      BY <2>4, <1>6 DEF Others, SameThing
    <2>8. r.item.kind = "VirtualRange"
      BY <1>1, <1>3, <1>6, <2>7, ReplacementItems, ItemFields
    <2>9. r.cidr = L[g].cidr /\ r.item = RangeItem(g, new.cidr) /\ k = 1 /\ new.cidr # L[g].cidr
      BY <1>1, <1>3, <2>8, ReplacementItems
    <2>10. x \in Items(L)
      <3>1. 1 .. k - 1 = {}
        BY <2>9
      <3>2. QED
        BY <3>1, <1>6 DEF Others, Stage, Kept
    <2>11. x = RangeItem(g, L[g].cidr)
      BY <2>6, <2>8, <2>9, <2>10, ItemsAre, ItemFields
    <2>12. QED
      BY <2>7, <2>9, <2>11, ItemFields
  <1>7. QED
    BY <1>5, <1>6 DEF Advances

LEMMA LastStage ==
    ASSUME NetworksDiffer, NEW L, Assigned(L), NEW g \in Group, NEW new \in Leases[g],
           NEW all, all = Replacements(g, L[g], new)
    PROVE  Stage(L, all, Len(all)) = Items([L EXCEPT ![g] = new])
  <1> DEFINE old == L[g]
             M == [L EXCEPT ![g] = new]
             n == Len(all)
  <1>1. /\ old \in [addr : Address, cidr : Network] /\ old \in Leases[g] \cup {NoLease}
        /\ DOMAIN L = Group
    BY DEF Assigned
  <1>2. all \in Seq(Replacement) /\ DOMAIN all = 1 .. n
    BY <1>1, ReplacementsAre
  <1>3. /\ M[g] = new /\ new # NoLease /\ new.cidr # NoLease.cidr /\ new.addr # NoLease.addr
        /\ \A h \in Group : h # g => M[h] = L[h]
        /\ \A h \in Group : L[h] # NoLease => L[h] \in Leases[h]
    <2>1. new.addr # NoLease.addr
      BY LeasesAre
    <2>2. QED
      BY <1>1, <2>1 DEF NetworksDiffer, Assigned
  <1> HIDE DEF M, n
  <1>4. \A j \in 1 .. n :
           /\ all[j].item \in AnyItem /\ all[j].item.if = g /\ all[j].item.kind # "IpsRoute"
           /\ all[j].item.kind = "VirtualRange" => all[j].cidr = old.cidr /\ new.cidr # old.cidr
           /\ all[j].item.kind # "VirtualRange" =>
                 all[j].item = OfferItem(g, all[j].cidr, new.addr) /\ new.addr # old.addr
    <2>1. \A j \in DOMAIN all :
             /\ all[j].item \in AnyItem /\ all[j].item.if = g /\ all[j].item.kind # "IpsRoute"
             /\ all[j].item.kind = "VirtualRange" => all[j].cidr = old.cidr /\ new.cidr # old.cidr
             /\ all[j].item.kind # "VirtualRange" =>
                   all[j].item = OfferItem(g, all[j].cidr, new.addr) /\ new.addr # old.addr
      BY <1>1, ReplacementItems
    <2>2. QED
      BY <1>2, <2>1
  <1>5. \A j \in 1 .. n :
           \/ all[j].item = RangeItem(g, new.cidr)
           \/ \E k \in DOMAIN AllowedIps[g] :
                 all[j].item = OfferItem(g, AllowedIps[g][k], new.addr)
    <2>1. ASSUME NEW j \in DOMAIN all
          PROVE  \/ all[j].item = RangeItem(g, new.cidr)
                 \/ \E k \in DOMAIN AllowedIps[g] :
                       all[j].item = OfferItem(g, AllowedIps[g][k], new.addr)
      <3>1. CASE all[j] = [cidr |-> old.cidr, item |-> RangeItem(g, new.cidr)]
        BY <3>1
      <3>2. \/ all[j] = [cidr |-> old.cidr, item |-> RangeItem(g, new.cidr)]
            \/ \E k \in DOMAIN AllowedIps[g] :
                  all[j] = [cidr |-> AllowedIps[g][k],
                            item |-> OfferItem(g, AllowedIps[g][k], new.addr)]
        BY <1>1, ReplacementsAre
      <3>3. ASSUME NEW k \in DOMAIN AllowedIps[g],
                   all[j] = [cidr |-> AllowedIps[g][k],
                             item |-> OfferItem(g, AllowedIps[g][k], new.addr)]
            PROVE  all[j].item = OfferItem(g, AllowedIps[g][k], new.addr)
        BY <3>3
      <3>4. QED
        BY <3>1, <3>3, <3>2
    <2>2. QED
      BY <1>2, <2>1
  <1>6. ASSUME new.cidr # old.cidr
        PROVE  \E j \in 1 .. n : all[j] = [cidr |-> old.cidr, item |-> RangeItem(g, new.cidr)]
    <2>1. \E j \in DOMAIN all : all[j] = [cidr |-> old.cidr, item |-> RangeItem(g, new.cidr)]
      BY <1>1, <1>6, ReplacementsAre
    <2>2. QED
      BY <1>2, <2>1
  <1>7. ASSUME new.addr # old.addr, NEW k \in DOMAIN AllowedIps[g]
         PROVE  \E j \in 1 .. n : all[j] = [cidr |-> AllowedIps[g][k],
                                          item |-> OfferItem(g, AllowedIps[g][k], new.addr)]
    <2>1. \E j \in DOMAIN all : all[j] = [cidr |-> AllowedIps[g][k],
                                         item |-> OfferItem(g, AllowedIps[g][k], new.addr)]
      BY <1>1, <1>7, ReplacementsAre
    <2>2. QED
      BY <1>2, <2>1
  <1> HIDE DEF old
  <1>8. ASSUME NEW i \in Stage(L, all, n) PROVE i \in Items(M)
    <2>1. CASE i \in Kept(L, all, n)
      <3>1. i \in Items(L) /\ \A j \in 1 .. n : i.cidr # all[j].cidr \/ i.kind # all[j].item.kind
        BY <2>1 DEF Kept
      <3>2. CASE \E k \in DOMAIN Ips : i = IpsItem(k)
        BY <3>2, ItemsAre
      <3>3. ASSUME NEW h \in Group, L[h] # NoLease, i = RangeItem(h, L[h].cidr)
            PROVE  i \in Items(M)
        <4>1. CASE h # g
          BY <1>3, <3>3, <4>1, ItemsAre
        <4>2. CASE h = g
          <5>1. new.cidr = old.cidr
            <6> SUFFICES ASSUME new.cidr # old.cidr PROVE FALSE
              OBVIOUS
            <6>1. PICK j \in 1 .. n : all[j] = [cidr |-> old.cidr, item |-> RangeItem(g, new.cidr)]
              BY <1>6
            <6>2. QED
              BY <3>1, <3>3, <4>2, <6>1, ItemFields DEF old
          <5>2. QED
            BY <1>3, <3>3, <4>2, <5>1, ItemsAre DEF old
        <4>3. QED
          BY <4>1, <4>2
      <3>4. ASSUME NEW h \in Group, NEW k \in DOMAIN AllowedIps[h], L[h] # NoLease,
                   i = OfferItem(h, AllowedIps[h][k], L[h].addr)
            PROVE  i \in Items(M)
        <4>1. CASE h # g
          BY <1>3, <3>4, <4>1, ItemsAre
        <4>2. CASE h = g
          <5>1. new.addr = old.addr
            <6> SUFFICES ASSUME new.addr # old.addr PROVE FALSE
              OBVIOUS
            <6>1. PICK j \in 1 .. n :
                     all[j] = [cidr |-> AllowedIps[g][k],
                               item |-> OfferItem(g, AllowedIps[g][k], new.addr)]
              BY <1>7, <3>4, <4>2
            <6>2. QED
              BY <3>1, <3>4, <4>2, <6>1, ItemFields
          <5>2. QED
            BY <1>3, <3>4, <4>2, <5>1, ItemsAre DEF old
        <4>3. QED
          BY <4>1, <4>2
      <3>5. QED
        BY <3>1, <3>2, <3>3, <3>4, ItemsAre
    <2>2. ASSUME NEW j \in 1 .. n, i = all[j].item PROVE i \in Items(M)
      BY <1>3, <1>5, <2>2, ItemsAre
    <2>3. QED
      BY <2>1, <2>2 DEF Stage
  <1>9. ASSUME NEW i \in Items(M) PROVE i \in Stage(L, all, n)
    <2>1. CASE \E k \in DOMAIN Ips : i = IpsItem(k)
      <3>1. i \in Items(L) /\ i.kind = "IpsRoute"
        BY <2>1, ItemsAre, ItemFields
      <3>2. QED
        BY <1>4, <3>1 DEF Stage, Kept
    <2>2. ASSUME NEW h \in Group, i \in Items(L), i \in AnyItem, i.if = h, h # g
          PROVE  i \in Stage(L, all, n)
      <3>1. ASSUME NEW j \in 1 .. n, i.cidr = all[j].cidr, i.kind = all[j].item.kind
            PROVE  FALSE
        <4>1. i.cidr \in Network
          BY <2>2, ItemIs DEF AnyItem
        <4>2. CASE i.kind = "VirtualRange"
          <5>1. all[j].cidr = old.cidr
            BY <1>4, <3>1, <4>2
          <5>2. i = RangeItem(h, L[h].cidr) /\ L[h] \in Leases[h]
            BY <1>3, <2>2, <4>2, ItemsAre, ItemFields
          <5>3. old \in Leases[g]
            <6>1. i.cidr # NoLease.cidr
              BY <5>2, ItemFields DEF NetworksDiffer
            <6>2. QED
              BY <1>1, <3>1, <5>1, <6>1
          <5>4. RangeItem(g, old.cidr) \in AnyItem /\ i.cidr = RangeItem(g, old.cidr).cidr
            BY <3>1, <4>1, <5>1, <5>3, AnyItemIs, ItemFields
          <5>5. SameThing(i, RangeItem(g, old.cidr))
            BY <2>2, <5>4 DEF NetworksDiffer
          <5>6. QED
            BY <2>2, <5>5, ItemFields DEF SameThing
        <4>3. CASE i.kind # "VirtualRange"
          <5>1. all[j].item = OfferItem(g, all[j].cidr, new.addr)
            BY <1>4, <3>1, <4>3
          <5>2. all[j].item \in AnyItem /\ i.cidr = all[j].item.cidr
            BY <1>4, <3>1, <4>1, <5>1, ItemFields
          <5>3. SameThing(i, all[j].item)
            BY <2>2, <5>2 DEF NetworksDiffer
          <5>4. QED
            BY <1>4, <2>2, <5>3 DEF SameThing
        <4>4. QED
          BY <4>2, <4>3
      <3>2. QED
        BY <2>2, <3>1 DEF Stage, Kept
    <2>3. ASSUME NEW h \in Group, M[h] # NoLease, i = RangeItem(h, M[h].cidr)
          PROVE  i \in Stage(L, all, n)
      <3>1. CASE h # g
        <4>1. i \in Items(L) /\ i \in AnyItem /\ i.if = h
          BY <1>3, <2>3, <3>1, ItemsAre, ItemsAreSome, ItemFields
        <4>2. QED
          BY <2>2, <3>1, <4>1
      <3>2. CASE h = g /\ new.cidr # old.cidr
        <4>1. PICK j \in 1 .. n : all[j].item = RangeItem(g, new.cidr)
          BY <1>6, <3>2
        <4>2. QED
          BY <1>3, <2>3, <3>2, <4>1 DEF Stage
      <3>3. CASE h = g /\ new.cidr = old.cidr
        <4>1. i = RangeItem(g, old.cidr) /\ old # NoLease
          BY <1>3, <2>3, <3>3
        <4>2. i \in Items(L) /\ i.kind = "VirtualRange"
          BY <4>1, ItemsAre, ItemFields DEF old
        <4>3. \A j \in 1 .. n : all[j].item.kind # "VirtualRange"
          BY <1>4, <3>3
        <4>4. QED
          BY <4>2, <4>3 DEF Stage, Kept
      <3>4. QED
        BY <3>1, <3>2, <3>3
    <2>4. ASSUME NEW h \in Group, NEW k \in DOMAIN AllowedIps[h], M[h] # NoLease,
                 i = OfferItem(h, AllowedIps[h][k], M[h].addr)
          PROVE  i \in Stage(L, all, n)
      <3>1. CASE h # g
        <4>1. i \in Items(L) /\ i \in AnyItem /\ i.if = h
          BY <1>3, <2>4, <3>1, ItemsAre, ItemsAreSome, ItemFields
        <4>2. QED
          BY <2>2, <3>1, <4>1
      <3>2. CASE h = g /\ new.addr # old.addr
        <4>1. PICK j \in 1 .. n : all[j].item = OfferItem(g, AllowedIps[g][k], new.addr)
          <5>1. k \in DOMAIN AllowedIps[g] /\ new.addr # old.addr
            BY <2>4, <3>2
          <5>2. PICK j \in 1 .. n :
                   all[j] = [cidr |-> AllowedIps[g][k],
                             item |-> OfferItem(g, AllowedIps[g][k], new.addr)]
            BY <1>7, <5>1
          <5>3. QED
            BY <5>2
        <4>2. QED
          BY <1>3, <2>4, <3>2, <4>1 DEF Stage
      <3>3. CASE h = g /\ new.addr = old.addr
        <4>1. i = OfferItem(g, AllowedIps[g][k], old.addr) /\ old # NoLease
          BY <1>3, <2>4, <3>3
        <4>2. i \in Items(L) /\ i.kind = "AllowedIpsRoute"
          BY <2>4, <3>3, <4>1, ItemsAre, ItemFields DEF old
        <4>3. \A j \in 1 .. n : all[j].item.kind = "VirtualRange"
          BY <1>4, <3>3
        <4>4. QED
          BY <4>2, <4>3 DEF Stage, Kept
      <3>4. QED
        BY <3>1, <3>2, <3>3
    <2>5. QED
      BY <2>1, <2>3, <2>4, ItemsAre
  <1>10. QED
    BY <1>8, <1>9 DEF M, n

TablesAre(t, h, I) == ArrayIs(t, I) /\ HashIs(h, I)

LEMMA HashIsTable ==
    ASSUME NEW I, I \subseteq Item, NEW h, HashIs(h, I)
    PROVE  h \in HashTable
  <1>1. {i.cidr : i \in I} \subseteq Network
    BY ItemIs
  <1>2. h \in [{i.cidr : i \in I} -> Item]
    BY DEF HashIs
  <1>3. QED
    BY <1>1, <1>2 DEF HashTable

LEMMA TablesFollow ==
    ASSUME NetworksDiffer, NEW L, Assigned(L), NEW g \in Group, NEW new \in Leases[g],
           NEW all, all = Replacements(g, L[g], new), NEW t, NEW h, TablesAre(t, h, Items(L))
    PROVE  TablesAre(FoldLeft(Replace, t, all), FoldLeft(HashReplace, h, all),
                     Items([L EXCEPT ![g] = new]))
  <1> DEFINE n == Len(all)
  <1>1. L[g] \in [addr : Address, cidr : Network]
    BY DEF Assigned
  <1>2. all \in Seq(Replacement) /\ n \in Nat /\ DOMAIN all = 1 .. n
    BY <1>1, ReplacementsAre
  <1>3. t \in Seq(Item) /\ h \in HashTable
    <2>1. Items(L) \subseteq Item
      BY ItemsAreSome DEF AnyItem
    <2>2. QED
      BY <2>1, HashIsTable DEF TablesAre, ArrayIs
  <1>4. PICK T : /\ T[0] = t /\ \A k \in 1 .. n : T[k] = Replace(T[k - 1], all[k])
                 /\ FoldLeft(Replace, t, all) = T[n]
    BY <1>2, <1>3, ReplacesAll
  <1>5. PICK H : /\ H[0] = h /\ \A k \in 1 .. n : H[k] = HashReplace(H[k - 1], all[k])
                 /\ FoldLeft(HashReplace, h, all) = H[n]
    BY <1>2, <1>3, HashReplacesAll
  <1> DEFINE S == {k \in 0 .. n : TablesAre(T[k], H[k], Stage(L, all, k))}
  <1> HIDE DEF n
  <1>6. 0 \in S
    <2>1. 1 .. 0 = {}
      OBVIOUS
    <2>2. Stage(L, all, 0) = Items(L)
      BY <2>1 DEF Stage, Kept
    <2>3. QED
      BY <1>2, <1>4, <1>5, <2>2
  <1>7. ASSUME NEW k \in 0 .. n - 1, k \in S PROVE k + 1 \in S
    <2> DEFINE K == Stage(L, all, k)
               r == all[k + 1]
    <2>1. /\ k \in Nat /\ k + 1 \in 1 .. n /\ (k + 1) - 1 = k /\ k + 1 \in DOMAIN all
          /\ 1 .. k \subseteq DOMAIN all /\ k + 1 \in 0 .. n
      BY <1>2
    <2>2. r \in Replacement
      BY <1>2, <2>1
    <2>3. /\ Stage(L, all, k + 1) = Others(K, r) \cup {r.item}
          /\ \A x \in Others(K, r) : x.cidr # r.item.cidr
      <3> DEFINE m == k + 1
      <3>1. m \in 1 .. Len(all) /\ m - 1 = k
        BY <2>1 DEF n
      <3> HIDE DEF m
      <3>2. Advances(L, all, m)
        BY <3>1, StageGoesOn
      <3>3. QED
        BY <3>1, <3>2 DEF Advances, m
    <2>4. Apart(K)
      BY <2>1, StageIsApart
    <2>5. T[k + 1] = Replace(T[k], r) /\ H[k + 1] = HashReplace(H[k], r)
      BY <1>4, <1>5, <2>1
    <2>6. ArrayIs(T[k], K) /\ HashIs(H[k], K)
      BY <1>7 DEF TablesAre
    <2> HIDE DEF K, r
    <2>7. ArrayIs(T[k + 1], Stage(L, all, k + 1))
      <3>1. r.item \notin Others(K, r)
        BY <2>3
      <3>2. QED
        BY <2>2, <2>3, <2>4, <2>5, <2>6, <3>1, ArrayReplaces DEF Replacement
    <2>8. HashIs(H[k + 1], Stage(L, all, k + 1))
      BY <2>3, <2>5, <2>6, HashReplaces
    <2>9. QED
      BY <2>1, <2>7, <2>8 DEF TablesAre
  <1>8. n \in S
    <2> HIDE DEF S
    <2>1. 0 .. n \subseteq S
      BY <1>2, <1>6, <1>7, Induction
    <2>2. QED
      BY <1>2, <2>1
  <1>9. Stage(L, all, n) = Items([L EXCEPT ![g] = new])
    BY LastStage DEF n
  <1>10. QED
    BY <1>4, <1>5, <1>8, <1>9

(* At the start the tables have the subnet routes. *)
LEMMA TablesBegin ==
    ASSUME NetworksDiffer, NEW ipsItems, ipsItems = [k \in DOMAIN Ips |-> IpsItem(k)]
    PROVE  TablesAre(FoldLeft(Add, <<>>, ipsItems),
                     FoldLeft(HashAdd, [c \in {} |-> Nothing], ipsItems),
                     Items([g \in Group |-> NoLease]))
  <1> DEFINE n == Len(Ips)
             h == [c \in {} |-> Nothing]
             First(k) == {IpsItem(j) : j \in 1 .. k}
  <1>1. n \in Nat /\ DOMAIN Ips = 1 .. n
    BY NodeHostAssumption
  <1>2. /\ ipsItems \in Seq(Item) /\ Len(ipsItems) = n
        /\ \A k \in 1 .. n : ipsItems[k] = IpsItem(k) /\ IpsItem(k) \in Item
    BY <1>1, NetworksAre
  <1>3. <<>> \in Seq(Item) /\ h \in HashTable
    <2>1. h \in [{} -> Item] /\ {} \in SUBSET Network
      OBVIOUS
    <2> HIDE DEF h
    <2>2. h \in HashTable
      BY <2>1 DEF HashTable
    <2>3. QED
      BY <2>2
  <1>4. PICK T : /\ T[0] = <<>> /\ \A k \in 1 .. n : T[k] = Add(T[k - 1], ipsItems[k])
                 /\ FoldLeft(Add, <<>>, ipsItems) = T[n]
    <2> HIDE DEF n
    <2>1. \E T : /\ T[0] = <<>> /\ \A k \in 1 .. Len(ipsItems) : T[k] = Add(T[k - 1], ipsItems[k])
                 /\ FoldLeft(Add, <<>>, ipsItems) = T[Len(ipsItems)]
      BY <1>2, <1>3, Adds
    <2>2. QED
      BY <1>2, <2>1
  <1>5. PICK H : /\ H[0] = h /\ \A k \in 1 .. n : H[k] = HashAdd(H[k - 1], ipsItems[k])
                 /\ FoldLeft(HashAdd, h, ipsItems) = H[n]
    <2> HIDE DEF n, h
    <2>1. \E H : /\ H[0] = h /\ \A k \in 1 .. Len(ipsItems) : H[k] = HashAdd(H[k - 1], ipsItems[k])
                 /\ FoldLeft(HashAdd, h, ipsItems) = H[Len(ipsItems)]
      BY <1>2, <1>3, HashAddsAll
    <2>2. QED
      BY <1>2, <2>1
  <1> DEFINE S == {k \in 0 .. n : TablesAre(T[k], H[k], First(k))}
  <1>6. First(0) = {}
    OBVIOUS
  <1> HIDE DEF n
  <1>7. 0 \in S
    <2>1. ArrayIs(<<>>, {})
      BY <1>3 DEF ArrayIs
    <2>2. HashIs(h, {})
      BY DEF HashIs
    <2>3. TablesAre(T[0], H[0], First(0))
      <3> HIDE DEF h, First
      <3>1. QED
        BY <1>4, <1>5, <1>6, <2>1, <2>2 DEF TablesAre
    <2>4. QED
      BY <1>1, <2>3
  <1>8. ASSUME NEW k \in 0 .. n - 1, k \in S PROVE k + 1 \in S
    <2> DEFINE i == IpsItem(k + 1)
    <2>1. k \in Nat /\ k + 1 \in 1 .. n /\ (k + 1) - 1 = k /\ k + 1 \in 0 .. n
      BY <1>1
    <2>2. i \in Item /\ T[k + 1] = Add(T[k], i) /\ H[k + 1] = HashAdd(H[k], i)
      BY <1>2, <1>4, <1>5, <2>1
    <2>3. \A x \in First(k) : x.cidr # i.cidr
      <3>1. ASSUME NEW j \in 1 .. k, IpsItem(j).cidr = i.cidr PROVE FALSE
        <4>1. j \in DOMAIN Ips /\ k + 1 \in DOMAIN Ips /\ j # k + 1
          BY <1>1, <2>1
        <4>2. Ips[j].cidr = Ips[k + 1].cidr
          BY <3>1, ItemFields
        <4>3. QED
          BY <4>1, <4>2 DEF NetworksDiffer
      <3>2. QED
        BY <3>1
    <2>4. First(k + 1) = First(k) \cup {i}
      <3>1. 1 .. k + 1 = (1 .. k) \cup {k + 1}
        BY <2>1
      <3>2. QED
        BY <3>1
    <2>5. ArrayIs(T[k], First(k)) /\ HashIs(H[k], First(k))
      BY <1>8 DEF TablesAre
    <2> HIDE DEF First, i
    <2>6. ArrayIs(T[k + 1], First(k + 1))
      BY <2>2, <2>3, <2>4, <2>5, ArrayAdds
    <2>7. HashIs(H[k + 1], First(k + 1))
      BY <2>2, <2>3, <2>4, <2>5, HashAdds
    <2>8. QED
      BY <2>1, <2>6, <2>7 DEF TablesAre
  <1>9. n \in S
    <2> HIDE DEF S
    <2>1. 0 .. n \subseteq S
      BY <1>1, <1>7, <1>8, Induction
    <2>2. QED
      BY <1>1, <2>1
  <1>10. First(n) = Items([g \in Group |-> NoLease])
    BY <1>1, ItemsAre
  <1>11. QED
    BY <1>4, <1>5, <1>9, <1>10

----------------------------------------------------------------------------
(* The lease of a group whose items the table has: that of its interface,  *)
(* except while the interface is behind.                                   *)
TableLease(g) ==
    IF pc[g] \in Updating \ {"table"} THEN update[g].new
    ELSE [addr |-> addr[g], cidr |-> cidr[g]]

Current(g) == pc[g] \notin {"failed", "gone"} \/ connected[g]

(* The tables are those of leases that the groups have. *)
TableFollows(L) ==
    /\ Assigned(L) /\ TablesAre(table, hash, Items(L))
    /\ \A g \in Group : Current(g) => L[g] = TableLease(g)

TableInv == \E L : TableFollows(L)

LEMMA InitTable ==
    ASSUME NetworksDiffer, Init
    PROVE  TableInv
  <1> DEFINE L == [g \in Group |-> NoLease]
  <1>1. Assigned(L)
    BY LeasesAre DEF Assigned, NoLease
  <1>2. TablesAre(table, hash, Items(L))
    BY TablesBegin DEF Init
  <1>3. \A g \in Group : L[g] = TableLease(g)
    BY DEF Init, TableLease, NoLease, Updating
  <1>4. QED
    BY <1>1, <1>2, <1>3 DEF TableInv, TableFollows

(* Every other step of a group leaves the tables, and the lease that they  *)
(* follow, alone.                                                          *)
LEMMA StepKeepsLease ==
    ASSUME HostInv, NEW g \in Group, Act(g), ~UpdateTable(g), Current(g)'
    PROVE  Current(g) /\ TableLease(g)' = TableLease(g)
  <1>1. HostTyped /\ InterfaceFollows(g) /\ SettledFollows(g)
    BY DEF HostInv, GroupsFollow
  <1> USE <1>1 DEF GoTo, Fail, Runs, Begin, host, Updating
  <1>2. CASE Start(g) \/ Refused(g) \/ Registered(g)
    BY <1>2 DEF Start, Refused, Registered, Current, TableLease, HostTyped
  <1>3. CASE DeleteAddr(g) \/ AddAddr(g)
    BY <1>3 DEF DeleteAddr, AddAddr, Current, TableLease, HostTyped, SettledFollows
  <1>4. CASE StoreAddr(g) \/ StoreCidr(g) \/ DelNat(g)
    BY <1>4 DEF StoreAddr, StoreCidr, DelNat, Current, TableLease, HostTyped, SettledFollows
  <1>5. CASE AddNat(g)
    <2>1. /\ pc[g] = "add_nat" /\ UNCHANGED <<addr, cidr, connected>>
          /\ pc'[g] \in {"register", "routes", "failed"}
      BY <1>5 DEF AddNat, HostTyped
    <2>2. update[g].new = [addr |-> addr[g], cidr |-> cidr[g]]
      BY <2>1, LeasesAre DEF InterfaceFollows
    <2>3. QED
      BY <2>1, <2>2 DEF Current, TableLease, SettledFollows
  <1>6. CASE Join(g) \/ Leave(g) \/ Cleanup(g)
    BY <1>6 DEF Join, Leave, Cleanup, Current, TableLease, HostTyped, SettledFollows
  <1>7. QED
    BY <1>2, <1>3, <1>4, <1>5, <1>6 DEF Act

LEMMA StepTable ==
    ASSUME NetworksDiffer, HostInv, TableInv, [Next]_vars
    PROVE  TableInv'
  <1>1. PICK L : TableFollows(L)
    BY DEF TableInv
  <1>2. ASSUME UNCHANGED tables,
               \A g \in Group : Current(g)' => Current(g) /\ TableLease(g)' = TableLease(g)
        PROVE  TableInv'
    <2>1. TableFollows(L)'
      BY <1>1, <1>2 DEF TableFollows, tables
    <2>2. QED
      BY <2>1 DEF TableInv
  <1>3. CASE Signal \/ UNCHANGED vars
    BY <1>2, <1>3 DEF Signal, vars, Current, TableLease
  <1>4. ASSUME NEW g \in Group, Act(g) PROVE TableInv'
    <2>1. \A h \in Group \ {g} : Current(h)' = Current(h) /\ TableLease(h)' = TableLease(h)
      <3>1. Spares(g)
        BY <1>4, StepSpares
      <3>2. QED
        BY <3>1 DEF Spares, Same, Current, TableLease
    <2>2. CASE ~UpdateTable(g)
      <3>1. UNCHANGED tables
        BY <1>4, <2>2 DEF Act, Start, Refused, Registered, DeleteAddr, AddAddr, StoreAddr,
           StoreCidr, DelNat, AddNat, Join, Leave, Cleanup
      <3>2. QED
        BY <1>2, <1>4, <2>1, <2>2, <3>1, StepKeepsLease
    <2>3. CASE UpdateTable(g)
      <3> DEFINE new == update[g].new
                 M == [L EXCEPT ![g] = new]
                 all == Replacements(g, L[g], new)
      <3>1. HostTyped /\ InterfaceFollows(g)
        BY DEF HostInv, GroupsFollow
      <3>2. /\ pc[g] = "table" /\ new \in Leases[g]
            /\ update[g].old = [addr |-> addr[g], cidr |-> cidr[g]]
            /\ pc'[g] \in {"del_nat", "delete_addr"} /\ UNCHANGED <<update, addr, cidr, connected>>
        BY <2>3, <3>1 DEF UpdateTable, InterfaceFollows, Updating, GoTo, HostTyped
      <3>3. L[g] = update[g].old
        BY <1>1, <3>2 DEF TableFollows, Current, TableLease
      <3>4. table' = FoldLeft(Replace, table, all) /\ hash' = FoldLeft(HashReplace, hash, all)
        BY <2>3, <3>3 DEF UpdateTable
      <3>5. Assigned(L) /\ TablesAre(table, hash, Items(L))
        BY <1>1 DEF TableFollows
      <3>6. TablesAre(table', hash', Items(M))
        <4> HIDE DEF all
        <4>1. all = Replacements(g, L[g], new)
          BY DEF all
        <4> HIDE DEF new
        <4>2. QED
          BY <3>2, <3>4, <3>5, <4>1, TablesFollow
      <3>7. Assigned(M)
        BY <3>2, <3>5, LeasesAre DEF Assigned
      <3>8. ASSUME NEW h \in Group, Current(h)' PROVE M[h] = TableLease(h)'
        <4>1. CASE h = g
          BY <3>2, <3>5, <4>1 DEF TableLease, Updating, Assigned
        <4>2. CASE h # g
          <5>1. L[h] = TableLease(h)
            BY <1>1, <2>1, <3>8, <4>2 DEF TableFollows
          <5>2. QED
            BY <2>1, <3>5, <4>2, <5>1 DEF Assigned
        <4>3. QED
          BY <4>1, <4>2
      <3> HIDE DEF M
      <3>9. PICK N : N = M
        OBVIOUS
      <3>10. TableFollows(N)'
        BY <3>6, <3>7, <3>8, <3>9 DEF TableFollows
      <3>11. QED
        BY <3>10 DEF TableInv
    <2>4. QED
      BY <2>2, <2>3
  <1>5. QED
    BY <1>3, <1>4 DEF Next, Act

LEMMA TableAlways ==
    ASSUME NetworksDiffer
    PROVE  Spec => [](HostInv /\ TableInv)
  <1>1. Init => TableInv
    BY InitTable
  <1>2. HostInv /\ TableInv /\ [Next]_vars => TableInv'
    BY StepTable
  <1>3. QED
    BY <1>1, <1>2, HostAlways, PTL DEF Spec

(* Whatever the configuration has added and however often addresses have   *)
(* changed: the hash table finds, for every address, what the array finds  *)
(* among the networks written without host bits, if no two items but those *)
(* of one thing have one network.                                          *)
THEOREM TablesAlwaysAgree ==
    ASSUME NetworksDiffer
    PROVE  Spec => []TablesAgree
  <1>1. TableInv => TablesAgree
    <2> SUFFICES ASSUME NEW L, TableFollows(L), NEW a \in Address
                 PROVE  HashFind(hash, a) = FindTruncated(table, a)
      BY DEF TableInv, TablesAgree, FindTruncated
    <2>1. ArrayIs(table, Items(L)) /\ HashIs(hash, Items(L))
      BY DEF TableFollows, TablesAre
    <2>2. QED
      BY <2>1, FindsAgree
  <1>2. QED
    BY <1>1, TableAlways, PTL

(* So the two find the same item for every address if every network of the *)
(* configuration and of the servers is written without host bits.          *)
FindsTheSame == \A a \in Address : HashFind(hash, a) = Find(table, a)

THEOREM TablesFindTheSame ==
    ASSUME NetworksDiffer, \A i \in AnyItem : NoHostBits(i.cidr)
    PROVE  Spec => []FindsTheSame
  <1>1. TableInv => FindsTheSame
    <2> SUFFICES ASSUME NEW L, TableFollows(L), NEW a \in Address
                 PROVE  HashFind(hash, a) = Find(table, a)
      BY DEF TableInv, FindsTheSame
    <2>1. ArrayIs(table, Items(L)) /\ HashIs(hash, Items(L)) /\ Assigned(L)
      BY DEF TableFollows, TablesAre
    <2>2. \A i \in Items(L) : NoHostBits(i.cidr)
      BY <2>1, ItemsAreSome
    <2>3. \A k \in DOMAIN table :
              InNet(table[k].cidr, a) <=> table[k].cidr = Trunc(a, table[k].cidr.len)
      BY <2>1, <2>2 DEF ArrayIs, InNet, NoHostBits
    <2>4. Find(table, a) = FindTruncated(table, a)
      BY <2>3 DEF Find, FindTruncated, At
    <2>5. QED
      BY <2>1, <2>4, FindsAgree
  <1>2. QED
    BY <1>1, TableAlways, PTL

----------------------------------------------------------------------------
(* find_route, gateway by gateway. *)
HopFrom(t, n, next) ==
    [d \in Address |->
        LET i == Find(t, d)
        IN  CASE i = Nothing -> Nothing
              [] i # Nothing /\ i.gateway = UNSPECIFIED -> [to |-> d, if |-> i.if]
              [] OTHER -> IF n = 0 THEN Nothing ELSE next[i.gateway]]

IsHop(t, hop) == hop = [n \in 0 .. 5 |-> HopFrom(t, n, hop[n - 1])]

LEMMA HopExists ==
    ASSUME NEW t
    PROVE  \E hop : IsHop(t, hop)
  <1> DEFINE h0 == HopFrom(t, 0, Nothing)
             h1 == HopFrom(t, 1, h0)
             h2 == HopFrom(t, 2, h1)
             h3 == HopFrom(t, 3, h2)
             h4 == HopFrom(t, 4, h3)
             h5 == HopFrom(t, 5, h4)
             hop == [n \in 0 .. 5 |-> CASE n = 0 -> h0 [] n = 1 -> h1 [] n = 2 -> h2
                                        [] n = 3 -> h3 [] n = 4 -> h4 [] n = 5 -> h5]
  <1>1. \A next : HopFrom(t, 0, next) = h0
    BY DEF HopFrom
  <1>2. 0 .. 5 = {0, 1, 2, 3, 4, 5}
    OBVIOUS
  <1> HIDE DEF h0
  <1>3. /\ hop[0] = h0 /\ hop[1] = HopFrom(t, 1, hop[0]) /\ hop[2] = HopFrom(t, 2, hop[1])
        /\ hop[3] = HopFrom(t, 3, hop[2]) /\ hop[4] = HopFrom(t, 4, hop[3])
        /\ hop[5] = HopFrom(t, 5, hop[4])
    BY <1>2
  <1>4. hop = [n \in 0 .. 5 |-> hop[n]]
    OBVIOUS
  <1> HIDE DEF hop
  <1>5. \A n \in 0 .. 5 : hop[n] = HopFrom(t, n, hop[n - 1])
    <2>1. /\ 1 - 1 = 0 /\ 2 - 1 = 1 /\ 3 - 1 = 2 /\ 4 - 1 = 3 /\ 5 - 1 = 4
      OBVIOUS
    <2>2. QED
      BY <1>1, <1>2, <1>3, <2>1
  <1>6. IsHop(t, hop)
    BY <1>4, <1>5 DEF IsHop
  <1>7. QED
    BY <1>6

(* An item without a gateway is where a route ends; one with a gateway     *)
(* leads on.                                                               *)
LEMMA RouteIs ==
    ASSUME NEW t, NEW a \in Address, NEW i, Find(t, a) = i, i # Nothing
    PROVE  /\ i.gateway = UNSPECIFIED => FindRoute(t, a) = [to |-> a, if |-> i.if]
           /\ \A j : /\ i.gateway # UNSPECIFIED /\ i.gateway \in Address
                     /\ Find(t, i.gateway) = j /\ j # Nothing /\ j.gateway = UNSPECIFIED
                 => FindRoute(t, a) = [to |-> i.gateway, if |-> j.if]
  <1> DEFINE hop == CHOOSE hop : IsHop(t, hop)
  <1>1. IsHop(t, hop)
    BY HopExists
  <1>2. FindRoute(t, a) = hop[5][a]
    BY DEF FindRoute, IsHop, HopFrom
  <1> HIDE DEF hop
  <1>3. hop[5] = HopFrom(t, 5, hop[4]) /\ hop[4] = HopFrom(t, 4, hop[3])
    BY <1>1 DEF IsHop
  <1>4. ASSUME i.gateway = UNSPECIFIED PROVE hop[5][a] = [to |-> a, if |-> i.if]
    BY <1>3, <1>4 DEF HopFrom
  <1>5. ASSUME i.gateway # UNSPECIFIED, i.gateway \in Address, NEW j,
               Find(t, i.gateway) = j, j # Nothing, j.gateway = UNSPECIFIED
        PROVE  hop[5][a] = [to |-> i.gateway, if |-> j.if]
    <2>1. hop[5][a] = hop[4][i.gateway]
      BY <1>3, <1>5 DEF HopFrom
    <2>2. hop[4][i.gateway] = [to |-> i.gateway, if |-> j.if]
      BY <1>3, <1>5 DEF HopFrom
    <2>3. QED
      BY <2>1, <2>2
  <1>6. QED
    BY <1>2, <1>4, <1>5

(* Of the items for one lease per group, that of a group is found for each *)
(* address of its network.                                                 *)
LEMMA OwnItemIsFound ==
    ASSUME NetworksAreApart, NEW L, Assigned(L), NEW t, ArrayIs(t, Items(L)),
           NEW i \in Items(L), i.kind # "IpsRoute", NEW a \in Address, InNet(i.cidr, a)
    PROVE  Find(t, a) = i
  <1> DEFINE f == Find(t, a)
  <1>1. i \in Serves(Items(L), a)
    BY DEF Serves
  <1>2. f \in Serves(Items(L), a) /\ i.cidr.len <= f.cidr.len
    BY <1>1, ArrayFinds
  <1>3. f \in Items(L) /\ InNet(f.cidr, a)
    BY <1>2 DEF Serves
  <1> HIDE DEF f
  <1>4. i \in AnyItem /\ f \in AnyItem /\ Meet(i.cidr, f.cidr)
    BY <1>3, ItemsAreSome DEF Meet
  <1>5. ~(f.cidr.len < i.cidr.len)
    <2>1. f.cidr.len \in Nat /\ i.cidr.len \in Nat
      BY <1>4, ItemIs DEF AnyItem
    <2>2. QED
      BY <1>2, <2>1
  <1>6. SameThing(i, f)
    BY <1>4, <1>5 DEF NetworksAreApart
  <1>7. i = f
    BY <1>3, <1>6, ItemsDiffer
  <1>8. QED
    BY <1>7 DEF f

(* Whatever addresses the servers assign and whichever commands fail:      *)
(* while packets of a group are handled, its range and the networks that   *)
(* it offers lead where they should, the table has nothing of its earlier  *)
(* addresses, and no subnet route is lost, if the networks are apart.      *)
THEOREM NetworksAreServed ==
    ASSUME NetworksDiffer, NetworksAreApart
    PROVE  Spec => []NetworksServed
  <1>1. ASSUME HostInv, NEW L, TableFollows(L) PROVE NetworksServed
    <2> DEFINE I == Items(L)
    <2>1. Assigned(L) /\ ArrayIs(table, I)
      BY <1>1 DEF TableFollows, TablesAre
    <2>2. /\ I = {table[j] : j \in DOMAIN table}
          /\ \A j, k \in DOMAIN table : table[j] = table[k] => j = k
      BY <2>1 DEF ArrayIs
    <2>3. \A k \in DOMAIN Ips : \E j \in DOMAIN table : table[j] = IpsItem(k)
      BY <2>2, ItemsAre
    <2>4. ASSUME NEW g \in Group, connected[g]
          PROVE  /\ L[g] \in Leases[g] /\ L[g] # NoLease
                 /\ L[g].addr = addr[g] /\ L[g].cidr = cidr[g]
      <3>1. HostTyped /\ InterfaceFollows(g) /\ SettledFollows(g)
        BY <1>1 DEF HostInv, GroupsFollow
      <3>2. lease[g] = [addr |-> addr[g], cidr |-> cidr[g]] /\ pc[g] \in {"joined", "gone"}
        BY <2>4, <3>1 DEF SettledFollows, Settled
      <3>3. lease[g] \in Leases[g]
        <4>1. lease[g] # Nothing
          BY <3>1, <3>2, NodeHostAssumption DEF HostTyped
        <4>2. QED
          BY <3>1, <4>1 DEF InterfaceFollows
      <3>4. L[g] = lease[g]
        BY <1>1, <2>4, <3>2 DEF TableFollows, Current, TableLease, Updating
      <3>5. L[g] # NoLease
        BY <3>3, <3>4, LeasesAre
      <3>6. QED
        BY <3>2, <3>3, <3>4, <3>5
    <2>5. ASSUME NEW g \in Group, connected[g], NEW a \in Address, InNet(cidr[g], a)
          PROVE  /\ Find(table, a) = RangeItem(g, cidr[g])
                 /\ FindRoute(table, a) = [to |-> a, if |-> g]
      <3> DEFINE i == RangeItem(g, cidr[g])
      <3>1. i \in I /\ i.kind # "IpsRoute" /\ InNet(i.cidr, a)
            /\ i.gateway = UNSPECIFIED /\ i.if = g
        BY <2>4, <2>5, ItemsAre, ItemFields
      <3>2. i # Nothing
        BY <2>1, <3>1, ItemsAreSome, NodeHostAssumption DEF AnyItem
      <3> HIDE DEF i
      <3>3. Find(table, a) = i
        BY <2>1, <3>1, OwnItemIsFound
      <3>4. QED
        BY <3>1, <3>2, <3>3, RouteIs DEF i
    <2>6. ASSUME NEW g \in Group, connected[g], NEW k \in DOMAIN AllowedIps[g],
                 NEW a \in Address, InNet(AllowedIps[g][k], a)
          PROVE  FindRoute(table, a) = [to |-> addr[g], if |-> g]
      <3> DEFINE i == OfferItem(g, AllowedIps[g][k], addr[g])
                 j == RangeItem(g, cidr[g])
      <3>1. i \in I /\ i.kind # "IpsRoute" /\ InNet(i.cidr, a) /\ i.gateway = addr[g]
        BY <2>4, <2>6, ItemsAre, ItemFields
      <3>2. /\ i # Nothing /\ addr[g] # UNSPECIFIED /\ addr[g] \in Address
            /\ InNet(cidr[g], addr[g])
        <4>1. i # Nothing
          BY <2>1, <3>1, ItemsAreSome, NodeHostAssumption DEF AnyItem
        <4>2. L[g].addr # UNSPECIFIED /\ L[g].addr \in Address /\ InNet(L[g].cidr, L[g].addr)
          BY <2>4, <2>6, LeasesAre DEF NetworksAreApart
        <4>3. QED
          BY <2>4, <2>6, <4>1, <4>2
      <3>3. Find(table, addr[g]) = j
        BY <2>5, <2>6, <3>2
      <3>4. j # Nothing /\ j.gateway = UNSPECIFIED /\ j.if = g
        <4>1. j \in I
          BY <2>4, <2>6, ItemsAre
        <4>2. j # Nothing
          BY <2>1, <4>1, ItemsAreSome, NodeHostAssumption DEF AnyItem
        <4>3. QED
          BY <4>2, ItemFields
      <3> HIDE DEF i, j
      <3>5. Find(table, a) = i
        BY <2>1, <3>1, OwnItemIsFound
      <3>6. QED
        BY <3>1, <3>2, <3>3, <3>4, <3>5, RouteIs
    <2>7. ASSUME NEW g \in Group, connected[g], NEW j \in DOMAIN table, table[j].if = g,
                 table[j].kind # "IpsRoute"
          PROVE  \/ table[j] = RangeItem(g, cidr[g])
                 \/ \E k \in DOMAIN AllowedIps[g] :
                       table[j] = OfferItem(g, AllowedIps[g][k], addr[g])
      <3>1. table[j] \in I
        BY <2>2
      <3>2. QED
        BY <2>4, <2>7, <3>1, ItemsAre, ItemFields
    <2>8. QED
      BY <2>2, <2>3, <2>5, <2>6, <2>7 DEF NetworksServed
  <1>2. HostInv /\ TableInv => NetworksServed
    BY <1>1 DEF TableInv
  <1>3. QED
    BY <1>2, TableAlways, PTL
===============================================================================
