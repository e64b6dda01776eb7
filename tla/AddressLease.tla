---------------------------- MODULE AddressLease ----------------------------
(***************************************************************************)
(* What the coordinator of one group promises about virtual addresses,     *)
(* with none of the locks and steps it takes to keep the promise.          *)
(*                                                                         *)
(* A connection may be granted an address nobody else holds; a connection  *)
(* that holds an address may enter the directory under it, and leaves the  *)
(* directory before the address is given back.  A relay looks an address   *)
(* up in the directory, so it can never find anybody but the holder.       *)
(***************************************************************************)
CONSTANTS
    Client,     \* the connections of the group
    Address,    \* the virtual addresses
    Nobody      \* the directory entry of an address nobody is listed under

VARIABLES
    lease,      \* the pairs <<client, address>> of granted addresses
    directory   \* address -> the client listed under it, or Nobody

vars == <<lease, directory>>

Init ==
    /\ lease = {}
    /\ directory = [a \in Address |-> Nobody]

Grant(c, a) ==
    /\ \A d \in Client : <<d, a>> \notin lease
    /\ \A b \in Address : <<c, b>> \notin lease
    /\ lease' = lease \cup {<<c, a>>}
    /\ UNCHANGED directory

List(c, a) ==
    /\ <<c, a>> \in lease
    /\ directory[a] = Nobody
    /\ directory' = [directory EXCEPT ![a] = c]
    /\ UNCHANGED lease

Unlist(c, a) ==
    /\ directory[a] = c
    /\ directory' = [directory EXCEPT ![a] = Nobody]
    /\ UNCHANGED lease

Return(c, a) ==
    /\ <<c, a>> \in lease
    /\ directory[a] = Nobody
    /\ lease' = lease \ {<<c, a>>}
    /\ UNCHANGED directory

Next ==
    \E c \in Client, a \in Address :
        Grant(c, a) \/ List(c, a) \/ Unlist(c, a) \/ Return(c, a)

Spec == Init /\ [][Next]_vars
=============================================================================
