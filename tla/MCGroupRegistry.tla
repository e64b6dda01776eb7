--------------------------- MODULE MCGroupRegistry ---------------------------
(* Addresses for the run of GroupRegistry: the network is 1 to 4, hosts    *)
(* are 2 and 3, and 4 is the broadcast address.                            *)
EXTENDS GroupRegistry

TwoHosts == 2..4
=============================================================================
