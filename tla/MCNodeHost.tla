------------------------------ MODULE MCNodeHost ------------------------------
(* Group 1 has an automatic address, group 2 that of its configuration.    *)
(* Addresses have four bits; no two networks are equal, and the range of   *)
(* two of the leases is written with host bits.                            *)
EXTENDS NodeHost

Net(n, l) == [net |-> n, len |-> l]
Lease(a, n, l) == [addr |-> a, cidr |-> Net(n, l)]

MCLeases == [g \in Group |-> IF g = 1 THEN {Lease(1, 0, 2), Lease(5, 5, 2), Lease(6, 5, 2)}
                                      ELSE {Lease(9, 8, 2)}]
MCManual == [g \in Group |-> IF g = 1 THEN Nothing ELSE Lease(9, 8, 2)]
MCAllowedIps == [g \in Group |-> IF g = 1 THEN <<Net(12, 4), Net(13, 4)>> ELSE <<Net(15, 4)>>]
MCIps ==
    <<[group |-> 2, gateway |-> 10, cidr |-> Net(14, 4)],
      [group |-> 2, gateway |-> 10, cidr |-> Net(0, 0)]>>

(* The hypotheses of NodeHostProofs *)
ASSUME GroupsAreApart /\ NetworksDiffer /\ NetworksAreApart
===============================================================================
