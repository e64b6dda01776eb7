---------------------------- MODULE MCFlowControl ----------------------------
(* Two nodes under a wide rule, one of them also under a narrow rule, and  *)
(* an address no rule names.                                               *)
EXTENDS FlowControl

CONSTANTS a1, a2, a3

ThreeAddrs == {a1, a2, a3}
NestedRules == {[cidr |-> {a1, a2}, limit |-> 1], [cidr |-> {a1}, limit |-> 2]}
=============================================================================
