------------------------- MODULE MCDynamicRegistry --------------------------
(***************************************************************************)
(* Instances of DynamicRegistry for TLC.                                   *)
(***************************************************************************)
EXTENDS DynamicRegistry, TLC

CONSTANTS c1, c2, l1, l2

(* The first item of c1 must come before the first of c2.                  *)
MCNames == [i \in Id |-> IF i = <<c1, l1>> THEN {<<c2, l1>>} ELSE {}]
=============================================================================
