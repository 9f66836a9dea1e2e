---------------------------- MODULE MCPlacement ----------------------------
(* Small instances of Placement for TLC. *)
EXTENDS Placement

CONSTANTS a, b, c, d

(* One unit each, or a bigger newcomer *)
Units == [i \in Instances |-> 1]
BigC == [i \in Instances |-> IF i = c THEN 2 ELSE 1]
=============================================================================
