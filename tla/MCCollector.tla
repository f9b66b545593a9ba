---------------------------- MODULE MCCollector ----------------------------
(* Small instances of Collector for TLC. *)
EXTENDS Collector

CONSTANTS m1, m2, s1, s2

TwoAndOne == [m \in Mutators |-> IF m = m1 THEN {s1, s2} ELSE {s1}]
AllSlots == [m \in Mutators |-> Slots]
=============================================================================
