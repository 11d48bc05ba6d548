-------------------------- MODULE MCExecutionPlane --------------------------
(* Instances of ExecutionPlane for TLC. *)
EXTENDS ExecutionPlane

CONSTANTS d1, d2

(* One pair; the side of each decision. *)
PairAndSide == [d \in {d1, d2} |-> IF d \in Sells THEN "SELL" ELSE "BUY"]
=============================================================================
