---------------------------- MODULE MCSubmission ----------------------------
(* Instances of Submission for TLC. *)
EXTENDS Submission

CONSTANTS d1, d2

(* Both decisions trade the same pair on the same side: the hardest case   *)
(* for venue_knows_order, which then tells their rows apart by quantity.   *)
OneInstrument == [d \in {d1, d2} |-> "BTC-USD SELL"]
=============================================================================
