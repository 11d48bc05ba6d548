-------------------------- MODULE OncePerDecision --------------------------
(***************************************************************************)
(* What idempotent submission promises, with no ledger, retry or network:  *)
(* a decision is first claimed durably; a claimed decision may be placed   *)
(* at the venue, once; a claimed decision that was not placed may be       *)
(* refused, and is then never placed.  One write of the durable record may *)
(* move several decisions.                                                 *)
(***************************************************************************)
CONSTANT Decisions

VARIABLES
    phase,   \* the durable record of each decision
    placed   \* the decisions with an order at the venue

absVars == <<phase, placed>>

Phase == {"new", "claimed", "refused"}

AbsInit ==
    /\ phase = [d \in Decisions |-> "new"]
    /\ placed = {}

(* One durable write. *)
Record ==
    /\ phase' \in [Decisions -> Phase]
    /\ \A d \in Decisions :
          \/ phase'[d] = phase[d]
          \/ phase[d] = "new" /\ phase'[d] = "claimed"
          \/ phase[d] = "claimed" /\ phase'[d] = "refused" /\ d \notin placed
    /\ UNCHANGED placed

(* The venue accepts the decision's order. *)
Place(d) ==
    /\ phase[d] = "claimed"
    /\ d \notin placed
    /\ placed' = placed \cup {d}
    /\ UNCHANGED phase

AbsNext == Record \/ \E d \in Decisions : Place(d)

AbsSpec == AbsInit /\ [][AbsNext]_absVars
=============================================================================
