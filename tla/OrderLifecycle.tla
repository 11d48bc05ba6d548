--------------------------- MODULE OrderLifecycle ---------------------------
(***************************************************************************)
(* The order-lifecycle state machine of execution/ledger.py and the rows   *)
(* of the execution ledger.  A constant-level module: it declares no       *)
(* variable, and every stateful module takes its states, its transition    *)
(* table and its order records from here.                                  *)
(***************************************************************************)
EXTENDS Naturals, FiniteSets

(* OrderLifecycleState *)
OrderState ==
    {"PLANNED", "SUBMITTED", "SUBMISSION_UNCERTAIN", "ACKNOWLEDGED", "OPEN",
     "PARTIALLY_FILLED", "FILLED", "CANCELLED", "REJECTED", "EXPIRED"}

(* TERMINAL_ORDER_STATES *)
TerminalStates == {"FILLED", "CANCELLED", "REJECTED", "EXPIRED"}

(* _CLOSING: what a venue snapshot or a fill may report of a live order. *)
ClosingStates == {"PARTIALLY_FILLED"} \cup TerminalStates

(* _ALLOWED_TRANSITIONS *)
AllowedTransitions ==
    [ PLANNED              |-> {"SUBMITTED", "SUBMISSION_UNCERTAIN",
                                "ACKNOWLEDGED", "OPEN"} \cup ClosingStates,
      SUBMITTED            |-> {"SUBMISSION_UNCERTAIN", "ACKNOWLEDGED", "OPEN"}
                               \cup ClosingStates,
      SUBMISSION_UNCERTAIN |-> {"SUBMITTED", "ACKNOWLEDGED", "OPEN"}
                               \cup ClosingStates,
      ACKNOWLEDGED         |-> {"OPEN"} \cup ClosingStates,
      OPEN                 |-> ClosingStates,
      PARTIALLY_FILLED     |-> TerminalStates,
      FILLED               |-> {},
      CANCELLED            |-> {},
      REJECTED             |-> {},
      EXPIRED              |-> {} ]

(* is_legal_transition: re-asserting the current state is always legal. *)
IsLegalTransition(current, target) ==
    current = target \/ target \in AllowedTransitions[current]

-----------------------------------------------------------------------------
(***************************************************************************)
(* A ledger row (ExecutionOrder).  Rows are keyed by the client order id,  *)
(* a deterministic function of the decision id, so the ledger is modelled  *)
(* as a function on decisions.  `vid' is venue_order_id: 0 for None, k for *)
(* the id the venue minted for the k-th request of the decision.  `qty' is *)
(* requested_quantity in lots.  `fills' are the lots of the order whose    *)
(* fill ids are in processed_fill_ids, so that filled_quantity is          *)
(* Cardinality(fills).  Prices, fees and timestamps are left out.          *)
(***************************************************************************)
Order ==
    [ state    : OrderState,
      vid      : Nat,
      attempts : Nat,
      qty      : Nat \ {0},
      fills    : SUBSET Nat ]

(* The absence of a row. *)
NoOrder == [state |-> "NONE", vid |-> 0, attempts |-> 0, qty |-> 0, fills |-> {}]

(* _register: what the submitter and the paper-fill simulator register. *)
PlannedOrder(quantity) ==
    [state |-> "PLANNED", vid |-> 0, attempts |-> 0, qty |-> quantity, fills |-> {}]

FilledQuantity(order) == Cardinality(order.fills)

(* The state record_fill gives an order once the lots of a fill are filled. *)
StateAfterFill(order, lots) ==
    IF FilledQuantity(order) + Cardinality(lots) = order.qty
    THEN "FILLED" ELSE "PARTIALLY_FILLED"

(***************************************************************************)
(* record_fill accepts a fill of the given lots: not an overfill, and the  *)
(* transition it implies is legal.  (A fill already in fills is skipped    *)
(* before this test; an unknown order raises before it.)                   *)
(***************************************************************************)
FillAccepted(order, lots) ==
    /\ FilledQuantity(order) + Cardinality(lots) <= order.qty
    /\ IsLegalTransition(order.state, StateAfterFill(order, lots))

(* Mutation: the fill ids of an order are forgotten once it is filled. *)
WithFillCompacted(order, lots) ==
    LET state == StateAfterFill(order, lots)
    IN  [state |-> state, vid |-> order.vid, attempts |-> order.attempts, qty |-> order.qty,
         fills |-> IF state = "FILLED" THEN {} ELSE order.fills \cup lots]

(* record_fill's effect on the row. *)
WithFill(order, lots) ==
    [state |-> StateAfterFill(order, lots), vid |-> order.vid,
     attempts |-> order.attempts, qty |-> order.qty, fills |-> order.fills \cup lots]
=============================================================================
