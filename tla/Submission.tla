----------------------------- MODULE Submission -----------------------------
(***************************************************************************)
(* IdempotentSubmitter (execution/submitter.py): one order submission, its *)
(* write-ahead ledger file, the venue it talks to and the question it asks *)
(* the venue before it retries (HummingbotExecutionReconciler's            *)
(* venue_knows_order), with process crashes at every await.                *)
(*                                                                         *)
(* The service awaits one submission at a time, so one call is in progress *)
(* (pc, cur).  Every `await self._persist()', the venue call and the       *)
(* venue question are separate steps; the code between two awaits is one   *)
(* step.  submit(d) may be called any number of times for any decision.    *)
(*                                                                         *)
(* Abstractions.  A quantity is a number of lots; the pair and the side of *)
(* a decision are one value, Instrument[d].  The planner's arithmetic is   *)
(* abstracted to the quantities it may return.  Timeouts, 5xx answers,     *)
(* transport errors and malformed 201 bodies are one event, because        *)
(* _submit_with_retries treats them alike.                                 *)
(***************************************************************************)
EXTENDS OrderLifecycle

CONSTANTS
    Decisions,      \* decision ids
    None,           \* no decision
    ReduceOnly,     \* the decisions that are protective exits (SELL, reduce_only)
    Instrument,     \* pair and side of each decision
    MaxQuantity,    \* bound on a planned quantity, in lots
    MaxRetries,     \* max_retries
    HasResolver,    \* resolver is not None
    EchoesClientId, \* the venue's order rows carry the client order id
    LateDelivery    \* a request may still reach the venue after the venue was
                    \* asked about it

ASSUME SubmissionAssumption ==
    /\ None \notin Decisions \cup Nat
    /\ ReduceOnly \subseteq Decisions
    /\ MaxQuantity \in Nat
    /\ MaxRetries \in Nat
    /\ HasResolver \in BOOLEAN
    /\ EchoesClientId \in BOOLEAN
    /\ LateDelivery \in BOOLEAN

VARIABLES
    ledger,  \* the ledger in memory: decision -> row or NoOrder
    file,    \* the ledger file, replaced atomically by each save
    pc,      \* where the current call of submit stands
    cur,     \* the decision being submitted
    answer,  \* the venue's HTTP answer waiting to be read by the call
    result,  \* status returned by the last call of submit
    wire,    \* requests sent to the venue and neither processed nor lost
    venue    \* the orders the venue has accepted

submitterVars == <<pc, cur, answer, result>>
vars == <<ledger, file, pc, cur, answer, result, wire, venue>>

(* The k-th request sent for decision d, and the venue order it creates.   *)
Request == [d : Decisions, k : Nat \ {0}, qty : Nat \ {0}]

SubmissionStatus ==
    {"submitted", "duplicate", "adopted", "plan_rejected", "rejected",
     "uncertain", "invalid_exit_size"}

Label ==
    {"idle", "gateResume", "savePlan", "saveAttempt", "call", "saveUncertain",
     "gateRetry", "saveResult"}

TypeOK ==
    /\ ledger \in [Decisions -> Order \cup {NoOrder}]
    /\ file \in [Decisions -> Order \cup {NoOrder}]
    /\ pc \in Label
    /\ cur \in Decisions \cup {None}
    /\ answer \in {"none", "accepted", "refused"}
    /\ result \in SubmissionStatus \cup {"none", "raised"}
    /\ wire \subseteq Request
    /\ venue \subseteq Request

Init ==
    /\ ledger = [d \in Decisions |-> NoOrder]
    /\ file = [d \in Decisions |-> NoOrder]
    /\ pc = "idle"
    /\ cur = None
    /\ answer = "none"
    /\ result = "none"
    /\ wire = {}
    /\ venue = {}

-----------------------------------------------------------------------------
(***************************************************************************)
(* The planner.  A quantity is floor(notional / price) lots, so any of     *)
(* 1 .. MaxQuantity; a protective exit is clamped down to the held         *)
(* quantity and, when it is resumed, to the quantity planned before        *)
(* (_reduce_only_cap).  `held' is max_quantity, None when the caller has   *)
(* no position view.                                                       *)
(***************************************************************************)
Quantities == 1 .. MaxQuantity

Holdings == {None} \cup (0 .. MaxQuantity)

(* Mutation: the quantity planned before is not a ceiling. *)
ReduceOnlyCapHeldOnly(d, held, resumedQty) ==
    IF d \notin ReduceOnly THEN None ELSE held

ReduceOnlyCap(d, held, resumedQty) ==
    CASE d \notin ReduceOnly               -> None
      [] resumedQty = 0                    -> held
      [] resumedQty # 0 /\ held = None     -> resumedQty
      [] OTHER -> IF held < resumedQty THEN held ELSE resumedQty

PlannedQuantity(quantity, cap) ==
    IF cap = None \/ quantity < cap THEN quantity ELSE cap

(***************************************************************************)
(* venue_knows_order: a row that carries our client order id, or a row the *)
(* ledger cannot account for (find_order by venue order id) with the pair, *)
(* side and quantity of the plan.                                          *)
(***************************************************************************)
AccountedFor(row) == ledger[row.d].vid = row.k

VenueKnowsOrder(d) ==
    \E row \in venue :
        \/ EchoesClientId /\ row.d = d
        \/ /\ ~ AccountedFor(row)
           /\ Instrument[row.d] = Instrument[d]
           /\ row.qty = ledger[d].qty

Return(status) == pc' = "idle" /\ cur' = None /\ result' = status

SetState(d, state) == ledger' = [ledger EXCEPT ![d].state = state]

-----------------------------------------------------------------------------
(***************************************************************************)
(* submit, before its first await.                                         *)
(***************************************************************************)

(* The decision has a row, and it is not an uncertain one. *)
SubmitDuplicate(d) ==
    /\ pc = "idle"
    /\ ledger[d].state \notin {"NONE", "SUBMISSION_UNCERTAIN"}
    /\ Return("duplicate")
    /\ UNCHANGED <<ledger, file, answer, wire, venue>>

(* _resumable_order found an uncertain row: the venue is asked first. *)
SubmitResume(d) ==
    /\ pc = "idle"
    /\ ledger[d].state = "SUBMISSION_UNCERTAIN"
    /\ pc' = "gateResume"
    /\ cur' = d
    /\ result' = "none"
    /\ UNCHANGED <<ledger, file, answer, wire, venue>>

(* Mutation: an empty position is not refused. *)
SubmitFreshUnsized(d, held) ==
    /\ pc = "idle"
    /\ ledger[d].state = "NONE"
    /\ \E quantity \in Quantities :
          ledger' = [ledger EXCEPT ![d] =
              PlannedOrder(PlannedQuantity(quantity, ReduceOnlyCap(d, held, 0)))]
    /\ pc' = "savePlan"
    /\ cur' = d
    /\ result' = "none"
    /\ UNCHANGED <<file, answer, wire, venue>>

(* A new decision is planned, pre-flighted and registered as PLANNED. *)
SubmitFresh(d, held) ==
    /\ pc = "idle"
    /\ ledger[d].state = "NONE"
    /\ \E quantity \in Quantities :
          LET cap == ReduceOnlyCap(d, held, 0) IN
          /\ cap # 0
          /\ ledger' = [ledger EXCEPT ![d] =
                            PlannedOrder(PlannedQuantity(quantity, cap))]
    /\ pc' = "savePlan"
    /\ cur' = d
    /\ result' = "none"
    /\ UNCHANGED <<file, answer, wire, venue>>

(* The planner or the pre-flight refuses a new decision: no row is made. *)
SubmitFreshRefused(d) ==
    /\ pc = "idle"
    /\ ledger[d].state = "NONE"
    /\ \E status \in {"plan_rejected", "rejected", "invalid_exit_size"} :
          /\ status = "invalid_exit_size" => d \in ReduceOnly
          /\ Return(status)
    /\ UNCHANGED <<ledger, file, answer, wire, venue>>

-----------------------------------------------------------------------------
(***************************************************************************)
(* _gate_retry.  Without LateDelivery the venue answers only once every    *)
(* request of the decision has been processed or lost: the assumption      *)
(* under which "the venue does not know it" means that it never will.      *)
(***************************************************************************)
AtGate == pc \in {"gateResume", "gateRetry"}

Settled == LateDelivery \/ \A r \in wire : r.d # cur

(* No resolver, or the question failed: the order stays uncertain. *)
GateUnanswered ==
    /\ AtGate
    /\ Return("uncertain")
    /\ UNCHANGED <<ledger, file, answer, wire, venue>>

(* The venue knows the order.  The row gets no venue_order_id. *)
GateAdopt ==
    /\ AtGate
    /\ HasResolver /\ Settled
    /\ VenueKnowsOrder(cur)
    /\ SetState(cur, "SUBMITTED")
    /\ pc' = "saveResult"
    /\ result' = "adopted"
    /\ UNCHANGED <<file, cur, answer, wire, venue>>

(* Absent, and the retries are used up. *)
GateExhausted ==
    /\ AtGate
    /\ HasResolver /\ Settled
    /\ ~ VenueKnowsOrder(cur)
    /\ ledger[cur].attempts > MaxRetries
    /\ SetState(cur, "REJECTED")
    /\ pc' = "saveResult"
    /\ result' = "rejected"
    /\ UNCHANGED <<file, cur, answer, wire, venue>>

(* Mutation: the retry does not depend on what the venue knows. *)
MayRetryUnasked == HasResolver /\ Settled /\ ledger[cur].attempts <= MaxRetries

(* Mutation: one attempt too many. *)
MayRetryOnceMore ==
    /\ HasResolver /\ Settled
    /\ ~ VenueKnowsOrder(cur)
    /\ ledger[cur].attempts <= MaxRetries + 1

MayRetry ==
    /\ HasResolver /\ Settled
    /\ ~ VenueKnowsOrder(cur)
    /\ ledger[cur].attempts <= MaxRetries

(* Mutation: the attempt is not counted. *)
GateRetryUncounted ==
    /\ pc = "gateRetry"
    /\ MayRetry
    /\ pc' = "saveAttempt"
    /\ UNCHANGED <<ledger, file, cur, answer, result, wire, venue>>

(* Absent, inside the retry loop: sleep, then count the next attempt. *)
GateRetry ==
    /\ pc = "gateRetry"
    /\ MayRetry
    /\ ledger' = [ledger EXCEPT ![cur].attempts = @ + 1]
    /\ pc' = "saveAttempt"
    /\ UNCHANGED <<file, cur, answer, result, wire, venue>>

(* Absent, on a resumed row: planned again at the current price. *)
GateReplan(held) ==
    /\ pc = "gateResume"
    /\ MayRetry
    /\ \E quantity \in Quantities :
          LET cap == ReduceOnlyCap(cur, held, ledger[cur].qty) IN
          /\ cap # 0
          /\ ledger' = [ledger EXCEPT ![cur].qty = PlannedQuantity(quantity, cap)]
    /\ pc' = "savePlan"
    /\ UNCHANGED <<file, cur, answer, result, wire, venue>>

(* Absent, but the new plan or the pre-flight is refused: REJECTED. *)
GateReplanRefused ==
    /\ pc = "gateResume"
    /\ MayRetry
    /\ SetState(cur, "REJECTED")
    /\ pc' = "saveResult"
    /\ \E status \in {"plan_rejected", "rejected", "invalid_exit_size"} :
          /\ status = "invalid_exit_size" => cur \in ReduceOnly
          /\ result' = status
    /\ UNCHANGED <<file, cur, answer, wire, venue>>

-----------------------------------------------------------------------------
(***************************************************************************)
(* _persist, followed by the code up to the next await.                    *)
(***************************************************************************)
AtSave == pc \in {"savePlan", "saveAttempt", "saveUncertain", "saveResult"}

(* The plan is on disk; the attempt is counted. *)
SavePlan ==
    /\ pc = "savePlan"
    /\ file' = ledger
    /\ ledger' = [ledger EXCEPT ![cur].attempts = @ + 1]
    /\ pc' = "saveAttempt"
    /\ UNCHANGED <<cur, answer, result, wire, venue>>

(* Mutation: the request is sent before the attempt is on disk. *)
SaveAttemptLate ==
    /\ pc = "saveAttempt"
    /\ wire' = wire \cup
          {[d |-> cur, k |-> ledger[cur].attempts, qty |-> ledger[cur].qty]}
    /\ answer' = "none"
    /\ pc' = "call"
    /\ UNCHANGED <<ledger, file, cur, result, venue>>

(* The attempt is on disk; the request is sent. *)
SaveAttempt ==
    /\ pc = "saveAttempt"
    /\ file' = ledger
    /\ wire' = wire \cup
          {[d |-> cur, k |-> ledger[cur].attempts, qty |-> ledger[cur].qty]}
    /\ answer' = "none"
    /\ pc' = "call"
    /\ UNCHANGED <<ledger, cur, result, venue>>

SaveUncertain ==
    /\ pc = "saveUncertain"
    /\ file' = ledger
    /\ pc' = "gateRetry"
    /\ UNCHANGED <<ledger, cur, answer, result, wire, venue>>

SaveResult ==
    /\ pc = "saveResult"
    /\ file' = ledger
    /\ Return(result)
    /\ UNCHANGED <<ledger, answer, wire, venue>>

(* The save raises before it replaces the file. *)
SaveRaises ==
    /\ AtSave
    /\ Return("raised")
    /\ UNCHANGED <<ledger, file, answer, wire, venue>>

-----------------------------------------------------------------------------
(***************************************************************************)
(* _call, and what _submit_with_retries does with its outcome.             *)
(***************************************************************************)
CallAccepted ==
    /\ pc = "call"
    /\ answer = "accepted"
    /\ ledger' = [ledger EXCEPT ![cur].vid = ledger[cur].attempts,
                                ![cur].state = "SUBMITTED"]
    /\ answer' = "none"
    /\ pc' = "saveResult"
    /\ result' = "submitted"
    /\ UNCHANGED <<file, cur, wire, venue>>

(* 4xx: the venue understood the request and refused it. *)
CallRefused ==
    /\ pc = "call"
    /\ answer = "refused"
    /\ SetState(cur, "REJECTED")
    /\ answer' = "none"
    /\ pc' = "saveResult"
    /\ result' = "rejected"
    /\ UNCHANGED <<file, cur, wire, venue>>

(* Timeout, 5xx, transport error or malformed 201: venue truth unknown. *)
CallUncertain ==
    /\ pc = "call"
    /\ SetState(cur, "SUBMISSION_UNCERTAIN")
    /\ answer' = "none"
    /\ pc' = "saveUncertain"
    /\ UNCHANGED <<file, cur, result, wire, venue>>

-----------------------------------------------------------------------------
(***************************************************************************)
(* The venue and the network (external).  An answer to a request that the  *)
(* call no longer waits for is dropped.                                    *)
(***************************************************************************)
Awaited(r) == pc = "call" /\ r.d = cur /\ r.k = ledger[cur].attempts

VenueAccept(r) ==
    /\ r \in wire
    /\ wire' = wire \ {r}
    /\ venue' = venue \cup {r}
    /\ answer' = IF Awaited(r) THEN "accepted" ELSE answer
    /\ UNCHANGED <<ledger, file, pc, cur, result>>

VenueRefuse(r) ==
    /\ r \in wire
    /\ wire' = wire \ {r}
    /\ answer' = IF Awaited(r) THEN "refused" ELSE answer
    /\ UNCHANGED <<ledger, file, pc, cur, result, venue>>

RequestLost(r) ==
    /\ r \in wire
    /\ wire' = wire \ {r}
    /\ UNCHANGED <<ledger, file, pc, cur, answer, result, venue>>

(* Mutation: the process restarts with an empty ledger. *)
CrashForgets ==
    /\ ledger' = [d \in Decisions |-> NoOrder]
    /\ pc' = "idle"
    /\ cur' = None
    /\ answer' = "none"
    /\ result' = "none"
    /\ UNCHANGED <<file, wire, venue>>

(* The process dies and restarts from the ledger file. *)
Crash ==
    /\ ledger' = file
    /\ pc' = "idle"
    /\ cur' = None
    /\ answer' = "none"
    /\ result' = "none"
    /\ UNCHANGED <<file, wire, venue>>

-----------------------------------------------------------------------------
SubmitStep(d) ==
    \/ SubmitDuplicate(d) \/ SubmitResume(d) \/ SubmitFreshRefused(d)
    \/ \E held \in Holdings : SubmitFresh(d, held)

GateStep ==
    \/ GateUnanswered \/ GateAdopt \/ GateExhausted
    \/ GateRetry \/ GateReplanRefused
    \/ \E held \in Holdings : GateReplan(held)

SaveStep == SavePlan \/ SaveAttempt \/ SaveUncertain \/ SaveResult \/ SaveRaises

CallStep == CallAccepted \/ CallRefused \/ CallUncertain

NetworkStep == \E r \in wire : VenueAccept(r) \/ VenueRefuse(r) \/ RequestLost(r)

Next ==
    \/ \E d \in Decisions : SubmitStep(d)
    \/ GateStep
    \/ SaveStep
    \/ CallStep
    \/ NetworkStep
    \/ Crash

Spec == Init /\ [][Next]_vars

(***************************************************************************)
(* The event loop keeps running a call that is not waiting, every request  *)
(* carries a timeout (asyncio.timeout around _call, httpx timeouts on the  *)
(* question), and a request does not stay on the wire for ever.  Nothing   *)
(* obliges a caller to submit, or the process to crash.                    *)
(***************************************************************************)
FairSpec ==
    Spec /\ WF_vars(GateStep) /\ WF_vars(SaveStep) /\ WF_vars(CallStep)
         /\ WF_vars(NetworkStep)

-----------------------------------------------------------------------------
(***************************************************************************)
(* Properties.                                                             *)
(***************************************************************************)

(* "One decision produces at most one venue order, across restarts"        *)
(* (submitter.py:5): however calls, retries, timeouts, failed saves and    *)
(* crashes interleave, the venue never accepts two requests of a decision. *)
AtMostOneOrder == \A r1, r2 \in venue : r1.d = r2.d => r1 = r2

(* The ledger row of a request is on disk before the request is sent and   *)
(* counts it, so that no crash can forget that a decision was acted on     *)
(* (submitter.py:6-7).                                                     *)
WriteAhead ==
    \A r \in wire \cup venue :
        file[r.d] # NoOrder /\ r.k <= file[r.d].attempts

(* REJECTED is a permanent failure (SubmissionStatus.REJECTED): an order   *)
(* the ledger, in memory or on disk, calls REJECTED is not at the venue    *)
(* and no request of it can still get there.                               *)
RejectedNeverPlaced ==
    \A r \in wire \cup venue :
        ledger[r.d].state # "REJECTED" /\ file[r.d].state # "REJECTED"

(* Retries are bounded by max_retries over the whole life of a decision,   *)
(* resumptions and restarts included: no request is numbered above it.     *)
BoundedRequests == \A r \in wire \cup venue : r.k <= MaxRetries + 1

(* The ledger file moves only along the transition table, loses no row and *)
(* never lowers an attempt count, although saves fail and crashes undo     *)
(* what memory had recorded after the last save.                           *)
RowProgress(old, new) ==
    old # NoOrder =>
        /\ new # NoOrder
        /\ IsLegalTransition(old.state, new.state)
        /\ old.attempts <= new.attempts

DurableLifecycle ==
    [][\A d \in Decisions : RowProgress(file[d], file'[d])]_vars

(* A protective exit that is planned again after an uncertain submission   *)
(* can only hold or shrink (_reduce_only_cap): a later request never asks  *)
(* the venue for more than the row on disk asked for before.               *)
ReduceOnlyNeverGrows ==
    [][\A d \in ReduceOnly :
          file[d] # NoOrder => file'[d].qty <= file[d].qty]_vars

(* Every call of submit returns: the retry loop ends, whatever the venue   *)
(* answers.                                                                *)
CallReturns == pc # "idle" ~> pc = "idle"

(***************************************************************************)
(* Submission implements OncePerDecision: the durable record is the ledger *)
(* file, and a decision is placed when the venue holds an order of it.     *)
(***************************************************************************)
PhaseOf(row) ==
    CASE row.state = "NONE"     -> "new"
      [] row.state = "REJECTED" -> "refused"
      [] OTHER                  -> "claimed"

Abs == INSTANCE OncePerDecision WITH
          phase  <- [d \in Decisions |-> PhaseOf(file[d])],
          placed <- {r.d : r \in venue}

(* Every step of the submitter, the venue and the crashes is a step of     *)
(* OncePerDecision or leaves its state alone.                              *)
ImplementsOncePerDecision == Abs!AbsSpec

-----------------------------------------------------------------------------
(***************************************************************************)
(* The inductive invariants.  BaseInv holds whatever the network does;     *)
(* OnceInv is what the retry gate preserves when no request of a decision  *)
(* reaches the venue after the venue was asked about it.                   *)
(***************************************************************************)

(* Memory has moved on from the file along the transition table, and an    *)
(* uncertain row is never missing from the file.                           *)
LedgerAhead ==
    \A d \in Decisions :
        /\ RowProgress(file[d], ledger[d])
        /\ file[d] = NoOrder => ledger[d].state # "SUBMISSION_UNCERTAIN"

(* Only a row that was never sent can be missing from the file. *)
UnsavedIsPlanned ==
    \A d \in Decisions :
        file[d] = NoOrder => ledger[d].state \in {"NONE", "PLANNED"}

AttemptsBounded ==
    /\ \A d \in Decisions : ledger[d].attempts <= MaxRetries + 1
    /\ pc = "savePlan" => ledger[cur].attempts <= MaxRetries

ExitsShrink ==
    \A d \in ReduceOnly : file[d] # NoOrder => ledger[d].qty <= file[d].qty

(* Where a call stands tells the state of its row. *)
CallState ==
    /\ pc = "idle" <=> cur = None
    /\ pc \in {"gateResume", "gateRetry", "saveUncertain"}
          => ledger[cur].state = "SUBMISSION_UNCERTAIN"
    /\ pc \in {"savePlan", "saveAttempt", "call"}
          => ledger[cur].state \in {"PLANNED", "SUBMISSION_UNCERTAIN"}
    /\ pc = "saveAttempt" => ledger[cur].attempts # 0
    /\ pc \in {"saveAttempt", "call"} => file[cur] # NoOrder
    /\ answer # "none" => pc = "call"

(* Whatever the network does: the file never overtakes memory, requests    *)
(* are on disk before they are sent, attempts stay bounded, exits shrink.  *)
ProgressInv ==
    /\ LedgerAhead
    /\ WriteAhead
    /\ AttemptsBounded
    /\ ExitsShrink
    /\ CallState

(* What the submitter keeps even beside others that write the ledger. *)
CoreInv == TypeOK /\ ProgressInv

BaseInv == CoreInv /\ UnsavedIsPlanned

(* A decision has at most one request on the wire or at the venue ... *)
OneLiveRequest ==
    /\ wire \cap venue = {}
    /\ \A r1, r2 \in wire \cup venue : r1.d = r2.d => r1 = r2

(* ... and it has the quantity of its row, in memory and on disk. *)
LiveQuantity ==
    \A r \in wire \cup venue :
        r.qty = ledger[r.d].qty /\ r.qty = file[r.d].qty

(* An uncertain row has no venue order id, so that the venue's row of its  *)
(* request is one the ledger cannot account for.                           *)
IdSettlesState ==
    \A d \in Decisions : \A row \in {ledger[d], file[d]} :
        row.vid # 0 => row.state \notin {"PLANNED", "SUBMISSION_UNCERTAIN"}

NoLiveRequest(d) == \A r \in wire \cup venue : r.d # d

(* A call about to send, or refused by the venue, has no live request. *)
CallOwnsDecision ==
    /\ pc \in {"savePlan", "saveAttempt"} => NoLiveRequest(cur)
    /\ answer = "refused" => NoLiveRequest(cur)

(* What makes a negative answer of the venue sufficient to send again: the *)
(* only request a row can have is the one its quantity identifies.         *)
OnceInv ==
    /\ OneLiveRequest
    /\ LiveQuantity
    /\ IdSettlesState
    /\ RejectedNeverPlaced
    /\ CallOwnsDecision
=============================================================================
